--------------------------- MODULE ImgHeaderProofs ---------------------------
(***************************************************************************)
(* Proofs for every file and every size of the buffer: what the buffer of  *)
(* the header parser holds is the file, the parser reads it like one that  *)
(* has no buffer, and what it finds in a whole GIF is right.               *)
(***************************************************************************)
EXTENDS ImgHeader, TLAPS

StreamInv == file \in Files /\ stream \in Stream /\ StreamCoherent

-----------------------------------------------------------------------------
\* fread gives no more than it is asked for, and than the file has.
LEMMA GetsBounds ==
  ASSUME NEW s \in Stream, NEW room \in Nat, file \in Files
  PROVE  /\ Gets(s, room) \in 0 .. room
         /\ Gets(s, room) > 0 => s.fd + Gets(s, room) <= Len(file.bytes)
  <1>1. Len(file.bytes) \in Nat /\ s.fd \in Nat
    BY HeaderAssumption DEF HeaderAssumption, Stream
  <1> QED
    BY <1>1 DEF Gets

\* What is left of the buffer is moved to its start, the file follows it.
LEMMA RefilledCoherent ==
  ASSUME NEW s \in Stream, file \in Files, Coherent(s),
         NEW kept \in Nat, NEW got \in Nat \ {0},
         kept = s.buffend - s.buffpos \/ kept = 0,
         kept + got <= FILE_READ_SIZE, s.fd + got <= Len(file.bytes)
  PROVE  Refilled(s, kept, got) \in Stream /\ Coherent(Refilled(s, kept, got))
  <1> DEFINE r == Refilled(s, kept, got)
             B == 0 .. FILE_READ_SIZE - 1
  <1>1. /\ FILE_READ_SIZE \in Nat /\ file.bytes \in Seq(Byte)
        /\ Len(file.bytes) \in Nat
        /\ \A i \in 1 .. Len(file.bytes) : file.bytes[i] \in Byte
    BY HeaderAssumption DEF HeaderAssumption
  <1>2. /\ s.buffer \in [B -> Byte]
        /\ s.buffpos \in Nat /\ s.buffend \in Nat /\ s.fd \in Nat
        /\ s.filepos = s.fd /\ s.buffend <= FILE_READ_SIZE /\ s.buffend <= s.fd
    BY DEF Stream, Coherent
  <1>3. /\ r.buffpos = 0 /\ r.buffend = kept + got
        /\ r.filepos = s.filepos + got /\ r.fd = s.fd + got
    BY DEF Refilled, Stream
  <1>4. r.buffer = [i \in B |->
                      IF i < kept THEN s.buffer[s.buffpos + i]
                      ELSE IF i < kept + got THEN file.bytes[s.fd + i - kept + 1]
                      ELSE s.buffer[i]]
    BY <1>2 DEF Refilled, Stream
  <1>5. \A i \in B : r.buffer[i] \in Byte
    <2> SUFFICES ASSUME NEW i \in B PROVE r.buffer[i] \in Byte
      OBVIOUS
    <2>1. CASE i < kept
      <3>1. s.buffpos + i \in B
        BY <2>1, <1>1, <1>2
      <3> QED
        BY <3>1, <2>1, <1>2, <1>4
    <2>2. CASE ~(i < kept) /\ i < kept + got
      <3>1. s.fd + i - kept + 1 \in 1 .. Len(file.bytes)
        <4>1. /\ s.fd \in Nat /\ i \in Nat /\ kept \in Nat /\ got \in Nat
              /\ Len(file.bytes) \in Nat
              /\ kept <= i /\ i < kept + got /\ s.fd + got <= Len(file.bytes)
          BY <2>2, <1>1, <1>2
        <4> QED
          BY ONLY <4>1, SMT
      <3> QED
        <4>1. r.buffer[i] = file.bytes[s.fd + i - kept + 1]
          BY <2>2, <1>4
        <4> QED
          BY ONLY <3>1, <4>1, <1>1, Zenon
    <2>3. CASE ~(i < kept) /\ ~(i < kept + got)
      BY <2>3, <1>2, <1>4
    <2> QED
      BY <2>1, <2>2, <2>3
  <1>6. r \in Stream
    <2>1. r.buffer \in [B -> Byte]
      BY <1>4, <1>5
    <2> QED
      BY <2>1, <1>2 DEF Refilled, Stream
  <1>7. ASSUME NEW i \in 0 .. r.buffend - 1
        PROVE  r.buffer[i] = file.bytes[r.fd - r.buffend + i + 1]
    <2>1. i \in B /\ i < kept + got /\ r.fd - r.buffend = s.fd - kept
      BY <1>1, <1>2, <1>3
    <2>2. CASE i < kept
      <3>1. kept = s.buffend - s.buffpos /\ s.buffpos + i \in 0 .. s.buffend - 1
        <4>1. /\ s.buffend \in Nat /\ s.buffpos \in Nat /\ i \in Nat
              /\ kept \in Nat /\ i < kept
              /\ kept = s.buffend - s.buffpos \/ kept = 0
          BY <2>2, <2>1, <1>2
        <4> QED
          BY ONLY <4>1, SMT
      <3>2. s.buffer[s.buffpos + i] =
              file.bytes[s.fd - s.buffend + (s.buffpos + i) + 1]
        BY <3>1 DEF Coherent
      <3>3. s.fd - s.buffend + (s.buffpos + i) + 1 = s.fd - kept + i + 1
        <4>1. /\ s.fd \in Int /\ s.buffend \in Int /\ s.buffpos \in Int
              /\ i \in Int /\ kept \in Int
          BY <1>1, <1>2, <2>1
        <4>2. PICK a \in Int, b \in Int, c \in Int :
                 a = s.fd /\ b = s.buffend /\ c = s.buffpos
          BY ONLY <4>1
        <4>3. kept = b - c
          BY ONLY <3>1, <4>2
        <4>4. a - b + (c + i) + 1 = a - kept + i + 1
          BY ONLY <4>1, <4>3, SMT
        <4> QED
          BY ONLY <4>2, <4>4, Zenon
      <3> QED
        BY <3>2, <3>3, <2>1, <2>2, <1>4
    <2>3. CASE ~(i < kept)
      <3>1. s.fd + i - kept + 1 = r.fd - r.buffend + i + 1
        BY <2>1, <1>2
      <3> QED
        BY <3>1, <2>1, <2>3, <1>4
    <2> QED
      BY <2>2, <2>3
  <1>8. Coherent(r)
    <2>1. \A i \in 0 .. r.buffend - 1 :
             r.buffer[i] = file.bytes[r.fd - r.buffend + i + 1]
      BY ONLY <1>7
    <2>2. r.filepos = r.fd /\ r.buffend <= FILE_READ_SIZE /\ r.buffend <= r.fd
      BY <1>1, <1>2, <1>3
    <2> HIDE DEF r
    <2> QED
      BY ONLY <2>1, <2>2 DEF Coherent
  <1> QED
    BY <1>6, <1>8

LEMMA CheckBufferCoherent ==
  ASSUME NEW s \in Stream, file \in Files, Coherent(s), NEW n \in Nat,
         CheckBuffer(s, n) # Failed
  PROVE  CheckBuffer(s, n) \in Stream /\ Coherent(CheckBuffer(s, n))
  <1> DEFINE room == IF s.buffpos = 0 THEN FILE_READ_SIZE ELSE s.buffpos
             kept == IF s.buffpos = 0 THEN 0 ELSE s.buffend - s.buffpos
             got == Gets(s, room)
  <1>1. /\ FILE_READ_SIZE \in Nat
        /\ s.buffpos \in Nat /\ s.buffend \in Nat
        /\ s.buffend <= FILE_READ_SIZE
    BY HeaderAssumption DEF HeaderAssumption, Stream, Coherent
  <1>2. room \in Nat
    BY <1>1
  <1>3. CASE n + s.buffpos <= s.buffend
    BY <1>3 DEF CheckBuffer
  <1>4. CASE ~(n + s.buffpos <= s.buffend)
    <2>1. /\ CheckBuffer(s, n) = Refilled(s, kept, got)
          /\ got # 0 /\ (s.buffpos > 0 => ~(s.buffend - s.buffpos < 0))
      BY <1>4 DEF CheckBuffer
    <2>2. got \in 0 .. room /\ (got > 0 => s.fd + got <= Len(file.bytes))
      BY <1>2, GetsBounds
    <2>3. kept \in Nat /\ got \in Nat \ {0} /\ kept + got <= FILE_READ_SIZE
      BY <2>1, <2>2, <1>1
    <2>4. Refilled(s, kept, got) \in Stream /\ Coherent(Refilled(s, kept, got))
      BY <2>2, <2>3, RefilledCoherent
    <2> QED
      BY <2>1, <2>4
  <1> QED
    BY <1>3, <1>4

LEMMA SkippedCoherent ==
  ASSUME NEW s \in Stream, file \in Files, Coherent(s), NEW n \in Nat
  PROVE  Skipped(s, n) \in Stream /\ Coherent(Skipped(s, n))
  <1>1. Skipped(s, n) = [buffer |-> s.buffer, buffpos |-> s.buffpos + n,
                         buffend |-> s.buffend, filepos |-> s.filepos,
                         fd |-> s.fd]
    BY DEF Skipped, Stream
  <1> QED
    BY <1>1 DEF Stream, Coherent

LEMMA SoughtPastCoherent ==
  ASSUME NEW s \in Stream, file \in Files, Coherent(s), NEW n \in Nat,
         n + s.buffpos > s.buffend
  PROVE  SoughtPast(s, n) \in Stream /\ Coherent(SoughtPast(s, n))
  BY HeaderAssumption DEF HeaderAssumption, SoughtPast, Stream, Coherent

LEMMA AheadIsByte ==
  ASSUME NEW s \in Stream, NEW n \in Nat, NEW b \in Ahead(s, n)
  PROVE  b \in Byte
  BY HeaderAssumption DEF HeaderAssumption, Ahead, Stream

-----------------------------------------------------------------------------
LEMMA StreamInvInit == HeaderInit => StreamInv
  BY HeaderAssumption
  DEF HeaderAssumption, HeaderInit, HeaderStart, NoStream, StreamInv,
      StreamCoherent, Coherent, Stream, Byte

LEMMA StreamInvStep ==
  ASSUME StreamInv, HeaderStep, UNCHANGED file
  PROVE  StreamInv'
  <1> USE DEF StreamInv, StreamCoherent
  <1>1. /\ stream \in Stream /\ Coherent(stream) /\ file \in Files
        /\ file' = file
    OBVIOUS
  <1>2. ASSUME NEW t, stream' = t, t \in Stream, Coherent(t)
        PROVE  StreamInv'
    BY <1>1, <1>2 DEF Coherent
  <1>3. ASSUME NEW n \in Nat, NEW m \in Nat, CheckBuffer(stream, n) # Failed,
               stream' = Skipped(CheckBuffer(stream, n), m)
        PROVE  StreamInv'
    BY <1>1, <1>2, <1>3, CheckBufferCoherent, SkippedCoherent
  <1>4. UNCHANGED stream => StreamInv'
    BY <1>1, <1>2
  <1>5. CASE OpenFile
    BY <1>4, <1>5 DEF OpenFile
  <1>6. CASE NextBlock
    BY <1>3, <1>4, <1>6 DEF NextBlock, Finish, ReadOn
  <1>7. CASE ReadExtension
    BY <1>3, <1>4, <1>7 DEF ReadExtension, Finish, ReadOn
  <1>8. CASE ReadControl
    BY <1>3, <1>4, <1>8 DEF ReadControl, Finish, ReadOn
  <1>9. CASE ReadTexts
    BY <1>1, <1>2, <1>4, <1>9, CheckBufferCoherent
    DEF ReadTexts, Finish, ReadOn
  <1>10. CASE ReadLength
    <2>1. PICK n \in Ahead(stream, 0) :
             LET s == CheckBuffer(Skipped(stream, 1), n) IN
             \/ n = 0 /\ ReadOn("block", Skipped(stream, 1))
             \/ n > 0 /\ s = Failed /\ UNCHANGED stream
             \/ n > 0 /\ s # Failed /\ ReadOn("length", Skipped(s, n))
      BY <1>10 DEF ReadLength
    <2>2. n \in Nat
      BY <1>1, <2>1, AheadIsByte DEF Byte
    <2>3. Skipped(stream, 1) \in Stream /\ Coherent(Skipped(stream, 1))
      BY <1>1, SkippedCoherent
    <2> QED
      BY <1>1, <1>2, <1>4, <2>1, <2>2, <2>3, CheckBufferCoherent,
         SkippedCoherent
      DEF ReadOn
  <1>11. CASE ReadImage
    <2> DEFINE s == CheckBuffer(stream, 9)
               T(flags) == IF TableSize(flags) > 0
                           THEN CheckBuffer(s, TableSize(flags) + 9) ELSE s
    <2>1. CASE UNCHANGED stream
      BY <2>1, <1>4
    <2>2. CASE ~UNCHANGED stream
      <3>1. s # Failed
        BY <2>2, <1>11 DEF ReadImage, Finish
      <3>2. PICK flags \in Ahead(s, 8) :
               T(flags) # Failed /\ stream' = Skipped(T(flags), TableSize(flags) + 9)
        BY <2>2, <3>1, <1>11 DEF ReadImage, ReadOn
      <3>3. s \in Stream /\ Coherent(s)
        BY <1>1, <3>1, CheckBufferCoherent
      <3>4. TableSize(flags) \in Nat
        <4>1. flags \in Byte
          BY <3>2, <3>3, AheadIsByte
        <4> QED
          BY <4>1 DEF Byte, TableSize, TableSizes
      <3>5. T(flags) \in Stream /\ Coherent(T(flags))
        BY <1>1, <3>2, <3>3, <3>4, CheckBufferCoherent
      <3> QED
        BY <1>1, <1>2, <3>2, <3>4, <3>5, SkippedCoherent
    <2> QED
      BY <2>1, <2>2
  <1>12. CASE ReadCodeSize
    BY <1>3, <1>4, <1>12 DEF ReadCodeSize, Finish, ReadOn
  <1>13. CASE ReadData
    <2> DEFINE s == CheckBuffer(stream, 1)
               t == Skipped(s, 1)
    <2>1. CASE UNCHANGED stream
      BY <2>1, <1>4
    <2>2. CASE ~UNCHANGED stream
      <3>1. s # Failed
        BY <2>2, <1>13 DEF ReadData, Finish
      <3>2. s \in Stream /\ Coherent(s) /\ t \in Stream /\ Coherent(t)
        BY <1>1, <3>1, CheckBufferCoherent, SkippedCoherent
      <3>3. PICK n \in Ahead(s, 0) :
               \/ stream' = t
               \/ stream' = IF n + t.buffpos > t.buffend THEN SoughtPast(t, n)
                                                         ELSE Skipped(t, n)
        BY <2>2, <3>1, <1>13 DEF ReadData, Finish, ReadOn
      <3>4. n \in Nat
        BY <3>2, <3>3, AheadIsByte DEF Byte
      <3> QED
        BY <1>1, <1>2, <3>2, <3>3, <3>4, SkippedCoherent, SoughtPastCoherent
    <2> QED
      BY <2>1, <2>2
  <1> QED
    BY <1>5, <1>6, <1>7, <1>8, <1>9, <1>10, <1>11, <1>12, <1>13 DEF HeaderStep

\* Whatever the file and the size of the buffer, the buffer holds the piece
\* of the file that ends at the file's offset.
THEOREM HeaderStreamCoherent == HeaderSpec => []StreamCoherent
  <1>1. HeaderInit => StreamInv
    BY StreamInvInit
  <1>2. StreamInv /\ [HeaderNext]_<<file, reader>> => StreamInv'
    <2> SUFFICES ASSUME StreamInv, [HeaderNext]_<<file, reader>>
                 PROVE  StreamInv'
      OBVIOUS
    <2>1. CASE HeaderNext
      BY <2>1, StreamInvStep DEF HeaderNext
    <2>2. CASE UNCHANGED <<file, reader>>
      BY <2>2 DEF reader, StreamInv, StreamCoherent, Coherent
    <2> QED
      BY <2>1, <2>2
  <1>3. StreamInv => StreamCoherent
    BY DEF StreamInv
  <1> QED
    BY <1>1, <1>2, <1>3, PTL DEF HeaderSpec

-----------------------------------------------------------------------------
(***************************************************************************)
(* The types of what is found.                                             *)
(***************************************************************************)
HeaderInv == HeaderOK /\ StreamInv

LEMMA HeaderInvInit == HeaderInit => HeaderInv
  <1> SUFFICES ASSUME HeaderInit PROVE HeaderOK
    BY StreamInvInit DEF HeaderInv
  <1>1. misread \in BOOLEAN
    BY Zenon DEF HeaderInit, HeaderStart
  <1> QED
    BY <1>1, StreamInvInit
    DEF HeaderInit, HeaderStart, HeaderOK, StreamInv, ReaderLabels, HeaderTypes

\* Sizes come from the file or from two bytes of it.
LEMMA SizesAreNat ==
  ASSUME HeaderInv, HeaderStep, UNCHANGED file
  PROVE  image_info' \in [width : Nat, height : Nat]
  <1>1. image_info \in [width : Nat, height : Nat]
    BY DEF HeaderInv, HeaderOK
  <1>2. CASE OpenFile
    <2>1. file.w \in Nat /\ file.h \in Nat
      BY HeaderAssumption DEF HeaderAssumption, HeaderInv, HeaderOK
    <2> QED
      BY <1>1, <1>2, <2>1 DEF OpenFile
  <1>3. CASE ReadImage
    <2> DEFINE s == CheckBuffer(stream, 9)
    <2>1. CASE s = Failed
      BY <1>1, <1>3, <2>1 DEF ReadImage, Finish
    <2>2. CASE s # Failed
      <3>1. s \in Stream
        BY <2>2, CheckBufferCoherent DEF HeaderInv, StreamInv, StreamCoherent
      <3>2. PICK w0 \in Ahead(s, 4), w1 \in Ahead(s, 5),
                 h0 \in Ahead(s, 6), h1 \in Ahead(s, 7) :
               \/ image_info' = [width |-> w0 + 256 * w1,
                                 height |-> h0 + 256 * h1]
               \/ UNCHANGED image_info
        BY <1>3, <2>2 DEF ReadImage
      <3>3. w0 \in Byte /\ w1 \in Byte /\ h0 \in Byte /\ h1 \in Byte
        BY <3>1, <3>2, AheadIsByte
      <3>4. w0 + 256 * w1 \in Nat /\ h0 + 256 * h1 \in Nat
        BY <3>3 DEF Byte
      <3> QED
        BY <1>1, <3>2, <3>4
    <2> QED
      BY <2>1, <2>2
  <1>4. CASE UNCHANGED image_info
    BY <1>1, <1>4
  <1> QED
    BY <1>2, <1>3, <1>4
    DEF HeaderStep, NextBlock, ReadExtension, ReadControl, ReadTexts,
        ReadLength, ReadCodeSize, ReadData, Finish

LEMMA HeaderInvStep ==
  ASSUME HeaderInv, HeaderStep, UNCHANGED file
  PROVE  HeaderInv'
  <1>1. StreamInv'
    BY StreamInvStep DEF HeaderInv
  <1>2. HeaderOK
    BY DEF HeaderInv
  <1>3. at' \in ReaderLabels
    BY <1>2
    DEF HeaderOK, HeaderStep, OpenFile, NextBlock, ReadExtension, ReadControl,
        ReadTexts, ReadLength, ReadImage, ReadCodeSize, ReadData, Finish,
        ReadOn, ReaderLabels
  <1>4. imagecount' \in 0 .. 1
    BY <1>2
    DEF HeaderOK, HeaderStep, OpenFile, NextBlock, ReadExtension, ReadControl,
        ReadTexts, ReadLength, ReadImage, ReadCodeSize, ReadData, Finish,
        ReadOn
  <1>5. image_type' \in HeaderTypes
    BY <1>2
    DEF HeaderOK, HeaderStep, OpenFile, NextBlock, ReadExtension, ReadControl,
        ReadTexts, ReadLength, ReadImage, ReadCodeSize, ReadData, Finish,
        ReadOn, HeaderTypes
  <1>6. misread' \in BOOLEAN
    <2>1. CASE ReadLength
      BY <2>1, Zenon DEF ReadLength
    <2>2. CASE UNCHANGED misread
      BY <1>2, <2>2, Zenon DEF HeaderOK
    <2> QED
      BY <2>1, <2>2
      DEF HeaderStep, OpenFile, NextBlock, ReadExtension, ReadControl,
          ReadTexts, ReadImage, ReadCodeSize, ReadData, Finish
  <1> QED
    BY <1>1, <1>3, <1>4, <1>5, <1>6, SizesAreNat
    DEF HeaderInv, HeaderOK, StreamInv

-----------------------------------------------------------------------------
(***************************************************************************)
(* How far the parser reads: it never goes back, and stops where the file  *)
(* does.  A buffer that is not empty lies within the file; only a seek     *)
(* leads past its end, and leaves the buffer empty.                        *)
(***************************************************************************)
Where(s) == s.fd - s.buffend + s.buffpos
Over(s) == s.buffpos - s.buffend
Within(s) == s.fd <= Len(file.bytes)

Reach ==
    /\ \/ Within(stream)
       \/ /\ stream.fd <= Len(file.bytes) + 255
          /\ stream.buffpos = 0 /\ stream.buffend = 0
          /\ at \in {"data", "done"}
    /\ Over(stream) <= MaxSkip
    /\ at = "length" => Over(stream) <= 255

\* A call of _CheckBuffer that succeeds does not go back, and leaves a buffer
\* that has a byte to read and lies within the file.
LEMMA CheckBufferReaches ==
  ASSUME NEW s \in Stream, file \in Files, Coherent(s),
         Within(s) \/ s.buffend = 0,
         NEW n \in Nat \ {0}, CheckBuffer(s, n) # Failed
  PROVE  LET r == CheckBuffer(s, n) IN
         r \in Stream /\ Coherent(r) /\ Within(r)
         /\ Where(r) >= Where(s) /\ r.buffpos < r.buffend
  <1> DEFINE room == IF s.buffpos = 0 THEN FILE_READ_SIZE ELSE s.buffpos
             kept == IF s.buffpos = 0 THEN 0 ELSE s.buffend - s.buffpos
             got == Gets(s, room)
             r == CheckBuffer(s, n)
  <1>1. /\ FILE_READ_SIZE \in Nat /\ Len(file.bytes) \in Nat
        /\ s.buffpos \in Nat /\ s.buffend \in Nat /\ s.fd \in Nat
    BY HeaderAssumption DEF HeaderAssumption, Stream
  <1>2. r \in Stream /\ Coherent(r)
    BY CheckBufferCoherent
  <1>3. CASE n + s.buffpos <= s.buffend
    BY <1>1, <1>2, <1>3 DEF CheckBuffer, Within, Where
  <1>4. CASE ~(n + s.buffpos <= s.buffend)
    <2>1. /\ r = Refilled(s, kept, got)
          /\ got # 0 /\ (s.buffpos > 0 => ~(s.buffend - s.buffpos < 0))
      BY <1>4 DEF CheckBuffer
    <2>2. got \in Nat /\ (got > 0 => s.fd + got <= Len(file.bytes))
      <3>1. room \in Nat
        BY <1>1
      <3> QED
        BY <3>1, GetsBounds
    <2>3. r.buffpos = 0 /\ r.buffend = kept + got /\ r.fd = s.fd + got
      BY <2>1 DEF Refilled
    <2>4. kept \in Nat
      BY <1>1, <2>1
    <2>5. Within(r) /\ r.buffpos < r.buffend
      BY <1>1, <2>1, <2>2, <2>3, <2>4 DEF Within
    <2>6. Where(r) = s.fd - kept
      BY <1>1, <2>2, <2>3, <2>4 DEF Where
    <2>7. s.fd - kept >= Where(s)
      BY <1>1, <1>4, <2>1 DEF Where
    <2> QED
      BY <1>2, <2>5, <2>6, <2>7
  <1> QED
    BY <1>3, <1>4

LEMMA SkippedReaches ==
  ASSUME NEW s \in Stream, file \in Files, Coherent(s), NEW n \in Nat
  PROVE  /\ Skipped(s, n) \in Stream /\ Coherent(Skipped(s, n))
         /\ Where(Skipped(s, n)) = Where(s) + n
         /\ Over(Skipped(s, n)) = Over(s) + n
         /\ Within(s) => Within(Skipped(s, n))
  <1>1. Skipped(s, n) = [buffer |-> s.buffer, buffpos |-> s.buffpos + n,
                         buffend |-> s.buffend, filepos |-> s.filepos,
                         fd |-> s.fd]
    BY DEF Skipped, Stream
  <1>2. s.buffpos \in Nat /\ s.buffend \in Nat /\ s.fd \in Nat
    BY DEF Stream
  <1>3. /\ Where(Skipped(s, n)) = Where(s) + n
        /\ Over(Skipped(s, n)) = Over(s) + n
        /\ Within(s) => Within(Skipped(s, n))
    BY <1>1, <1>2 DEF Where, Over, Within
  <1> QED
    BY <1>3, SkippedCoherent

LEMMA WhereIsInt ==
  ASSUME NEW s \in Stream
  PROVE  Where(s) \in Int /\ Over(s) \in Int
  BY DEF Stream, Where, Over

\* One step, from a state whose buffer is as Reach has it: the parser stops,
\* or goes on no earlier in the file.
Goes == Where(stream') > Where(stream)
        \/ (Where(stream') = Where(stream) /\ Rank(at') < Rank(at))

LEMMA StepReaches ==
  ASSUME StreamInv, Reach, HeaderStep, UNCHANGED file
  PROVE  Reach' /\ Goes
  <1>1. /\ stream \in Stream /\ Coherent(stream) /\ file \in Files
        /\ file' = file /\ Len(file.bytes) \in Nat
        /\ Where(stream) \in Int /\ Over(stream) \in Int
    BY HeaderAssumption, WhereIsInt
    DEF HeaderAssumption, StreamInv, StreamCoherent
  <1>2. Within(stream) \/ stream.buffend = 0
    BY DEF Reach
  <1>3. Over(stream) <= MaxSkip /\ MaxSkip = 777
    BY DEF Reach, MaxSkip
  <1>4. ASSUME UNCHANGED stream, Rank(at') < Rank(at), at' # "length",
               Within(stream) \/ at' \in {"data", "done"}
        PROVE  Reach' /\ Goes
    BY <1>1, <1>4 DEF Reach, Goes, Within, Over
  <1>5. ASSUME NEW type, Finish(type), at \in ReaderLabels \ {"done"}
        PROVE  Reach' /\ Goes
    BY <1>4, <1>5 DEF Finish, Rank, ReaderLabels
  \* A byte or more is passed, in a buffer that lies within the file.
  <1>6. ASSUME NEW s \in Stream, Coherent(s), Within(s), Where(s) >= Where(stream),
               NEW m \in Nat \ {0}, stream' = Skipped(s, m),
               Over(s) + m <= MaxSkip, at' = "length" => Over(s) + m <= 255
        PROVE  Reach' /\ Goes
    <2>1. /\ Where(stream') = Where(s) + m /\ Over(stream') = Over(s) + m
          /\ Within(stream') /\ Where(s) \in Int
      BY <1>1, <1>6, SkippedReaches, WhereIsInt
    <2>2. Goes
      BY <1>1, <1>6, <2>1 DEF Goes
    <2>3. Reach'
      BY <1>1, <1>6, <2>1 DEF Reach, Within, Over, MaxSkip
    <2> QED
      BY <2>2, <2>3
  \* The same behind a call of _CheckBuffer.
  <1>7. ASSUME NEW n \in Nat \ {0}, CheckBuffer(stream, n) # Failed,
               NEW m \in 1 .. MaxSkip, stream' = Skipped(CheckBuffer(stream, n), m),
               at' # "length"
        PROVE  Reach' /\ Goes
    <2> DEFINE s == CheckBuffer(stream, n)
    <2>1. /\ s \in Stream /\ Coherent(s) /\ Within(s)
          /\ Where(s) >= Where(stream) /\ s.buffpos < s.buffend
      BY <1>1, <1>2, <1>7, CheckBufferReaches
    <2> HIDE DEF s
    <2>2. Over(s) + m <= MaxSkip
      BY <1>3, <2>1 DEF Over, Stream
    <2>3. m \in Nat \ {0}
      BY <1>3
    <2> QED
      BY <1>6, <1>7, <2>1, <2>2, <2>3 DEF s
  <1>8. CASE OpenFile
    <2>1. /\ at = "open" /\ UNCHANGED stream /\ at' \in {"block", "done"}
      BY <1>8 DEF OpenFile
    <2> QED
      BY <1>4, <2>1 DEF Rank, Reach
  <1>9. CASE NextBlock
    BY <1>3, <1>5, <1>7, <1>9 DEF NextBlock, ReadOn, ReaderLabels
  <1>10. CASE ReadExtension
    BY <1>3, <1>5, <1>7, <1>10 DEF ReadExtension, ReadOn, ReaderLabels
  <1>11. CASE ReadControl
    BY <1>3, <1>5, <1>7, <1>11 DEF ReadControl, ReadOn, ReaderLabels
  <1>12. CASE ReadTexts
    <2>1. CASE UNCHANGED stream /\ at' = "done"
      BY <1>4, <1>12, <2>1 DEF ReadTexts, Rank
    <2>2. CASE ~(UNCHANGED stream /\ at' = "done")
      <3> DEFINE s == CheckBuffer(stream, 1)
      <3>1. /\ s # Failed /\ stream' = s /\ at = "texts" /\ at' = "length"
        BY <1>12, <2>2 DEF ReadTexts, Finish, ReadOn
      <3>2. /\ s \in Stream /\ Within(s) /\ Where(s) >= Where(stream)
            /\ s.buffpos < s.buffend
        BY <1>1, <1>2, <3>1, CheckBufferReaches
      <3> HIDE DEF s
      <3>3. Over(s) <= 0 /\ Where(s) \in Int
        BY <3>2, WhereIsInt DEF Over, Stream
      <3>4. Goes
        BY <1>1, <3>1, <3>2, <3>3 DEF Goes, Rank
      <3>5. Reach'
        <4>1. Within(stream)' /\ Over(stream') <= 0
          BY <1>1, <3>1, <3>2, <3>3 DEF Within
        <4>2. Over(stream') \in Int
          BY <3>1, <3>2, WhereIsInt
        <4>3. Over(stream)' = Over(stream')
          BY DEF Over
        <4> QED
          BY <4>1, <4>2, <4>3, <1>3 DEF Reach
      <3> QED
        BY <3>4, <3>5
    <2> QED
      BY <2>1, <2>2
  <1>13. CASE ReadLength
    <2> DEFINE t == Skipped(stream, 1)
    <2>1. PICK n \in Ahead(stream, 0) :
             LET s == CheckBuffer(t, n) IN
             \/ n = 0 /\ ReadOn("block", t)
             \/ n > 0 /\ s = Failed /\ at' = "done" /\ UNCHANGED stream
             \/ n > 0 /\ s # Failed /\ ReadOn("length", Skipped(s, n))
      BY <1>13 DEF ReadLength
    <2>2. n \in 0 .. 255
      BY <1>1, <2>1, AheadIsByte DEF Byte
    <2>3. at = "length" /\ Within(stream) /\ Over(stream) <= 255
      BY <1>13 DEF ReadLength, Reach
    <2>4. /\ t \in Stream /\ Coherent(t) /\ Where(t) = Where(stream) + 1
          /\ Within(t)
      BY <1>1, <2>3, SkippedReaches
    <2>5. CASE n = 0
      <3>1. stream' = t /\ at' = "block"
        BY <2>1, <2>5 DEF ReadOn
      <3>2. Over(stream) + 1 <= MaxSkip /\ Where(stream) >= Where(stream)
        BY <1>1, <1>3, <2>3
      <3> QED
        BY <1>1, <1>6, <2>3, <3>1, <3>2
    <2>6. CASE n > 0 /\ at' = "done" /\ UNCHANGED stream
      BY <1>4, <2>3, <2>6 DEF Rank
    <2>7. CASE n > 0 /\ ~(at' = "done" /\ UNCHANGED stream)
      <3> DEFINE s == CheckBuffer(t, n)
      <3>1. s # Failed /\ stream' = Skipped(s, n) /\ at' = "length"
        BY <2>1, <2>7 DEF ReadOn
      <3>2. n \in Nat \ {0}
        BY <2>2, <2>7
      <3>3. /\ s \in Stream /\ Coherent(s) /\ Within(s)
            /\ Where(s) >= Where(t) /\ s.buffpos < s.buffend
        BY <1>1, <2>4, <3>1, <3>2, CheckBufferReaches
      <3> HIDE DEF s, t
      <3>4. Over(s) + n <= 255 /\ Over(s) + n <= MaxSkip
        BY <1>3, <2>2, <3>3 DEF Over, Stream
      <3>5. Where(s) >= Where(stream)
        BY <1>1, <2>4, <3>3, WhereIsInt
      <3> QED
        BY <1>6, <3>1, <3>2, <3>3, <3>4, <3>5
    <2> QED
      BY <2>1, <2>2, <2>5, <2>6, <2>7
  <1>14. CASE ReadImage
    <2> DEFINE s == CheckBuffer(stream, 9)
               T(flags) == IF TableSize(flags) > 0
                           THEN CheckBuffer(s, TableSize(flags) + 9) ELSE s
    <2>1. CASE UNCHANGED stream /\ at' = "done"
      BY <1>4, <1>14, <2>1 DEF ReadImage, Rank
    <2>2. CASE ~(UNCHANGED stream /\ at' = "done")
      <3>1. s # Failed
        BY <2>2, <1>14 DEF ReadImage, Finish
      <3>2. PICK flags \in Ahead(s, 8) :
               /\ T(flags) # Failed /\ at' = "code_size"
               /\ stream' = Skipped(T(flags), TableSize(flags) + 9)
        BY <2>2, <3>1, <1>14 DEF ReadImage, ReadOn
      <3>3. /\ s \in Stream /\ Coherent(s) /\ Within(s)
            /\ Where(s) >= Where(stream) /\ s.buffpos < s.buffend
        BY <1>1, <1>2, <3>1, CheckBufferReaches
      <3>4. TableSize(flags) \in 0 .. 768
        <4>1. flags \in Byte
          BY <3>2, <3>3, AheadIsByte
        <4> QED
          BY <4>1 DEF Byte, TableSize, TableSizes
      <3>5. /\ T(flags) \in Stream /\ Coherent(T(flags)) /\ Within(T(flags))
            /\ Where(T(flags)) >= Where(s)
            /\ T(flags).buffpos < T(flags).buffend
        <4>1. CASE TableSize(flags) > 0
          <5>1. TableSize(flags) + 9 \in Nat \ {0}
            BY <3>4
          <5> HIDE DEF s
          <5> QED
            BY <1>1, <3>2, <3>3, <4>1, <5>1, CheckBufferReaches
        <4>2. CASE ~(TableSize(flags) > 0)
          <5> HIDE DEF s
          <5> QED
            BY <3>3, <4>2, WhereIsInt
        <4> QED
          BY <4>1, <4>2
      <3> DEFINE r == T(flags)
                 m == TableSize(flags) + 9
      <3>6. m \in Nat \ {0} /\ m <= 777
        BY <3>4
      <3>7. Where(r) >= Where(stream)
        <4> HIDE DEF s, T
        <4> QED
          BY <1>1, <3>3, <3>5, WhereIsInt
      <3>8. Over(r) + m <= MaxSkip
        <4>1. r.buffpos < r.buffend /\ r \in Stream
          BY <3>5
        <4> HIDE DEF r, m
        <4> QED
          BY <1>3, <3>6, <4>1 DEF Over, Stream
      <3>9. stream' = Skipped(r, m) /\ at' # "length"
        BY <3>2
      <3>10. r \in Stream /\ Coherent(r) /\ Within(r)
        BY <3>5
      <3> HIDE DEF r, m
      <3> QED
        BY <1>6, <3>6, <3>7, <3>8, <3>9, <3>10
    <2> QED
      BY <2>1, <2>2
  <1>15. CASE ReadCodeSize
    BY <1>3, <1>5, <1>7, <1>15 DEF ReadCodeSize, ReadOn, ReaderLabels
  <1>16. CASE ReadData
    <2> DEFINE s == CheckBuffer(stream, 1)
               t == Skipped(s, 1)
    <2>1. CASE UNCHANGED stream /\ at' = "done"
      BY <1>4, <1>16, <2>1 DEF ReadData, Rank
    <2>2. CASE ~(UNCHANGED stream /\ at' = "done")
      <3>1. s # Failed
        BY <2>2, <1>16 DEF ReadData, Finish
      <3>2. PICK n \in Ahead(s, 0) :
               \/ n = 0 /\ stream' = t /\ at' = "block"
               \/ /\ n > 0 /\ at' = "data"
                  /\ stream' = IF n + t.buffpos > t.buffend
                               THEN SoughtPast(t, n) ELSE Skipped(t, n)
        BY <2>2, <3>1, <1>16 DEF ReadData, Finish, ReadOn
      <3>3. /\ s \in Stream /\ Coherent(s) /\ Within(s)
            /\ Where(s) >= Where(stream) /\ s.buffpos < s.buffend
        BY <1>1, <1>2, <3>1, CheckBufferReaches
      <3>4. n \in 0 .. 255
        BY <3>2, <3>3, AheadIsByte DEF Byte
      <3> HIDE DEF s
      <3>5. /\ t \in Stream /\ Coherent(t) /\ Where(t) = Where(s) + 1
            /\ Over(t) = Over(s) + 1 /\ Within(t)
        BY <1>1, <3>3, SkippedReaches
      <3>6. Over(s) + 1 <= 0 /\ Where(s) \in Int /\ Over(s) \in Int
        BY <3>3, WhereIsInt DEF Over, Stream
      <3> HIDE DEF t
      <3>7. CASE n = 0
        <4>1. stream' = Skipped(s, 1) /\ at' = "block"
          BY <3>2, <3>7 DEF t
        <4>2. Over(s) + 1 <= MaxSkip
          BY <1>3, <3>6
        <4> QED
          BY <1>6, <3>3, <4>1, <4>2
      <3>8. CASE n > 0 /\ n + t.buffpos > t.buffend
        <4>1. stream' = SoughtPast(t, n) /\ at' = "data"
          BY <3>2, <3>8
        <4>2. /\ stream'.buffpos = 0 /\ stream'.buffend = 0
              /\ stream'.fd = t.fd + (n + t.buffpos - t.buffend)
          BY <4>1 DEF SoughtPast
        <4>3. /\ t.fd \in Nat /\ t.buffpos \in Nat /\ t.buffend \in Nat
              /\ t.buffpos - t.buffend <= 0 /\ t.fd <= Len(file.bytes)
          BY <3>5, <3>6 DEF Stream, Over, Within
        <4>4. Where(stream') = Where(t) + n
          BY <3>4, <4>2, <4>3 DEF Where
        <4>5. Goes
          <5>1. /\ Where(stream') = Where(s) + 1 + n /\ n \in Nat
                /\ Where(s) \in Int /\ Where(stream) \in Int
                /\ Where(s) >= Where(stream)
            BY <1>1, <3>3, <3>4, <3>5, <3>6, <4>4
          <5>2. Where(stream') > Where(stream)
            BY ONLY <5>1, SMT
          <5> QED
            BY <5>2 DEF Goes
        <4>6. stream'.fd <= Len(file.bytes) + 255
          <5>1. n \in 0 .. 255 /\ Len(file.bytes) \in Nat
            BY <1>1, <3>4
          <5>2. \A m \in 0 .. 255, f \in Nat, p \in Nat, e \in Nat, len \in Nat :
                   p - e <= 0 /\ f <= len => f + (m + p - e) <= len + 255
            BY ONLY SMT
          <5>3. t.fd + (n + t.buffpos - t.buffend) <= Len(file.bytes) + 255
            BY ONLY <5>1, <5>2, <4>3
          <5> QED
            BY ONLY <5>3, <4>2, Zenon
        <4>7. Over(stream') = 0
          BY <4>2 DEF Over
        <4>8. Reach'
          BY <1>1, <1>3, <4>1, <4>2, <4>6, <4>7 DEF Reach, Within, Over, MaxSkip
        <4> QED
          BY <4>5, <4>8
      <3>9. CASE n > 0 /\ ~(n + t.buffpos > t.buffend)
        <4>1. stream' = Skipped(t, n) /\ at' = "data" /\ n \in Nat \ {0}
          BY <3>2, <3>4, <3>9
        <4>2. Over(t) + n <= MaxSkip
          BY <1>3, <3>4, <3>5, <3>9 DEF Over, Stream
        <4>3. Where(t) >= Where(stream)
          BY <1>1, <3>3, <3>5, <3>6
        <4> QED
          BY <1>6, <3>5, <4>1, <4>2, <4>3
      <3> QED
        BY <3>4, <3>7, <3>8, <3>9
    <2> QED
      BY <2>1, <2>2
  <1> QED
    BY <1>8, <1>9, <1>10, <1>11, <1>12, <1>13, <1>14, <1>15, <1>16
    DEF HeaderStep

LEMMA ReachInit == ASSUME file \in Files, stream = NoStream PROVE Reach
  BY HeaderAssumption
  DEF HeaderAssumption, NoStream, Reach, Within, Over, MaxSkip

\* Where the buffer's next byte is, the file has at most so much less.
LEMMA ReachBounds == ASSUME StreamInv, Reach PROVE HeaderBounded
  BY HeaderAssumption
  DEF HeaderAssumption, StreamInv, Stream, Reach, Within, Over, MaxSkip,
      HeaderBounded, Position

-----------------------------------------------------------------------------
HeaderReach == StreamInv /\ Reach

LEMMA HeaderReaches ==
  /\ HeaderSpec => []HeaderReach
  /\ HeaderSpec => [][HeaderNext => Goes]_<<file, reader>>
  <1>1. HeaderInit => HeaderReach
    BY StreamInvInit, ReachInit
    DEF HeaderReach, HeaderInit, HeaderStart
  <1>2. HeaderReach /\ [HeaderNext]_<<file, reader>>
          => HeaderReach' /\ [HeaderNext => Goes]_<<file, reader>>
    <2> SUFFICES ASSUME HeaderReach, [HeaderNext]_<<file, reader>>
                 PROVE  HeaderReach' /\ [HeaderNext => Goes]_<<file, reader>>
      OBVIOUS
    <2>1. CASE HeaderNext
      BY <2>1, StreamInvStep, StepReaches DEF HeaderNext, HeaderReach
    <2>2. CASE UNCHANGED <<file, reader>>
      BY <2>2
      DEF reader, HeaderReach, StreamInv, StreamCoherent, Coherent, Reach,
          Within, Over
    <2> QED
      BY <2>1, <2>2
  <1> QED
    BY <1>1, <1>2, PTL DEF HeaderSpec

\* However a GIF is cut off or damaged, the parser never stands farther than
\* one block behind the end of the file.
THEOREM HeaderReadsBounded == HeaderSpec => []HeaderBounded
  <1>1. HeaderReach => HeaderBounded
    BY ReachBounds DEF HeaderReach
  <1> QED
    BY <1>1, HeaderReaches, PTL

\* No step of the parser goes back in the file, for every file and size of
\* the buffer; those that pass nothing lead to the next label.
THEOREM HeaderNeverBack == HeaderSpec => HeaderAdvances
  <1>1. HeaderReach /\ [HeaderNext]_<<file, reader>>
          => [\/ at' = "open"
              \/ Position' > Position
              \/ Position' = Position /\ Rank(at') < Rank(at)]_reader
    BY StepReaches
    DEF HeaderReach, HeaderNext, Goes, Where, Position, reader
  <1> QED
    BY <1>1, HeaderReaches, PTL DEF HeaderSpec, HeaderAdvances

-----------------------------------------------------------------------------
(***************************************************************************)
(* The parser follows GifBlocks: but for its last refill and behind a seek *)
(* the buffer is full, so that no refill drops what it holds, and a block  *)
(* that fits is refused only where the file ends.                          *)
(***************************************************************************)
Filled(s) ==
    s.fd < Len(file.bytes) =>
       \/ s.buffend = FILE_READ_SIZE /\ s.buffpos <= s.buffend
       \/ s.buffend = 0 /\ s.buffpos = 0

\* The code has 4096 bytes; the largest block it asks for has 777.
RoomForBlocks == FILE_READ_SIZE > 2 * MaxSkip

LEMMA CheckBufferFollows ==
  ASSUME NEW s \in Stream, file \in Files, Coherent(s),
         Within(s) \/ s.buffend = 0, Filled(s), RoomForBlocks,
         NEW n \in 1 .. MaxSkip
  PROVE  LET r == CheckBuffer(s, n) IN
         /\ r = Failed => Where(s) + n > Len(file.bytes)
         /\ r # Failed =>
               /\ Where(r) = Where(s) /\ Where(s) + 1 <= Len(file.bytes)
               /\ r.fd < Len(file.bytes) => r.buffend = FILE_READ_SIZE
               /\ \/ r.buffpos + n <= r.buffend
                  \/ /\ r.fd = Len(file.bytes)
                     /\ Where(s) + n > Len(file.bytes)
  <1> DEFINE room == IF s.buffpos = 0 THEN FILE_READ_SIZE ELSE s.buffpos
             kept == IF s.buffpos = 0 THEN 0 ELSE s.buffend - s.buffpos
             got == Gets(s, room)
             len == Len(file.bytes)
             r == CheckBuffer(s, n)
  <1>1. /\ FILE_READ_SIZE \in Nat /\ len \in Nat
        /\ s.buffpos \in Nat /\ s.buffend \in Nat /\ s.fd \in Nat
        /\ s.filepos = s.fd /\ s.buffend <= s.fd
    BY HeaderAssumption DEF HeaderAssumption, Stream, Coherent
  <1>2. n \in Nat \ {0} /\ n <= 777 /\ FILE_READ_SIZE > 1554
    BY <1>1 DEF MaxSkip, RoomForBlocks
  <1>3. /\ s.fd <= len \/ s.buffend = 0
        /\ s.fd < len => \/ s.buffend = FILE_READ_SIZE /\ s.buffpos <= s.buffend
                         \/ s.buffend = 0 /\ s.buffpos = 0
    BY DEF Within, Filled
  <1>4. CASE n + s.buffpos <= s.buffend
    <2>1. r = s
      BY <1>4 DEF CheckBuffer
    <2>2. s # Failed
      <3>1. s.buffpos # Failed.buffpos
        BY <1>1 DEF Failed
      <3> QED
        BY <3>1
    <2>3. /\ s.fd - s.buffend + s.buffpos + 1 <= len
          /\ s.fd < len => s.buffend = FILE_READ_SIZE
      BY <1>1, <1>2, <1>3, <1>4
    <2> HIDE DEF r, len
    <2>4. Where(r) = Where(s) /\ Where(s) + 1 <= len
      BY <2>1, <2>3 DEF Where
    <2>5. r.buffpos + n <= r.buffend
      BY <1>1, <1>2, <1>4, <2>1
    <2> QED
      BY <2>1, <2>2, <2>3, <2>4, <2>5 DEF r, len
  <1>5. CASE ~(n + s.buffpos <= s.buffend)
    <2>1. got \in Nat /\ got <= room /\ (got > 0 => s.fd + got <= len)
      <3>1. room \in Nat
        BY <1>1
      <3> QED
        BY <3>1, GetsBounds
    <2>2. got = 0 => s.fd >= len
      BY <1>1, <1>2 DEF Gets
    <2>3. got < room => got = 0 \/ s.fd + got = len
      BY <1>1, <1>2 DEF Gets
    <2>4. CASE r = Failed
      <3>1. \/ s.fd = len
            \/ s.buffpos > 0 /\ 2 * n >= FILE_READ_SIZE
            \/ s.buffpos > 0 /\ s.buffend - s.buffpos < 0
            \/ got = 0
        <4> DEFINE refuses == \/ s.filepos = Len(file.bytes)
                              \/ s.buffpos > 0 /\ 2 * n >= FILE_READ_SIZE
                              \/ s.buffpos > 0 /\ s.buffend - s.buffpos < 0
                              \/ got = 0
        <4>1. refuses \/ r = Refilled(s, kept, got)
          <5>1. r = IF refuses THEN Failed ELSE Refilled(s, kept, got)
            BY <1>5, Zenon DEF CheckBuffer
          <5> QED
            BY <5>1
        <4>2. Refilled(s, kept, got) # Failed
          <5>1. Refilled(s, kept, got).buffpos # Failed.buffpos
            BY DEF Refilled, Failed
          <5> QED
            BY <5>1
        <4> QED
          BY <1>1, <2>4, <4>1, <4>2
      <3>2. s.fd >= len
        BY <1>1, <1>2, <1>3, <2>2, <3>1
      <3>3. s.fd - s.buffend + s.buffpos + n > len
        BY <1>1, <1>2, <1>3, <1>5, <3>2
      <3> HIDE DEF r, len
      <3>4. Where(s) + n > len
        BY <3>3 DEF Where
      <3> QED
        BY <2>4, <3>4 DEF r, len
    <2>5. CASE r # Failed
      <3>1. /\ r = Refilled(s, kept, got) /\ got # 0
            /\ s.buffpos > 0 => ~(s.buffend - s.buffpos < 0)
        BY <1>5, <2>5 DEF CheckBuffer
      <3>2. s.fd < len
        BY <1>1, <2>1, <3>1
      <3>3. r.buffpos = 0 /\ r.buffend = kept + got /\ r.fd = s.fd + got
        BY <3>1 DEF Refilled
      <3>4. /\ kept = s.buffend - s.buffpos /\ kept + room = FILE_READ_SIZE
            /\ kept \in Nat /\ room \in Nat
        BY <1>1, <1>2, <1>3, <1>5, <3>2
      <3> HIDE DEF got, kept, room, len, r
      <3>5. r.fd - r.buffend + r.buffpos = s.fd - s.buffend + s.buffpos
        BY <1>1, <2>1, <3>3, <3>4
      <3>6. r.fd < len => r.buffend = FILE_READ_SIZE
        BY <1>1, <1>2, <2>1, <2>3, <3>1, <3>3, <3>4
      <3>7. s.fd - s.buffend + s.buffpos + 1 <= len
        BY <1>1, <2>1, <3>1, <3>2, <3>4
      <3>8. r.buffpos + n <= r.buffend
            \/ (r.fd = len /\ s.fd - s.buffend + s.buffpos + n > len)
        <4>1. r.fd <= len /\ r.fd \in Nat /\ r.buffpos = 0 /\ r.buffend \in Nat
          BY <1>1, <2>1, <3>1, <3>3, <3>4
        <4>2. CASE r.fd < len
          BY <1>2, <3>6, <4>1, <4>2
        <4>3. CASE r.fd = len
          BY <1>2, <3>5, <4>1, <4>3
        <4> QED
          BY <1>1, <4>1, <4>2, <4>3
      <3>9. /\ Where(r) = Where(s)
            /\ Where(s) = s.fd - s.buffend + s.buffpos
        BY <3>5 DEF Where
      <3> QED
        BY <2>5, <3>6, <3>7, <3>8, <3>9 DEF r, len
    <2> QED
      BY <2>4, <2>5
  <1> QED
    BY <1>4, <1>5

\* What lies in the buffer is what the file has there.
LEMMA AheadIsInFile ==
  ASSUME NEW s \in Stream, Coherent(s), NEW k \in Nat, NEW b \in Ahead(s, k),
         s.buffpos + k < s.buffend
  PROVE  b = file.bytes[Where(s) + k + 1]
  <1>1. /\ FILE_READ_SIZE \in Nat /\ s.buffpos \in Nat /\ s.buffend \in Nat
        /\ s.fd \in Nat /\ s.buffend <= FILE_READ_SIZE
    BY HeaderAssumption DEF HeaderAssumption, Stream, Coherent
  <1>2. s.buffpos + k \in 0 .. s.buffend - 1 /\ s.buffpos + k < FILE_READ_SIZE
    BY <1>1
  <1>3. b = s.buffer[s.buffpos + k]
    BY <1>2 DEF Ahead
  <1>4. b = file.bytes[s.fd - s.buffend + (s.buffpos + k) + 1]
    BY <1>2, <1>3 DEF Coherent
  <1>5. s.fd - s.buffend + (s.buffpos + k) + 1 = Where(s) + k + 1
    BY <1>1 DEF Where
  <1> QED
    BY <1>4, <1>5

\* The byte of the file behind p others, any byte if there is none.
BytesAt(p) == IF p + 1 <= Len(file.bytes) THEN {file.bytes[p + 1]} ELSE Byte

\* Behind a call of _CheckBuffer that succeeds, what is read is the file's.
LEMMA CheckedFollows ==
  ASSUME NEW s \in Stream, file \in Files, Coherent(s),
         Within(s) \/ s.buffend = 0, Filled(s), RoomForBlocks,
         NEW n \in 1 .. MaxSkip, CheckBuffer(s, n) # Failed
  PROVE  LET r == CheckBuffer(s, n) IN
         /\ r \in Stream /\ Coherent(r) /\ Within(r) /\ Filled(r)
         /\ Where(r) = Where(s) /\ Where(s) + 1 <= Len(file.bytes)
         /\ \A k \in 0 .. n - 1 : Ahead(r, k) \subseteq BytesAt(Where(s) + k)
         /\ \A m \in 0 .. n : /\ Skipped(r, m) \in Stream
                             /\ Coherent(Skipped(r, m))
                             /\ Within(Skipped(r, m)) /\ Filled(Skipped(r, m))
                             /\ Where(Skipped(r, m)) = Where(s) + m
  <1> DEFINE r == CheckBuffer(s, n)
  <1>1. /\ FILE_READ_SIZE \in Nat /\ Len(file.bytes) \in Nat
        /\ n \in Nat \ {0} /\ Where(s) \in Int
    BY HeaderAssumption, WhereIsInt DEF HeaderAssumption, MaxSkip
  <1>2. /\ r \in Stream /\ Coherent(r) /\ Within(r) /\ r.buffpos < r.buffend
    BY <1>1, CheckBufferReaches
  <1>3. /\ Where(r) = Where(s) /\ Where(s) + 1 <= Len(file.bytes)
        /\ r.fd < Len(file.bytes) => r.buffend = FILE_READ_SIZE
        /\ \/ r.buffpos + n <= r.buffend
           \/ r.fd = Len(file.bytes) /\ Where(s) + n > Len(file.bytes)
    BY CheckBufferFollows
  <1> HIDE DEF r
  <1>4. /\ r.buffpos \in Nat /\ r.buffend \in Nat /\ r.fd \in Nat
        /\ r.fd <= Len(file.bytes) /\ Where(s) = r.fd - r.buffend + r.buffpos
    BY <1>2, <1>3 DEF Stream, Within, Where
  <1>5. Filled(r)
    BY <1>1, <1>2, <1>3, <1>4 DEF Filled
  <1>6. ASSUME NEW k \in 0 .. n - 1, NEW b \in Ahead(r, k)
        PROVE  b \in BytesAt(Where(s) + k)
    <2>1. CASE r.buffpos + k < r.buffend
      <3>1. b = file.bytes[Where(s) + k + 1]
        BY <1>2, <1>3, <1>6, <2>1, AheadIsInFile
      <3>2. Where(s) + k + 1 <= Len(file.bytes)
        BY <1>1, <1>4, <2>1
      <3> QED
        BY <3>1, <3>2 DEF BytesAt
    <2>2. CASE ~(r.buffpos + k < r.buffend)
      <3>1. ~(Where(s) + k + 1 <= Len(file.bytes))
        <4>1. r.fd = Len(file.bytes)
          BY <1>1, <1>3, <1>4, <2>2
        <4> QED
          BY <1>1, <1>4, <2>2, <4>1
      <3>2. b \in Byte
        BY <1>2, <1>6, AheadIsByte
      <3> QED
        BY <3>1, <3>2 DEF BytesAt
    <2> QED
      BY <2>1, <2>2
  <1>7. ASSUME NEW m \in 0 .. n
        PROVE  /\ Skipped(r, m) \in Stream /\ Coherent(Skipped(r, m))
               /\ Within(Skipped(r, m)) /\ Filled(Skipped(r, m))
               /\ Where(Skipped(r, m)) = Where(s) + m
    <2>1. /\ Skipped(r, m) \in Stream /\ Coherent(Skipped(r, m))
          /\ Within(Skipped(r, m)) /\ Where(Skipped(r, m)) = Where(s) + m
      <3>1. m \in Nat
        BY <1>1
      <3> QED
        BY <3>1, <1>2, <1>3, SkippedReaches
    <2>2. /\ Skipped(r, m).buffpos = r.buffpos + m
          /\ Skipped(r, m).buffend = r.buffend /\ Skipped(r, m).fd = r.fd
      BY <1>2 DEF Skipped, Stream
    <2>3. r.fd < Len(file.bytes) =>
             r.buffend = FILE_READ_SIZE /\ r.buffpos + m <= r.buffend
      BY <1>1, <1>3, <1>4
    <2> QED
      BY <2>1, <2>2, <2>3 DEF Filled
  <1> QED
    BY <1>2, <1>3, <1>5, <1>6, <1>7 DEF r

LEMMA BlocksBytes ==
  ASSUME Position \in Int, NEW n \in Nat, file \in Files
  PROVE  /\ Blocks!ByteAt(n) = BytesAt(Position + n)
         /\ Blocks!Has(n) <=> Position + n <= Len(file.bytes)
  <1>1. Position + (n + 1) = Position + n + 1
    OBVIOUS
  <1> QED
    BY <1>1 DEF Blocks!ByteAt, Blocks!Has, BytesAt, Byte

\* Until a length is misread; at the start nothing has been.
Follow ==
    /\ at = "open" => /\ stream = NoStream /\ imagecount = 0
                      /\ image_type = "none"
    /\ ~misread => Filled(stream)

Follows == \/ misread'
           \/ at = "open" /\ (at' = "done" \/ Blocks!Init')
           \/ Blocks!Next

\* A refusal to provide n bytes at the position.
LEMMA RefusalFollows ==
  ASSUME StreamInv, Reach, Filled(stream), RoomForBlocks, UNCHANGED file,
         NEW n \in 1 .. MaxSkip, CheckBuffer(stream, n) = Failed,
         Finish("unknown")
  PROVE  Blocks!EndsBefore(n) /\ Filled(stream)' /\ misread' = misread
  <1>1. stream \in Stream /\ file \in Files /\ Coherent(stream)
    BY DEF StreamInv, StreamCoherent
  <1>2. Where(stream) + n > Len(file.bytes)
    BY <1>1, CheckBufferFollows DEF Reach
  <1>3. Len(file.bytes) \in Nat /\ Where(stream) \in Int
    BY <1>1, HeaderAssumption, WhereIsInt DEF HeaderAssumption
  <1>4. ~Blocks!Has(n)
    BY <1>2, <1>3 DEF Blocks!Has, Position, Where
  <1>5. Blocks!Stop("unknown")
    BY DEF Finish, Blocks!Stop, Position
  <1> QED
    BY <1>4, <1>5 DEF Blocks!EndsBefore, Finish, Filled

\* Bytes read behind a call of _CheckBuffer, and a step over some of them.
LEMMA CheckedStep ==
  ASSUME StreamInv, Reach, Filled(stream), RoomForBlocks, UNCHANGED file,
         NEW n \in 1 .. MaxSkip, CheckBuffer(stream, n) # Failed
  PROVE  /\ Blocks!Has(1)
         /\ \A k \in 0 .. n - 1 :
               Ahead(CheckBuffer(stream, n), k) \subseteq Blocks!ByteAt(k)
         /\ \A m \in 0 .. n : stream' = Skipped(CheckBuffer(stream, n), m) =>
               Position' = Position + m /\ Filled(stream)'
  <1> DEFINE r == CheckBuffer(stream, n)
  <1>1. /\ stream \in Stream /\ file \in Files /\ Coherent(stream)
        /\ Within(stream) \/ stream.buffend = 0
    BY DEF StreamInv, StreamCoherent, Reach
  <1>2. /\ Where(stream) + 1 <= Len(file.bytes)
        /\ \A k \in 0 .. n - 1 : Ahead(r, k) \subseteq BytesAt(Where(stream) + k)
        /\ \A m \in 0 .. n : /\ Filled(Skipped(r, m))
                            /\ Where(Skipped(r, m)) = Where(stream) + m
    BY <1>1, CheckedFollows
  <1> HIDE DEF r
  <1>3. Position = Where(stream) /\ Position' = Where(stream')
    BY DEF Position, Where
  <1>4. Position \in Int
    BY <1>1, <1>3, WhereIsInt
  <1>5. n \in Nat
    BY DEF MaxSkip
  <1>6. \A k \in 0 .. n - 1 : Ahead(r, k) \subseteq Blocks!ByteAt(k)
    <2> TAKE k \in 0 .. n - 1
    <2>1. k \in Nat
      BY <1>5
    <2>2. Blocks!ByteAt(k) = BytesAt(Where(stream) + k)
      BY <1>1, <1>3, <1>4, <2>1, BlocksBytes
    <2> QED
      BY <1>2, <2>2
  <1>7. Blocks!Has(1)
    BY <1>1, <1>2, <1>3, <1>4, BlocksBytes
  <1>8. ASSUME NEW m \in 0 .. n, stream' = Skipped(r, m)
        PROVE  Position' = Position + m /\ Filled(stream)'
    <2>1. Filled(stream')
      BY <1>2, <1>8
    <2>2. Filled(stream)'
      BY <2>1 DEF Filled
    <2> QED
      BY <1>2, <1>3, <1>8, <2>2
  <1> QED
    BY <1>6, <1>7, <1>8 DEF r

\* The position, and a step that ends the reading.
LEMMA FinishFollows ==
  ASSUME StreamInv, UNCHANGED file
  PROVE  /\ stream \in Stream /\ file \in Files /\ Coherent(stream)
         /\ stream.buffpos \in Nat /\ stream.buffend \in Nat
         /\ stream.fd \in Nat /\ Len(file.bytes) \in Nat
         /\ Position = stream.fd - stream.buffend + stream.buffpos
         /\ Position = Where(stream) /\ Position' = Where(stream')
         /\ 1 \in 1 .. MaxSkip /\ 6 \in 1 .. MaxSkip /\ 9 \in 1 .. MaxSkip
         /\ \A type : Finish(type) => /\ Blocks!Stop(type)
                                     /\ UNCHANGED <<stream, image_info, imagecount>>
         /\ Filled(stream) /\ UNCHANGED stream => Filled(stream)'
  BY HeaderAssumption
  DEF HeaderAssumption, StreamInv, StreamCoherent, Stream, Position, Where,
      MaxSkip, Finish, Blocks!Stop, Filled

LEMMA BlockFollows ==
  ASSUME StreamInv, Reach, Filled(stream), RoomForBlocks, UNCHANGED file,
         NextBlock
  PROVE  Blocks!Block /\ Filled(stream)'
  <1> DEFINE s == CheckBuffer(stream, 1)
  <1>1. /\ at = "block" /\ stream.fd <= Len(file.bytes)
        /\ stream.fd < Len(file.bytes) => stream.buffpos <= stream.buffend
    BY DEF NextBlock, Reach, Within, Filled
  <1>2. CASE stream.buffpos > stream.buffend
    <2>1. Finish("gif")
      BY <1>2, FinishFollows DEF NextBlock
    <2>2. Position > Len(file.bytes)
      BY <1>1, <1>2, FinishFollows
    <2> QED
      BY <1>1, <2>1, <2>2, FinishFollows DEF Blocks!Block
  <1>3. CASE stream.buffpos <= stream.buffend /\ s = Failed
    <2>1. Finish("unknown")
      BY <1>3, FinishFollows DEF NextBlock
    <2>2. Position <= Len(file.bytes)
      BY <1>1, <1>3, FinishFollows
    <2>3. Blocks!EndsBefore(1) /\ Filled(stream)'
      BY <1>3, <2>1, RefusalFollows, FinishFollows
    <2> QED
      BY <1>1, <2>1, <2>2, <2>3, FinishFollows DEF Blocks!Block
  <1>4. CASE stream.buffpos <= stream.buffend /\ s # Failed
    <2>1. /\ Blocks!Has(1) /\ Ahead(s, 0) \subseteq Blocks!ByteAt(0)
          /\ stream' = Skipped(s, 1) => Position' = Position + 1 /\ Filled(stream)'
      BY <1>4, CheckedStep, FinishFollows
    <2>2. PICK b \in Ahead(s, 0) :
             \/ b = Trailer /\ Finish("gif")
             \/ /\ b # Trailer
                /\ ReadOn(CASE b = Extension -> "extension"
                            [] b = ImageStart -> "image"
                            [] OTHER -> "block", Skipped(s, 1))
                /\ UNCHANGED <<imagecount, image_info, misread>>
      BY <1>4, FinishFollows DEF NextBlock
    <2> HIDE DEF s
    <2>3. CASE b = Trailer /\ Finish("gif")
      BY <1>1, <2>1, <2>3, FinishFollows DEF Blocks!Block
    <2>4. CASE ~(b = Trailer /\ Finish("gif"))
      <3>1. /\ Blocks!Pass(1, CASE b = Extension -> "extension"
                                [] b = ImageStart -> "image"
                                [] OTHER -> "block")
            /\ b # Trailer /\ UNCHANGED <<imagecount, image_info>>
            /\ Filled(stream)'
        BY <2>1, <2>2, <2>4 DEF ReadOn, Blocks!Pass
      <3> QED
        BY <1>1, <2>1, <3>1 DEF Blocks!Block
    <2> QED
      BY <2>3, <2>4
  <1> QED
    BY <1>2, <1>3, <1>4, FinishFollows

LEMMA ExtensionFollows ==
  ASSUME StreamInv, Reach, Filled(stream), RoomForBlocks, UNCHANGED file,
         ReadExtension
  PROVE  Blocks!ExtensionKind /\ Filled(stream)'
  <1> DEFINE s == CheckBuffer(stream, 1)
  <1>1. CASE s = Failed
    <2>1. Finish("unknown") /\ at = "extension"
      BY <1>1 DEF ReadExtension
    <2> QED
      BY <1>1, <2>1, RefusalFollows, FinishFollows DEF Blocks!ExtensionKind
  <1>2. CASE s # Failed
    <2>1. /\ Blocks!Has(1) /\ Ahead(s, 0) \subseteq Blocks!ByteAt(0)
          /\ stream' = Skipped(s, 1) => Position' = Position + 1 /\ Filled(stream)'
      BY <1>2, CheckedStep, FinishFollows
    <2>2. PICK b \in Ahead(s, 0) :
             /\ ReadOn(CASE b = Control -> "control"
                         [] b \in Texts -> "texts"
                         [] OTHER -> "block", Skipped(s, 1))
             /\ UNCHANGED <<imagecount, image_info>> /\ at = "extension"
      BY <1>2 DEF ReadExtension
    <2> HIDE DEF s
    <2>3. Blocks!Pass(1, CASE b = Control -> "control"
                           [] b \in Texts -> "texts"
                           [] OTHER -> "block") /\ Filled(stream)'
      BY <2>1, <2>2 DEF ReadOn, Blocks!Pass
    <2> QED
      BY <2>1, <2>2, <2>3 DEF Blocks!ExtensionKind
  <1> QED
    BY <1>1, <1>2

LEMMA ControlFollows ==
  ASSUME StreamInv, Reach, Filled(stream), RoomForBlocks, UNCHANGED file,
         ReadControl
  PROVE  Blocks!ControlData /\ Filled(stream)'
  <1> DEFINE s == CheckBuffer(stream, 6)
  <1>1. CASE s = Failed
    <2>1. Finish("unknown") /\ at = "control"
      BY <1>1 DEF ReadControl
    <2> QED
      BY <1>1, <2>1, RefusalFollows, FinishFollows DEF Blocks!ControlData
  <1>2. CASE s # Failed
    <2>1. /\ Blocks!Has(1) /\ Ahead(s, 0) \subseteq Blocks!ByteAt(0)
          /\ stream' = Skipped(s, 6) => Position' = Position + 6 /\ Filled(stream)'
      BY <1>2, CheckedStep, FinishFollows
    <2>2. PICK b \in Ahead(s, 0) :
             /\ at = "control"
             /\ \/ b # 4 /\ Finish("none")
                \/ /\ b = 4 /\ ReadOn("block", Skipped(s, 6))
                   /\ UNCHANGED <<imagecount, image_info>>
      BY <1>2 DEF ReadControl
    <2> HIDE DEF s
    <2> QED
      BY <2>1, <2>2, FinishFollows DEF ReadOn, Blocks!Pass, Blocks!ControlData
  <1> QED
    BY <1>1, <1>2

LEMMA TextsFollow ==
  ASSUME StreamInv, Reach, Filled(stream), RoomForBlocks, UNCHANGED file,
         ReadTexts
  PROVE  Blocks!FirstText /\ Filled(stream)'
  <1> DEFINE s == CheckBuffer(stream, 1)
  <1>1. CASE s = Failed
    <2>1. Finish("unknown") /\ at = "texts"
      BY <1>1 DEF ReadTexts
    <2> QED
      BY <1>1, <2>1, RefusalFollows, FinishFollows DEF Blocks!FirstText
  <1>2. CASE s # Failed
    <2>1. /\ at = "texts" /\ at' = "length" /\ stream' = s
          /\ UNCHANGED <<image_type, imagecount, image_info>>
      BY <1>2 DEF ReadTexts, ReadOn
    <2>2. /\ Filled(s) /\ Where(s) = Where(stream)
          /\ Where(stream) + 1 <= Len(file.bytes)
      BY <1>2, CheckedFollows, FinishFollows DEF Reach
    <2> HIDE DEF s
    <2>3. Position' = Position /\ Blocks!Has(1)
      BY <2>1, <2>2, FinishFollows DEF Blocks!Has
    <2>4. Position + 0 = Position
      BY FinishFollows
    <2>5. Filled(stream)'
      BY <2>1, <2>2 DEF Filled
    <2> QED
      BY <2>1, <2>3, <2>4, <2>5 DEF Blocks!FirstText, Blocks!Pass
  <1> QED
    BY <1>1, <1>2

\* The only bytes read without a call of _CheckBuffer.
LEMMA LengthFollows ==
  ASSUME StreamInv, Reach, Filled(stream), RoomForBlocks, UNCHANGED file,
         ReadLength, ~misread'
  PROVE  Blocks!TextPiece /\ Filled(stream)'
  <1> DEFINE t == Skipped(stream, 1)
  <1>1. /\ at = "length" /\ stream.fd <= Len(file.bytes)
        /\ stream.buffpos < stream.buffend
    <2>1. at = "length" /\ ~(stream.buffpos >= stream.buffend)
      BY Zenon DEF ReadLength
    <2>2. stream.fd <= Len(file.bytes)
      BY <2>1 DEF Reach, Within
    <2> QED
      BY <2>1, <2>2, FinishFollows
  <1>2. Position \in Int /\ Position + 1 <= Len(file.bytes)
    BY <1>1, FinishFollows
  <1>3. Blocks!Has(1)
    BY <1>2, FinishFollows, BlocksBytes
  <1>4. PICK n \in Ahead(stream, 0) :
           LET s == CheckBuffer(t, n) IN
           /\ UNCHANGED <<imagecount, image_info>>
           /\ \/ n = 0 /\ ReadOn("block", t)
              \/ /\ n > 0 /\ s = Failed
                 /\ at' = "done" /\ image_type' = "unknown"
                 /\ UNCHANGED stream
              \/ n > 0 /\ s # Failed /\ ReadOn("length", Skipped(s, n))
    BY DEF ReadLength
  <1>5. n \in Byte /\ n \in Blocks!ByteAt(0)
    <2>1. n = file.bytes[Position + 0 + 1]
      BY <1>1, FinishFollows, AheadIsInFile
    <2>2. n \in BytesAt(Position + 0)
      BY <1>2, <2>1 DEF BytesAt
    <2> QED
      BY <1>2, <2>2, FinishFollows, BlocksBytes, AheadIsByte
  <1>6. /\ t \in Stream /\ Coherent(t) /\ Within(t) /\ Filled(t)
        /\ Where(t) = Position + 1
    <2>1. /\ t \in Stream /\ Coherent(t) /\ Within(t) /\ Where(t) = Position + 1
      BY <1>1, FinishFollows, SkippedReaches DEF Within
    <2>2. /\ t.buffpos = stream.buffpos + 1 /\ t.buffend = stream.buffend
          /\ t.fd = stream.fd
      BY FinishFollows DEF Skipped, Stream
    <2> HIDE DEF t
    <2>3. Filled(t)
      BY <1>1, <2>2, FinishFollows DEF Filled
    <2> QED
      BY <2>1, <2>3
  <1> HIDE DEF t
  <1>7. CASE n = 0
    <2>1. /\ ReadOn("block", t) /\ UNCHANGED <<imagecount, image_info>>
      BY <1>4, <1>7
    <2>2. Position' = Position + 1 /\ Filled(stream)'
      BY <1>6, <2>1, FinishFollows DEF ReadOn, Filled
    <2> QED
      BY <1>1, <1>3, <1>5, <1>7, <2>1, <2>2
      DEF ReadOn, Blocks!TextPiece, Blocks!Pass
  <1>8. CASE n # 0
    <2> DEFINE s == CheckBuffer(t, n)
    <2>1. n \in 1 .. MaxSkip /\ n > 0 /\ n \in Nat
      BY <1>5, <1>8 DEF Byte, MaxSkip
    <2>2. CASE s = Failed
      <3>1. Where(t) + n > Len(file.bytes)
        BY <1>6, <2>1, <2>2, FinishFollows, CheckBufferFollows
      <3>2. ~Blocks!Has(1 + n)
        BY <1>2, <1>6, <2>1, <3>1, FinishFollows DEF Blocks!Has
      <3>3. /\ at' = "done" /\ image_type' = "unknown"
            /\ UNCHANGED <<stream, imagecount, image_info>>
        BY <1>4, <1>8, <2>2
      <3>4. Blocks!EndsBefore(1 + n)
        BY <3>2, <3>3, FinishFollows DEF Blocks!EndsBefore, Blocks!Stop
      <3> QED
        BY <1>1, <1>3, <1>5, <2>1, <3>3, <3>4, FinishFollows
        DEF Blocks!TextPiece
    <2>3. CASE s # Failed
      <3>1. /\ ReadOn("length", Skipped(s, n))
            /\ UNCHANGED <<imagecount, image_info>>
        BY <1>4, <1>8, <2>3
      <3>2. /\ Where(t) + 1 <= Len(file.bytes)
            /\ Filled(Skipped(s, n)) /\ Where(Skipped(s, n)) = Where(t) + n
        <4>1. n \in 0 .. n
          BY <2>1
        <4> QED
          BY <1>6, <2>1, <2>3, <4>1, FinishFollows, CheckedFollows
      <3> HIDE DEF s
      <3>3. Position' = Position + (1 + n) /\ Filled(stream)'
        BY <1>2, <1>6, <2>1, <3>1, <3>2, FinishFollows DEF ReadOn, Filled
      <3>4. Blocks!Has(2)
        BY <1>2, <1>6, <3>2, FinishFollows DEF Blocks!Has
      <3> QED
        BY <1>1, <1>3, <1>5, <2>1, <3>1, <3>3, <3>4
        DEF ReadOn, Blocks!TextPiece, Blocks!Pass
    <2> QED
      BY <2>2, <2>3
  <1> QED
    BY <1>7, <1>8

LEMMA ImageFollows ==
  ASSUME StreamInv, Reach, Filled(stream), RoomForBlocks, UNCHANGED file,
         ReadImage
  PROVE  Blocks!ImageHead /\ Filled(stream)'
  <1> DEFINE s == CheckBuffer(stream, 9)
  <1>1. CASE s = Failed
    <2>1. Finish("unknown") /\ at = "image"
      BY <1>1 DEF ReadImage
    <2> QED
      BY <1>1, <2>1, RefusalFollows, FinishFollows DEF Blocks!ImageHead
  <1>2. CASE s # Failed
    <2>1. /\ Blocks!Has(1)
          /\ \A k \in 0 .. 9 - 1 : Ahead(s, k) \subseteq Blocks!ByteAt(k)
          /\ \A m \in 0 .. 9 : stream' = Skipped(s, m) =>
                Position' = Position + m /\ Filled(stream)'
      BY <1>2, CheckedStep, FinishFollows
    <2>2. /\ s \in Stream /\ Coherent(s) /\ Within(s) /\ Filled(s)
          /\ Where(s) = Position /\ Position \in Int
      BY <1>2, CheckedFollows, FinishFollows DEF Reach
    <2>3. PICK w0 \in Ahead(s, 4), w1 \in Ahead(s, 5),
               h0 \in Ahead(s, 6), h1 \in Ahead(s, 7), flags \in Ahead(s, 8) :
             LET table == TableSize(flags)
                 t == IF table > 0 THEN CheckBuffer(s, table + 9) ELSE s
             IN /\ image_info' = IF imagecount = 0
                                 THEN [width |-> w0 + 256 * w1,
                                       height |-> h0 + 256 * h1]
                                 ELSE image_info
                /\ UNCHANGED imagecount /\ at = "image"
                /\ IF t # Failed THEN ReadOn("code_size", Skipped(t, table + 9))
                   ELSE /\ at' = "done" /\ image_type' = "unknown"
                        /\ UNCHANGED stream
      BY <1>2 DEF ReadImage
    <2> DEFINE n == TableSize(flags) + 9
               t == IF TableSize(flags) > 0 THEN CheckBuffer(s, n) ELSE s
    <2>4. /\ TableSize(flags) \in 0 .. 768 /\ n \in 1 .. MaxSkip
          /\ n \in 0 .. n /\ n \in Nat
      <3>1. flags \in Byte
        BY <2>2, <2>3, AheadIsByte
      <3>2. TableSize(flags) \in 0 .. 768
        BY <3>1 DEF Byte, TableSize, TableSizes
      <3> QED
        BY <3>2 DEF MaxSkip
    <2>5. /\ w0 \in Blocks!ByteAt(4) /\ w1 \in Blocks!ByteAt(5)
          /\ h0 \in Blocks!ByteAt(6) /\ h1 \in Blocks!ByteAt(7)
          /\ flags \in Blocks!ByteAt(8)
      <3> HIDE DEF s
      <3> QED
        BY <2>1
    <2>6. Blocks!EndsBefore(n) \/ Blocks!Pass(n, "code_size")
      <3>1. CASE t = Failed
        <4>1. TableSize(flags) > 0
          BY <1>2, <3>1
        <4>2. Where(s) + n > Len(file.bytes)
          <5>1. CheckBuffer(s, n) = Failed
            BY <3>1, <4>1
          <5> HIDE DEF s, n
          <5> QED
            BY <2>2, <2>4, <5>1, FinishFollows, CheckBufferFollows
        <4>3. /\ at' = "done" /\ image_type' = "unknown"
              /\ UNCHANGED <<stream, imagecount>>
          BY <2>3, <3>1
        <4> HIDE DEF s, n, t
        <4>4. ~Blocks!Has(n)
          BY <2>2, <2>4, <4>2, FinishFollows DEF Blocks!Has
        <4> QED
          BY <4>3, <4>4, FinishFollows DEF Blocks!EndsBefore, Blocks!Stop
      <3>2. CASE t # Failed
        <4>1. ReadOn("code_size", Skipped(t, n))
          BY <2>3, <3>2
        <4>2. Where(Skipped(t, n)) = Position + n
          <5>1. CASE TableSize(flags) > 0
            <6>1. t = CheckBuffer(s, n)
              BY <5>1
            <6> HIDE DEF s, t, n
            <6> QED
              BY <2>2, <2>4, <3>2, <6>1, FinishFollows, CheckedFollows
          <5>2. CASE ~(TableSize(flags) > 0)
            <6>1. t = s
              BY <5>2
            <6> HIDE DEF s, t, n
            <6> QED
              BY <2>2, <2>4, <6>1, FinishFollows, SkippedReaches
          <5> QED
            BY <5>1, <5>2
        <4> HIDE DEF s, n, t
        <4> QED
          BY <4>1, <4>2, FinishFollows DEF ReadOn, Blocks!Pass
      <3> QED
        BY <3>1, <3>2
    <2>7. Filled(stream)'
      <3>1. CASE t = Failed
        <4>1. UNCHANGED stream
          BY <2>3, <3>1
        <4> QED
          BY <4>1, FinishFollows
      <3>2. CASE t # Failed
        <4>1. stream' = Skipped(t, n)
          BY <2>3, <3>2 DEF ReadOn
        <4>2. CASE TableSize(flags) > 0
          <5>1. t = CheckBuffer(s, n)
            BY <4>2
          <5> HIDE DEF s, t, n
          <5>2. Filled(Skipped(t, n))
            BY <2>2, <2>4, <3>2, <5>1, FinishFollows, CheckedFollows
          <5> QED
            BY <4>1, <5>2 DEF Filled
        <4>3. CASE ~(TableSize(flags) > 0)
          <5>1. stream' = Skipped(s, 9) /\ 9 \in 0 .. 9
            BY <2>4, <4>1, <4>3
          <5> HIDE DEF s, t, n
          <5> QED
            BY <2>1, <5>1
        <4> QED
          BY <4>2, <4>3
      <3> QED
        BY <3>1, <3>2
    <2>8. /\ image_info' = IF imagecount = 0
                           THEN [width |-> w0 + 256 * w1,
                                 height |-> h0 + 256 * h1]
                           ELSE image_info
          /\ UNCHANGED imagecount /\ at = "image"
      BY <2>3
    <2> HIDE DEF s, t
    <2> QED
      BY <2>1, <2>5, <2>6, <2>7, <2>8 DEF Blocks!ImageHead
  <1> QED
    BY <1>1, <1>2

LEMMA CodeSizeFollows ==
  ASSUME StreamInv, Reach, Filled(stream), RoomForBlocks, UNCHANGED file,
         ReadCodeSize
  PROVE  Blocks!CodeSize /\ Filled(stream)'
  <1> DEFINE s == CheckBuffer(stream, 1)
  <1>1. CASE s = Failed
    <2>1. Finish("unknown") /\ at = "code_size"
      BY <1>1 DEF ReadCodeSize
    <2> QED
      BY <1>1, <2>1, RefusalFollows, FinishFollows DEF Blocks!CodeSize
  <1>2. CASE s # Failed
    <2>1. /\ Blocks!Has(1) /\ Ahead(s, 0) \subseteq Blocks!ByteAt(0)
          /\ stream' = Skipped(s, 1) => Position' = Position + 1 /\ Filled(stream)'
      BY <1>2, CheckedStep, FinishFollows
    <2>2. PICK b \in Ahead(s, 0) :
             /\ at = "code_size"
             /\ \/ b \notin 2 .. 9 /\ Finish("unknown")
                \/ /\ b \in 2 .. 9 /\ ReadOn("data", Skipped(s, 1))
                   /\ UNCHANGED <<imagecount, image_info>>
      BY <1>2 DEF ReadCodeSize
    <2> HIDE DEF s
    <2> QED
      BY <2>1, <2>2, FinishFollows DEF ReadOn, Blocks!Pass, Blocks!CodeSize
  <1> QED
    BY <1>1, <1>2

LEMMA DataFollows ==
  ASSUME StreamInv, Reach, Filled(stream), RoomForBlocks, UNCHANGED file,
         ReadData
  PROVE  Blocks!DataPiece /\ Filled(stream)'
  <1> DEFINE s == CheckBuffer(stream, 1)
             t == Skipped(s, 1)
  <1>1. CASE s = Failed
    <2>1. Finish("unknown") /\ at = "data"
      BY <1>1 DEF ReadData
    <2> QED
      BY <1>1, <2>1, RefusalFollows, FinishFollows DEF Blocks!DataPiece
  <1>2. CASE s # Failed
    <2>1. /\ Blocks!Has(1) /\ Ahead(s, 0) \subseteq Blocks!ByteAt(0)
          /\ stream' = t => Position' = Position + 1 /\ Filled(stream)'
      BY <1>2, CheckedStep, FinishFollows
    <2>2. /\ s \in Stream /\ t \in Stream /\ Coherent(t) /\ Within(t) /\ Filled(t)
          /\ Where(t) = Position + 1 /\ Position \in Int
      <3>1. 1 \in 0 .. 1
        OBVIOUS
      <3> QED
        BY <1>2, <3>1, CheckedFollows, FinishFollows DEF Reach
    <2>3. PICK n \in Ahead(s, 0) :
             /\ at = "data" /\ UNCHANGED image_info
             /\ \/ /\ n > 0
                   /\ ReadOn("data", IF n + t.buffpos > t.buffend
                                     THEN SoughtPast(t, n) ELSE Skipped(t, n))
                   /\ UNCHANGED imagecount
                \/ /\ n = 0 /\ imagecount = 0
                   /\ ReadOn("block", t)
                   /\ imagecount' = 1
                \/ n = 0 /\ imagecount = 1 /\ Finish("agif")
      BY <1>2, FinishFollows DEF ReadData
    <2>4. n \in Nat
      BY <2>2, <2>3, AheadIsByte DEF Byte
    <2> HIDE DEF s, t
    <2>5. /\ t.buffpos \in Nat /\ t.buffend \in Nat /\ t.fd \in Nat
          /\ Position + 1 = t.fd - t.buffend + t.buffpos
      BY <2>2 DEF Stream, Where
    <2>6. CASE n > 0 /\ n + t.buffpos > t.buffend
      <3>1. /\ ReadOn("data", SoughtPast(t, n)) /\ at = "data"
            /\ UNCHANGED <<imagecount, image_info>>
        BY <2>3, <2>6
      <3>2. /\ stream'.buffpos = 0 /\ stream'.buffend = 0
            /\ stream'.fd = t.fd + (n + t.buffpos - t.buffend)
        BY <3>1 DEF ReadOn, SoughtPast
      <3>3. Where(stream') = stream'.fd - 0 + 0
        BY <3>2 DEF Where
      <3>4. Position' = Position + (1 + n)
        <4>1. stream'.fd = Position + (1 + n)
          BY <2>2, <2>4, <2>5, <3>2
        <4>2. stream'.fd - 0 + 0 = stream'.fd
          BY <2>2, <2>4, <4>1
        <4> QED
          BY <3>3, <4>1, <4>2, FinishFollows, Zenon
      <3>5. Filled(stream)'
        BY <3>2 DEF Filled
      <3> QED
        BY <2>1, <2>3, <2>6, <3>1, <3>4, <3>5
        DEF ReadOn, Blocks!DataPiece, Blocks!Pass
    <2>7. CASE n > 0 /\ ~(n + t.buffpos > t.buffend)
      <3>1. /\ ReadOn("data", Skipped(t, n)) /\ at = "data"
            /\ UNCHANGED <<imagecount, image_info>>
        BY <2>3, <2>7
      <3>2. Where(stream') = Where(t) + n
        BY <2>2, <2>4, <3>1, FinishFollows, SkippedReaches DEF ReadOn
      <3>3. Position' = Position + (1 + n)
        BY <2>2, <2>4, <3>2, FinishFollows
      <3>4. /\ stream'.buffpos = t.buffpos + n /\ stream'.buffend = t.buffend
            /\ stream'.fd = t.fd
        BY <2>2, <3>1 DEF ReadOn, Skipped, Stream
      <3>5. /\ t.fd < Len(file.bytes) => t.buffend = FILE_READ_SIZE
            /\ t.buffpos + n <= t.buffend
        BY <2>2, <2>4, <2>5, <2>7 DEF Filled
      <3>6. Filled(stream)'
        BY <3>4, <3>5 DEF Filled
      <3> QED
        BY <2>1, <2>3, <2>7, <3>1, <3>3, <3>6
        DEF ReadOn, Blocks!DataPiece, Blocks!Pass
    <2>8. CASE ~(n > 0)
      BY <2>1, <2>3, <2>8, FinishFollows
      DEF ReadOn, Blocks!DataPiece, Blocks!Pass
    <2> QED
      BY <2>4, <2>6, <2>7, <2>8
  <1> QED
    BY <1>1, <1>2

LEMMA StepFollows ==
  ASSUME StreamInv, Reach, Follow, RoomForBlocks, HeaderStep, UNCHANGED file
  PROVE  Follow' /\ Follows
  <1>1. CASE OpenFile
    <2>1. /\ at = "open" /\ UNCHANGED <<stream, imagecount, misread>>
          /\ \/ at' = "done"
             \/ at' = "block" /\ UNCHANGED image_type
      BY <1>1 DEF OpenFile
    <2>2. Position' = 0
      BY <2>1 DEF Follow, NoStream, Position
    <2>3. Follows
      BY <2>1, <2>2 DEF Follows, Follow, Blocks!Init
    <2>4. Follow'
      BY <2>1 DEF Follow, Filled
    <2> QED
      BY <2>3, <2>4
  <1>2. CASE ~OpenFile
    <2>1. at' # "open" /\ (misread => misread')
      <3>1. at' # "open"
        BY <1>2
        DEF HeaderStep, NextBlock, ReadExtension, ReadControl, ReadTexts,
            ReadLength, ReadImage, ReadCodeSize, ReadData, Finish, ReadOn
      <3>2. CASE ReadLength
        BY <3>1, <3>2, Zenon DEF ReadLength
      <3>3. CASE ~ReadLength
        <4>1. UNCHANGED misread
          BY <1>2, <3>3
          DEF HeaderStep, NextBlock, ReadExtension, ReadControl, ReadTexts,
              ReadImage, ReadCodeSize, ReadData, Finish
        <4> QED
          BY <3>1, <4>1
      <3> QED
        BY <3>2, <3>3
    <2>2. CASE misread'
      BY <2>1, <2>2 DEF Follow, Follows
    <2>3. CASE ~misread'
      <3>1. Filled(stream)
        BY <2>1, <2>3 DEF Follow
      <3>2. Blocks!Next /\ Filled(stream)'
        BY <1>2, <2>3, <3>1, BlockFollows, ExtensionFollows, ControlFollows,
           TextsFollow, LengthFollows, ImageFollows, CodeSizeFollows, DataFollows
        DEF HeaderStep, Blocks!Next
      <3> QED
        BY <2>1, <3>2 DEF Follow, Follows
    <2> QED
      BY <2>2, <2>3
  <1> QED
    BY <1>1, <1>2

LEMMA FollowStart ==
  ASSUME at = "open", imagecount = 0, image_type = "none", stream = NoStream
  PROVE  Follow
  BY DEF Follow, Filled, NoStream

LEMMA FollowStutter ==
  ASSUME Follow, UNCHANGED <<file, reader>>
  PROVE  Follow'
  BY DEF Follow, Filled, reader

\* With a buffer of more than twice its largest block, the parser reads every
\* file, whole, cut off or damaged, as one without a buffer does, up to a
\* length that it misreads.
THEOREM HeaderFollowsBlocks ==
  ASSUME RoomForBlocks
  PROVE  HeaderSpec => BlocksFollowed
  <1> DEFINE Inv == HeaderReach /\ Follow
  <1>1. HeaderInit => Inv
    BY StreamInvInit, ReachInit, FollowStart
    DEF HeaderReach, HeaderInit, HeaderStart
  <1>2. Inv /\ [HeaderNext]_<<file, reader>>
          => /\ Inv'
             /\ [\/ misread' \/ at' = "open"
                 \/ at = "open" /\ (at' = "done" \/ Blocks!Init')
                 \/ Blocks!Next]_reader
    <2> SUFFICES ASSUME Inv, [HeaderNext]_<<file, reader>>
                 PROVE  /\ Inv'
                        /\ [\/ misread' \/ at' = "open"
                            \/ at = "open" /\ (at' = "done" \/ Blocks!Init')
                            \/ Blocks!Next]_reader
      OBVIOUS
    <2>1. CASE HeaderNext
      BY <2>1, StreamInvStep, StepReaches, StepFollows
      DEF HeaderNext, HeaderReach, Follows
    <2>2. CASE UNCHANGED <<file, reader>>
      BY <2>2, FollowStutter
      DEF reader, HeaderReach, StreamInv, StreamCoherent, Coherent, Reach,
          Within, Over
    <2> QED
      BY <2>1, <2>2
  <1> QED
    BY <1>1, <1>2, PTL DEF HeaderSpec, BlocksFollowed

-----------------------------------------------------------------------------
(***************************************************************************)
(* What the parser finds in a whole GIF: it goes from block to block as    *)
(* the format lays them out.                                               *)
(***************************************************************************)
TableOf(b) == Format!Table(Format!Octet(file.bytes, b.start + 9))
FirstSize == <<image_info.width, image_info.height>> = file.images[1]

\* The parser is in block i, with the images in front of it counted and the
\* size of the first one known.
Reads(i) ==
    LET b == file.blocks[i] IN
    /\ imagecount = b.image /\ imagecount \in 0 .. 1
    /\ at = "block" => Position = b.start
    /\ at = "extension" => b.kind \in {"text", "control"} /\ Position = b.start + 1
    /\ at = "control" => b.kind = "control" /\ Position = b.start + 2
    /\ at = "texts" => b.kind = "text" /\ Position = b.start + 2
    /\ at = "image" => b.kind = "image" /\ Position = b.start + 1
    /\ at = "code_size" => b.kind = "image" /\ Position = b.start + 10 + TableOf(b)
    /\ at = "length" => b.kind = "text"
    /\ at = "data" => b.kind = "image"
    /\ at \in {"length", "data"} => \E k \in DOMAIN b.places : Position = b.places[k]
    /\ imagecount > 0 \/ at \in {"code_size", "data"} => FirstSize

WholeGif == file \in Files /\ file.type = "gif" /\ file.whole

OnBlocks ==
    WholeGif /\ ~misread =>
       IF at = "open" THEN imagecount = 0
       ELSE IF at = "done" THEN HeaderRight
       ELSE \E i \in DOMAIN file.blocks : Reads(i)

\* Every block but the trailer is followed by another.
LEMMA BlockLaid ==
  ASSUME WholeGif, NEW i \in DOMAIN file.blocks
  PROVE  LET b == file.blocks[i] IN
         /\ b \in Format!Block
         /\ b.kind = "trailer" =>
               /\ b.start < Len(file.bytes)
               /\ Format!Octet(file.bytes, b.start) = 59
               /\ b.image = Len(file.images)
         /\ b.kind # "trailer" =>
               /\ i + 1 \in DOMAIN file.blocks
               /\ Format!WellFormed(file.bytes, b)
               /\ Format!Follows(b, file.blocks[i + 1])
               /\ b.kind = "image" =>
                     /\ b.image < Len(file.images)
                     /\ file.images[b.image + 1] = Format!ImageSize(file.bytes, b)
  <1> DEFINE last == Len(file.blocks)
  <1>1. Format!WholeGif(file.bytes, file.images, file.blocks)
    BY WholeAssumption DEF WholeAssumption, WholeGif
  <1>2. file.blocks \in Seq(Format!Block)
    BY <1>1 DEF Format!WholeGif
  <1>3. i \in 1 .. last /\ file.blocks[i] \in Format!Block /\ last \in Nat
    BY <1>2
  <1>4. CASE i = last
    BY <1>1, <1>3, <1>4 DEF Format!WholeGif
  <1>5. CASE i # last
    <2>1. i \in 1 .. last - 1 /\ i + 1 \in DOMAIN file.blocks
      BY <1>2, <1>3, <1>5
    <2>2. file.blocks[i].kind # "trailer"
      BY <1>1, <2>1 DEF Format!WholeGif, Format!WellFormed
    <2> QED
      BY <1>1, <1>3, <2>1, <2>2 DEF Format!WholeGif
  <1> QED
    BY <1>4, <1>5

\* The places of the lengths of a block.
LEMMA PlaceLaid ==
  ASSUME WholeGif, NEW i \in DOMAIN file.blocks, file.blocks[i].kind # "trailer",
         NEW k \in DOMAIN file.blocks[i].places
  PROVE  LET b == file.blocks[i]
             n == Format!Octet(file.bytes, b.places[k])
         IN /\ 1 \in DOMAIN b.places
            /\ b.places[k] \in Nat /\ b.places[k] < Len(file.bytes)
            /\ n \in Nat
            /\ n > 0 => /\ k + 1 \in DOMAIN b.places
                        /\ b.places[k + 1] = b.places[k] + 1 + n
            /\ n = 0 => file.blocks[i + 1].start = b.places[k] + 1
  <1> DEFINE b == file.blocks[i]
  <1>1. Format!Chain(file.bytes, b.places) /\ Format!Follows(b, file.blocks[i + 1])
    BY BlockLaid DEF Format!WellFormed
  <1>2. b.places \in Seq(Nat)
    BY BlockLaid DEF Format!Block
  <1>3. file.bytes \in Seq(Byte)
    BY HeaderAssumption DEF HeaderAssumption, WholeGif
  <1> HIDE DEF b
  <1>4. /\ k \in 1 .. Len(b.places) /\ b.places[k] \in Nat /\ Len(b.places) \in Nat
        /\ 1 \in DOMAIN b.places
    BY <1>2 DEF b
  <1>5. b.places[k] < Len(file.bytes)
    BY <1>1, <1>4 DEF Format!Chain
  <1>6. Format!Octet(file.bytes, b.places[k]) \in Nat
    <2>1. b.places[k] + 1 \in 1 .. Len(file.bytes)
      BY <1>3, <1>4, <1>5
    <2>2. file.bytes[b.places[k] + 1] \in Byte
      BY <1>3, <2>1
    <2> QED
      BY <2>2 DEF Format!Octet, Byte
  <1>7. CASE k = Len(b.places)
    BY <1>1, <1>4, <1>5, <1>6, <1>7 DEF Format!Chain, Format!Follows, b
  <1>8. CASE k # Len(b.places)
    <2>1. k \in 1 .. Len(b.places) - 1 /\ k + 1 \in DOMAIN b.places
      BY <1>2, <1>4, <1>8
    <2> QED
      BY <1>1, <1>4, <1>5, <1>6, <2>1 DEF Format!Chain, b
  <1> QED
    BY <1>7, <1>8

\* A table has a number of bytes; an image's first place is behind it.
LEMMA TableLaid ==
  ASSUME WholeGif, NEW i \in DOMAIN file.blocks, file.blocks[i].kind = "image"
  PROVE  LET b == file.blocks[i] IN
         /\ b.start + 9 < Len(file.bytes)
         /\ Format!Octet(file.bytes, b.start + 9) \in Byte
         /\ TableOf(b) \in Nat
  <1> DEFINE b == file.blocks[i]
             flags == Format!Octet(file.bytes, b.start + 9)
  <1>1. b.start \in Nat /\ b.start + 9 < Len(file.bytes)
    BY BlockLaid DEF Format!Block, Format!WellFormed, Format!Image
  <1>2. file.bytes \in Seq(Byte)
    BY HeaderAssumption DEF HeaderAssumption, WholeGif
  <1>3. flags \in Byte
    <2>1. (b.start + 9) + 1 \in 1 .. Len(file.bytes)
      BY <1>1, <1>2
    <2>2. file.bytes[(b.start + 9) + 1] \in Byte
      BY <1>2, <2>1
    <2> QED
      BY <2>2 DEF Format!Octet
  <1>4. Format!Table(flags) \in Nat
    <2>1. PICK n \in 0 .. 7 : n = flags % 8
      <3>1. \A f \in 0 .. 255 : f % 8 \in 0 .. 7
        OBVIOUS
      <3> QED
        BY <1>3, <3>1 DEF Byte
    <2>2. <<2, 4, 8, 16, 32, 64, 128, 256>>[n + 1] \in Nat
      BY <2>1
    <2> QED
      BY <2>1, <2>2 DEF Format!Table
  <1> QED
    BY <1>1, <1>3, <1>4 DEF TableOf

\* A block's first bytes are in front of its first place.
LEMMA FrontLaid ==
  ASSUME WholeGif, NEW i \in DOMAIN file.blocks, file.blocks[i].kind # "trailer"
  PROVE  LET b == file.blocks[i] IN
         /\ b.start \in Nat /\ 1 \in DOMAIN b.places
         /\ b.places[1] \in Nat /\ b.places[1] < Len(file.bytes)
         /\ b.kind # "image" => b.places[1] = b.start + 2
         /\ b.kind = "image" => b.places[1] = b.start + 11 + TableOf(b)
         /\ Format!Octet(file.bytes, b.start)
               = IF b.kind = "image" THEN 44 ELSE 33
         /\ b.start + 1 < b.places[1]
  <1> DEFINE b == file.blocks[i]
  <1>1. b.places \in Seq(Nat) /\ b.start \in Nat
        /\ b.kind \in {"control", "text", "image", "trailer"}
    BY BlockLaid DEF Format!Block
  <1>2. Format!WellFormed(file.bytes, b)
    BY BlockLaid
  <1>3. 1 \in DOMAIN b.places
    BY <1>1, <1>2 DEF Format!WellFormed, Format!Chain
  <1>4. b.places[1] \in Nat /\ b.places[1] < Len(file.bytes)
    BY <1>3, PlaceLaid
  <1>5. b.kind = "image" => TableOf(b) \in Nat
    BY TableLaid
  <1> QED
    BY <1>1, <1>2, <1>3, <1>4, <1>5
    DEF Format!WellFormed, Format!Text, Format!ControlBlock, Format!Image, TableOf

\* A byte in front of the file's end.
LEMMA ByteLaid ==
  ASSUME Position \in Int, NEW p \in Nat, NEW n \in Nat,
         Position + n = p, p < Len(file.bytes)
  PROVE  Blocks!ByteAt(n) = {Format!Octet(file.bytes, p)} /\ Blocks!Has(n + 1)
  BY DEF Blocks!ByteAt, Blocks!Has, Format!Octet

\* A step inside of a block, to another one, or to the end.
StaysRight == IF at' = "done" THEN HeaderRight'
              ELSE at' # "open" /\ \E i \in DOMAIN file.blocks : Reads(i)'

Reading(i) == WholeGif /\ UNCHANGED file /\ Position \in Int
              /\ i \in DOMAIN file.blocks /\ Reads(i)

LEMMA BlockRight ==
  ASSUME NEW i, Reading(i), Blocks!Block
  PROVE  StaysRight
  <1> DEFINE b == file.blocks[i]
  <1>1. b \in Format!Block /\ Position = b.start /\ at = "block"
    BY BlockLaid DEF Reading, Reads, Blocks!Block
  <1>2. b.start \in Nat /\ b.kind \in {"control", "text", "image", "trailer"}
    BY <1>1 DEF Format!Block
  <1>3. UNCHANGED <<imagecount, image_info>>
    BY DEF Blocks!Block
  <1>4. CASE b.kind = "trailer"
    <2>1. /\ b.start < Len(file.bytes) /\ Format!Octet(file.bytes, b.start) = 59
          /\ b.image = Len(file.images)
      BY <1>4, BlockLaid DEF Reading
    <2>2. Blocks!ByteAt(0) = {59} /\ Blocks!Has(1)
      BY <1>1, <1>2, <2>1, ByteLaid DEF Reading
    <2>3. at' = "done" /\ image_type' = "gif"
      BY <1>1, <1>2, <2>1, <2>2
      DEF Blocks!Block, Blocks!Stop, Blocks!EndsBefore, Blocks!Pass, Reading,
          Trailer
    <2>4. Len(file.images) = imagecount /\ imagecount \in 0 .. 1
          /\ (imagecount > 0 => FirstSize)
      BY <1>1, <2>1 DEF Reading, Reads
    <2>5. file.images # <<>> => imagecount > 0
      BY <2>4, HeaderAssumption DEF HeaderAssumption, Reading, WholeGif
    <2> QED
      BY <1>3, <2>3, <2>4, <2>5
      DEF StaysRight, HeaderRight, FirstSize, Reading
  <1>5. CASE b.kind # "trailer"
    <2>1. /\ b.places[1] \in Nat /\ b.places[1] < Len(file.bytes)
          /\ Format!Octet(file.bytes, b.start) = IF b.kind = "image" THEN 44 ELSE 33
          /\ b.start + 1 < b.places[1]
      BY <1>5, FrontLaid DEF Reading
    <2>2. b.start < Len(file.bytes) /\ Len(file.bytes) \in Nat
      BY <1>2, <2>1, HeaderAssumption DEF HeaderAssumption, Reading, WholeGif
    <2>3. /\ Blocks!Has(1) /\ ~(Position > Len(file.bytes))
          /\ Blocks!ByteAt(0) = {IF b.kind = "image" THEN 44 ELSE 33}
      BY <1>1, <1>2, <2>1, <2>2, ByteLaid DEF Reading
    <2>4. Blocks!Pass(1, IF b.kind = "image" THEN "image" ELSE "extension")
      BY <2>3
      DEF Blocks!Block, Blocks!EndsBefore, Trailer, Extension, ImageStart
    <2>5. /\ at' = IF b.kind = "image" THEN "image" ELSE "extension"
          /\ Position' = b.start + 1
      BY <1>1, <2>4 DEF Blocks!Pass
    <2>6. Reads(i)'
      BY <1>2, <1>3, <1>5, <2>5 DEF Reads, Reading, FirstSize
    <2> QED
      BY <2>5, <2>6 DEF StaysRight, Reading
  <1> QED
    BY <1>4, <1>5

LEMMA ExtensionRight ==
  ASSUME NEW i, Reading(i), Blocks!ExtensionKind
  PROVE  StaysRight
  <1> DEFINE b == file.blocks[i]
             second == Format!Octet(file.bytes, b.start + 1)
  <1>1. /\ i \in DOMAIN file.blocks /\ WholeGif /\ at = "extension"
        /\ b.kind \in {"text", "control"} /\ Position = b.start + 1
    BY DEF Reading, Reads, Blocks!ExtensionKind
  <1>2. UNCHANGED <<imagecount, image_info>>
    BY DEF Blocks!ExtensionKind
  <1>3. /\ b.start \in Nat /\ b.places[1] < Len(file.bytes)
        /\ b.places[1] \in Nat /\ b.start + 1 < b.places[1]
    BY <1>1, FrontLaid
  <1>4. IF b.kind = "control" THEN second = 249 ELSE second \in {1, 254, 255}
    BY <1>1, BlockLaid
    DEF Format!WellFormed, Format!Text, Format!ControlBlock
  <1>5. Len(file.bytes) \in Nat
    BY HeaderAssumption DEF HeaderAssumption, Reading, WholeGif
  <1>6. Blocks!ByteAt(0) = {second} /\ Blocks!Has(1)
    BY <1>1, <1>3, <1>5, ByteLaid DEF Reading
  <1>7. Blocks!Pass(1, IF b.kind = "control" THEN "control" ELSE "texts")
    BY <1>1, <1>4, <1>6
    DEF Blocks!ExtensionKind, Blocks!EndsBefore, Control, Texts
  <1>8. /\ at' = IF b.kind = "control" THEN "control" ELSE "texts"
        /\ Position' = b.start + 2
    BY <1>1, <1>3, <1>7 DEF Blocks!Pass
  <1>9. Reads(i)'
    BY <1>1, <1>2, <1>8 DEF Reads, Reading, FirstSize
  <1> QED
    BY <1>8, <1>9 DEF StaysRight, Reading

LEMMA ControlRight ==
  ASSUME NEW i, Reading(i), Blocks!ControlData
  PROVE  StaysRight
  <1> DEFINE b == file.blocks[i]
             next == file.blocks[i + 1]
  <1>1. /\ i \in DOMAIN file.blocks /\ WholeGif /\ at = "control"
        /\ b.kind = "control" /\ Position = b.start + 2
    BY DEF Reading, Reads, Blocks!ControlData
  <1>2. UNCHANGED <<imagecount, image_info>>
    BY DEF Blocks!ControlData
  <1>3. /\ b.start \in Nat /\ 1 \in DOMAIN b.places
        /\ b.places[1] = b.start + 2 /\ b.places[1] < Len(file.bytes)
    BY <1>1, FrontLaid
  <1>4. /\ Format!Octet(file.bytes, b.start + 2) = 4 /\ Len(b.places) = 2
        /\ Format!Chain(file.bytes, b.places) /\ Format!Follows(b, next)
        /\ i + 1 \in DOMAIN file.blocks
    BY <1>1, BlockLaid DEF Format!WellFormed, Format!ControlBlock
  <1>5. 2 \in DOMAIN b.places /\ b.places[2] = b.start + 7
    BY <1>1, <1>3, <1>4, PlaceLaid
  <1>6. /\ b.places[2] < Len(file.bytes) /\ next.start = b.start + 8
        /\ next.image = b.image
    <2>1. next.image = b.image + 0
      BY <1>1, <1>4 DEF Format!Follows
    <2>2. b.image \in Nat
      BY <1>1, BlockLaid DEF Format!Block
    <2> QED
      BY <1>3, <1>4, <1>5, <2>1, <2>2 DEF Format!Chain, Format!Follows
  <1>7. Len(file.bytes) \in Nat
    BY HeaderAssumption DEF HeaderAssumption, Reading, WholeGif
  <1>8. Blocks!ByteAt(0) = {4} /\ Blocks!Has(6)
    <2>1. Blocks!ByteAt(0) = {4}
      BY <1>1, <1>3, <1>4, <1>7, ByteLaid DEF Reading
    <2>2. Blocks!Has(6)
      BY <1>1, <1>3, <1>5, <1>6, <1>7 DEF Blocks!Has
    <2> QED
      BY <2>1, <2>2
  <1>9. at' = "block" /\ Position' = next.start
    <2>1. Blocks!Pass(6, "block")
      BY <1>8 DEF Blocks!ControlData, Blocks!EndsBefore
    <2> QED
      BY <1>1, <1>3, <1>6, <2>1 DEF Blocks!Pass
  <1>10. Reads(i + 1)'
    BY <1>2, <1>6, <1>9 DEF Reads, Reading, FirstSize
  <1> QED
    BY <1>4, <1>9, <1>10 DEF StaysRight, Reading

LEMMA TextsRight ==
  ASSUME NEW i, Reading(i), Blocks!FirstText
  PROVE  StaysRight
  <1> DEFINE b == file.blocks[i]
  <1>1. /\ i \in DOMAIN file.blocks /\ WholeGif /\ at = "texts"
        /\ b.kind = "text" /\ Position = b.start + 2
    BY DEF Reading, Reads, Blocks!FirstText
  <1>2. UNCHANGED <<imagecount, image_info>>
    BY DEF Blocks!FirstText
  <1>3. /\ b.start \in Nat /\ 1 \in DOMAIN b.places
        /\ b.places[1] = b.start + 2 /\ b.places[1] < Len(file.bytes)
    BY <1>1, FrontLaid
  <1>4. Len(file.bytes) \in Nat
    BY HeaderAssumption DEF HeaderAssumption, Reading, WholeGif
  <1>5. Blocks!Has(1)
    BY <1>1, <1>3, <1>4 DEF Blocks!Has
  <1>6. at' = "length" /\ Position' = b.places[1]
    <2>1. Blocks!Pass(0, "length")
      BY <1>5 DEF Blocks!FirstText, Blocks!EndsBefore
    <2> QED
      BY <1>1, <1>3, <2>1 DEF Blocks!Pass
  <1>7. Reads(i)'
    BY <1>1, <1>2, <1>3, <1>6 DEF Reads, Reading, FirstSize
  <1> QED
    BY <1>6, <1>7 DEF StaysRight, Reading

LEMMA PieceRight ==
  ASSUME NEW i, Reading(i), Blocks!TextPiece
  PROVE  StaysRight
  <1> DEFINE b == file.blocks[i]
             next == file.blocks[i + 1]
  <1>1. /\ i \in DOMAIN file.blocks /\ WholeGif /\ at = "length"
        /\ b.kind = "text"
    BY DEF Reading, Reads, Blocks!TextPiece
  <1>2. UNCHANGED <<imagecount, image_info>>
    BY DEF Blocks!TextPiece
  <1>3. PICK k \in DOMAIN b.places : Position = b.places[k]
    BY <1>1 DEF Reading, Reads
  <1> DEFINE n == Format!Octet(file.bytes, b.places[k])
  <1>4. /\ b.places[k] \in Nat /\ b.places[k] < Len(file.bytes) /\ n \in Nat
        /\ n > 0 => /\ k + 1 \in DOMAIN b.places
                    /\ b.places[k + 1] = b.places[k] + 1 + n
        /\ n = 0 => next.start = b.places[k] + 1
    BY <1>1, PlaceLaid
  <1>5. Len(file.bytes) \in Nat
    BY HeaderAssumption DEF HeaderAssumption, Reading, WholeGif
  <1>6. Blocks!ByteAt(0) = {n}
    BY <1>3, <1>4, <1>5, ByteLaid DEF Reading
  <1>7. CASE n = 0
    <2>1. Blocks!Pass(1, "block")
      BY <1>6, <1>7 DEF Blocks!TextPiece
    <2>2. at' = "block" /\ Position' = next.start
      BY <1>3, <1>4, <1>7, <2>1 DEF Blocks!Pass
    <2>3. next.image = b.image /\ i + 1 \in DOMAIN file.blocks
      <3>1. next.image = b.image + 0 /\ i + 1 \in DOMAIN file.blocks
        BY <1>1, BlockLaid DEF Format!Follows
      <3>2. b.image \in Nat
        BY <1>1, BlockLaid DEF Format!Block
      <3> QED
        BY <3>1, <3>2
    <2>4. Reads(i + 1)'
      BY <1>2, <2>2, <2>3 DEF Reads, Reading, FirstSize
    <2> QED
      BY <2>2, <2>3, <2>4 DEF StaysRight, Reading
  <1>8. CASE n > 0
    <2>1. b.places[k + 1] < Len(file.bytes)
      BY <1>1, <1>4, <1>8, PlaceLaid
    <2>2. Blocks!Has(1 + n)
      BY <1>3, <1>4, <1>5, <1>8, <2>1 DEF Blocks!Has
    <2>3. Blocks!Pass(1 + n, "length")
      BY <1>6, <1>8, <2>2 DEF Blocks!TextPiece, Blocks!EndsBefore
    <2>4. at' = "length" /\ Position' = b.places[k + 1]
      BY <1>3, <1>4, <1>8, <2>3 DEF Blocks!Pass
    <2>5. Reads(i)'
      BY <1>1, <1>2, <1>4, <1>8, <2>4 DEF Reads, Reading, FirstSize
    <2> QED
      BY <2>4, <2>5 DEF StaysRight, Reading
  <1> QED
    BY <1>4, <1>7, <1>8

LEMMA ImageRight ==
  ASSUME NEW i, Reading(i), Blocks!ImageHead
  PROVE  StaysRight
  <1> DEFINE b == file.blocks[i]
             table == TableOf(b)
             flags == Format!Octet(file.bytes, b.start + 9)
  <1>1. /\ i \in DOMAIN file.blocks /\ WholeGif /\ at = "image"
        /\ b.kind = "image" /\ Position = b.start + 1
    BY DEF Reading, Reads, Blocks!ImageHead
  <1>2. UNCHANGED imagecount
    BY DEF Blocks!ImageHead
  <1>3. /\ b.start \in Nat /\ 1 \in DOMAIN b.places
        /\ b.places[1] = b.start + 11 + table /\ b.places[1] < Len(file.bytes)
        /\ flags \in Byte /\ table \in Nat
    BY <1>1, FrontLaid, TableLaid
  <1>4. Len(file.bytes) \in Nat
    BY HeaderAssumption DEF HeaderAssumption, Reading, WholeGif
  <1>5. \A n \in 4 .. 8 :
          Blocks!ByteAt(n) = {Format!Octet(file.bytes, b.start + n + 1)}
    <2> TAKE n \in 4 .. 8
    <2>1. /\ b.start + n + 1 \in Nat /\ n \in Nat
          /\ Position + n = b.start + n + 1
          /\ b.start + n + 1 < Len(file.bytes)
      <3>1. PICK s \in Nat, t \in Nat, l \in Nat :
               s = b.start /\ t = table /\ l = Len(file.bytes)
        BY <1>3, <1>4
      <3>2. Position = s + 1 /\ s + 11 + t < l
        BY <1>1, <1>3, <3>1
      <3>3. n \in Nat /\ n <= 8
        OBVIOUS
      <3>4. s + n + 1 \in Nat /\ Position + n = s + n + 1 /\ s + n + 1 < l
        BY ONLY <3>2, <3>3, s \in Nat, t \in Nat, l \in Nat, SMT
      <3> QED
        BY ONLY <3>1, <3>3, <3>4, Zenon
    <2> QED
      BY <2>1, ByteLaid DEF Reading
  <1>6. Blocks!Has(9 + table)
    <2>1. PICK s \in Nat, t \in Nat, l \in Nat :
             s = b.start /\ t = table /\ l = Len(file.bytes)
      BY <1>3, <1>4
    <2>2. Position = s + 1 /\ s + 11 + t < l
      BY <1>1, <1>3, <2>1
    <2>3. Position + (9 + t) <= l
      BY ONLY <2>2, s \in Nat, t \in Nat, l \in Nat, SMT
    <2> QED
      BY ONLY <2>1, <2>3, Zenon DEF Blocks!Has
  <1>7. TableSize(flags) = table
    <2>1. PICK n \in 0 .. 7 : n = flags % 8
      <3>1. \A f \in 0 .. 255 : f % 8 \in 0 .. 7
        OBVIOUS
      <3> QED
        BY <1>3, <3>1 DEF Byte
    <2>2. TableSizes[n + 1] = 3 * <<2, 4, 8, 16, 32, 64, 128, 256>>[n + 1]
      BY <2>1 DEF TableSizes
    <2> QED
      BY <2>1, <2>2 DEF TableSize, TableOf, Format!Table
  <1> DEFINE W(p) == Format!Octet(file.bytes, p) + 256 * Format!Octet(file.bytes, p + 1)
  <1>8. /\ image_info' = IF imagecount = 0
                         THEN [width |-> W(b.start + 5), height |-> W(b.start + 7)]
                         ELSE image_info
        /\ \/ Blocks!EndsBefore(table + 9)
           \/ Blocks!Pass(table + 9, "code_size")
    <2>1. /\ Blocks!ByteAt(4) = {Format!Octet(file.bytes, b.start + 5)}
          /\ Blocks!ByteAt(5) = {Format!Octet(file.bytes, (b.start + 5) + 1)}
          /\ Blocks!ByteAt(6) = {Format!Octet(file.bytes, b.start + 7)}
          /\ Blocks!ByteAt(7) = {Format!Octet(file.bytes, (b.start + 7) + 1)}
          /\ Blocks!ByteAt(8) = {flags}
      <3>1. /\ b.start + 4 + 1 = b.start + 5 /\ b.start + 5 + 1 = (b.start + 5) + 1
            /\ b.start + 6 + 1 = b.start + 7 /\ b.start + 7 + 1 = (b.start + 7) + 1
            /\ b.start + 8 + 1 = b.start + 9
        BY <1>3
      <3> HIDE DEF b
      <3>2. /\ 4 \in 4 .. 8 /\ 5 \in 4 .. 8 /\ 6 \in 4 .. 8 /\ 7 \in 4 .. 8
            /\ 8 \in 4 .. 8
        OBVIOUS
      <3> QED
        BY <1>5, <3>1, <3>2, Zenon
    <2>2. ~Blocks!EndsBefore(9)
      BY <1>3, <1>4, <1>6 DEF Blocks!EndsBefore, Blocks!Has, Reading
    <2> QED
      BY <1>7, <2>1, <2>2 DEF Blocks!ImageHead
  <1>9. at' = "code_size" /\ Position' = b.start + 10 + table
    <2>1. Blocks!Has(table + 9)
      BY <1>3, <1>6 DEF Blocks!Has, Reading
    <2>2. at' = "code_size" /\ Position' = Position + (table + 9)
      BY <1>8, <2>1 DEF Blocks!EndsBefore, Blocks!Pass
    <2>3. PICK s \in Nat, t \in Nat : s = b.start /\ t = table
      BY <1>3
    <2>4. s + 1 + (t + 9) = s + 10 + t
      BY ONLY s \in Nat, t \in Nat, SMT
    <2> QED
      BY ONLY <1>1, <2>2, <2>3, <2>4, Zenon
  <1>10. FirstSize'
    <2>1. CASE imagecount = 0
      <3>1. b.image = 0 /\ file.images[b.image + 1] = Format!ImageSize(file.bytes, b)
        BY <1>1, <2>1, BlockLaid DEF Reading, Reads
      <3>2. Format!ImageSize(file.bytes, b) = <<W(b.start + 5), W(b.start + 7)>>
        BY DEF Format!ImageSize, Format!Word
      <3> QED
        BY <1>8, <2>1, <3>1, <3>2 DEF FirstSize, Reading
    <2>2. CASE imagecount # 0
      <3>1. image_info' = image_info
        BY <1>8, <2>2
      <3> QED
        BY <2>2, <3>1 DEF Reading, Reads, FirstSize
    <2> QED
      BY <2>1, <2>2
  <1>11. Reads(i)'
    BY <1>1, <1>2, <1>9, <1>10 DEF Reads, Reading, TableOf
  <1> QED
    BY <1>9, <1>11 DEF StaysRight, Reading

LEMMA CodeSizeRight ==
  ASSUME NEW i, Reading(i), Blocks!CodeSize
  PROVE  StaysRight
  <1> DEFINE b == file.blocks[i]
             table == TableOf(b)
             size == Format!Octet(file.bytes, b.start + 10 + table)
  <1>1. /\ i \in DOMAIN file.blocks /\ WholeGif /\ at = "code_size"
        /\ b.kind = "image" /\ Position = b.start + 10 + table
    BY DEF Reading, Reads, Blocks!CodeSize
  <1>2. UNCHANGED <<imagecount, image_info>>
    BY DEF Blocks!CodeSize
  <1>3. /\ b.start \in Nat /\ 1 \in DOMAIN b.places /\ table \in Nat
        /\ b.places[1] = b.start + 11 + table /\ b.places[1] < Len(file.bytes)
    BY <1>1, FrontLaid, TableLaid
  <1>4. Len(file.bytes) \in Nat
    BY HeaderAssumption DEF HeaderAssumption, Reading, WholeGif
  <1>5. size \in 2 .. 8
    BY <1>1, BlockLaid DEF Format!WellFormed, Format!Image, TableOf
  <1> DEFINE p == b.start + 10 + table
  <1>6. Blocks!ByteAt(0) = {size} /\ Blocks!Has(1)
    <2>1. p \in Nat /\ p < Len(file.bytes)
      <3>1. PICK s \in Nat, t \in Nat, l \in Nat :
               s = b.start /\ t = table /\ l = Len(file.bytes)
        BY <1>3, <1>4
      <3>2. s + 11 + t < l
        BY <1>3, <3>1
      <3>3. s + 10 + t \in Nat /\ s + 10 + t < l
        BY ONLY <3>2, s \in Nat, t \in Nat, l \in Nat, SMT
      <3> QED
        BY ONLY <3>1, <3>3, Zenon
    <2>2. Position \in Int /\ Position = p
      BY <1>1 DEF Reading
    <2>3. Position + 0 = p /\ 0 \in Nat /\ 0 + 1 = 1
      BY ONLY <2>2, SMT
    <2> HIDE DEF p
    <2>4. Blocks!ByteAt(0) = {Format!Octet(file.bytes, p)} /\ Blocks!Has(0 + 1)
      BY ONLY <2>1, <2>2, <2>3, ByteLaid, Zenon
    <2> QED
      BY <2>3, <2>4 DEF p
  <1> HIDE DEF p
  <1>7. at' = "data" /\ Position' = b.places[1]
    <2>1. Blocks!Pass(1, "data")
      BY <1>5, <1>6 DEF Blocks!CodeSize, Blocks!EndsBefore
    <2> QED
      BY <1>1, <1>3, <2>1 DEF Blocks!Pass
  <1>8. Reads(i)'
    BY <1>1, <1>2, <1>3, <1>7 DEF Reads, Reading, FirstSize
  <1> QED
    BY <1>7, <1>8 DEF StaysRight, Reading

LEMMA DataRight ==
  ASSUME NEW i, Reading(i), Blocks!DataPiece
  PROVE  StaysRight
  <1> DEFINE b == file.blocks[i]
             next == file.blocks[i + 1]
  <1>1. /\ i \in DOMAIN file.blocks /\ WholeGif /\ at = "data"
        /\ b.kind = "image" /\ FirstSize
        /\ b.image = imagecount /\ imagecount \in 0 .. 1
    BY DEF Reading, Reads, Blocks!DataPiece
  <1>2. UNCHANGED image_info
    BY DEF Blocks!DataPiece
  <1>3. PICK k \in DOMAIN b.places : Position = b.places[k]
    BY <1>1 DEF Reading, Reads
  <1> DEFINE n == Format!Octet(file.bytes, b.places[k])
  <1>4. /\ b.places[k] \in Nat /\ b.places[k] < Len(file.bytes) /\ n \in Nat
        /\ n > 0 => /\ k + 1 \in DOMAIN b.places
                    /\ b.places[k + 1] = b.places[k] + 1 + n
        /\ n = 0 => next.start = b.places[k] + 1
    BY <1>1, PlaceLaid
  <1>5. Len(file.bytes) \in Nat
    BY HeaderAssumption DEF HeaderAssumption, Reading, WholeGif
  <1>6. Blocks!ByteAt(0) = {n} /\ Blocks!Has(1)
    BY <1>3, <1>4, <1>5, ByteLaid DEF Reading
  <1>7. \/ n > 0 /\ Blocks!Pass(1 + n, "data") /\ UNCHANGED imagecount
        \/ /\ n = 0 /\ imagecount = 0
           /\ Blocks!Pass(1, "block") /\ imagecount' = 1
        \/ n = 0 /\ imagecount = 1 /\ Blocks!Stop("agif")
    BY <1>6 DEF Blocks!DataPiece, Blocks!EndsBefore
  <1>8. CASE n > 0
    <2>1. at' = "data" /\ Position' = b.places[k + 1] /\ UNCHANGED imagecount
      BY <1>3, <1>4, <1>7, <1>8 DEF Blocks!Pass
    <2>2. Reads(i)'
      BY <1>1, <1>2, <1>4, <1>8, <2>1 DEF Reads, Reading, FirstSize
    <2> QED
      BY <2>1, <2>2 DEF StaysRight, Reading
  <1>9. CASE n = 0 /\ imagecount = 0
    <2>1. at' = "block" /\ Position' = next.start /\ imagecount' = 1
      BY <1>3, <1>4, <1>7, <1>9 DEF Blocks!Pass
    <2>2. next.image = 1 /\ i + 1 \in DOMAIN file.blocks
      BY <1>1, <1>9, BlockLaid DEF Format!Follows
    <2>3. Reads(i + 1)'
      BY <1>1, <1>2, <2>1, <2>2 DEF Reads, Reading, FirstSize
    <2> QED
      BY <2>1, <2>2, <2>3 DEF StaysRight, Reading
  <1>10. CASE n = 0 /\ imagecount = 1
    <2>1. at' = "done" /\ image_type' = "agif"
      BY <1>7, <1>10 DEF Blocks!Stop
    <2>2. b.image < Len(file.images)
      BY <1>1, BlockLaid
    <2>3. Len(file.images) \in Nat
      BY HeaderAssumption DEF HeaderAssumption, Reading, WholeGif
    <2>4. Len(file.images) > 1
      BY <1>1, <1>10, <2>2, <2>3
    <2> QED
      BY <1>1, <1>2, <2>1, <2>4 DEF StaysRight, HeaderRight, FirstSize, Reading
  <1> QED
    BY <1>1, <1>4, <1>8, <1>9, <1>10

\* A step of the parser of the file itself.
LEMMA BlocksRight ==
  ASSUME WholeGif, OnBlocks, ~misread, at \notin {"open", "done"},
         UNCHANGED file, Position \in Int, Blocks!Next
  PROVE  StaysRight
  <1>1. PICK i \in DOMAIN file.blocks : Reads(i)
    BY DEF OnBlocks
  <1>2. Reading(i)
    BY <1>1 DEF Reading
  <1> QED
    BY <1>2, BlockRight, ExtensionRight, ControlRight, TextsRight, PieceRight,
       ImageRight, CodeSizeRight, DataRight
    DEF Blocks!Next

LEMMA RightStep ==
  ASSUME StreamInv, Reach, Follow, OnBlocks, RoomForBlocks, HeaderStep,
         UNCHANGED file
  PROVE  OnBlocks'
  <1> SUFFICES ASSUME WholeGif', ~misread'
               PROVE  IF at' = "open" THEN imagecount' = 0
                      ELSE IF at' = "done" THEN HeaderRight'
                      ELSE \E i \in DOMAIN file'.blocks : Reads(i)'
    BY DEF OnBlocks
  <1>1. WholeGif
    BY DEF WholeGif
  <1>2. CASE OpenFile
    <2>1. /\ at = "open" /\ at' = "block" /\ UNCHANGED <<stream, imagecount, misread>>
      BY <1>1, <1>2 DEF OpenFile, WholeGif
    <2>2. Position' = 0 /\ imagecount = 0
      BY <2>1 DEF Follow, NoStream, Position
    <2>3. Format!WholeGif(file.bytes, file.images, file.blocks)
      BY <1>1, WholeAssumption DEF WholeAssumption, WholeGif
    <2>4. /\ 1 \in DOMAIN file.blocks
          /\ file.blocks[1].start = 0 /\ file.blocks[1].image = 0
      BY <2>3 DEF Format!WholeGif
    <2>5. Reads(1)'
      BY <2>1, <2>2, <2>4 DEF Reads
    <2> QED
      BY <2>1, <2>4, <2>5
  <1>3. CASE ~OpenFile
    <2>1. at' # "open" /\ (misread => misread')
      <3>1. at' # "open"
        BY <1>3
        DEF HeaderStep, NextBlock, ReadExtension, ReadControl, ReadTexts,
            ReadLength, ReadImage, ReadCodeSize, ReadData, Finish, ReadOn
      <3>2. CASE ReadLength
        BY <3>1, <3>2, Zenon DEF ReadLength
      <3>3. CASE ~ReadLength
        <4>1. UNCHANGED misread
          BY <1>3, <3>3
          DEF HeaderStep, NextBlock, ReadExtension, ReadControl, ReadTexts,
              ReadImage, ReadCodeSize, ReadData, Finish
        <4> QED
          BY <3>1, <4>1
      <3> QED
        BY <3>2, <3>3
    <2>2. at \notin {"open", "done"}
      BY <1>3
      DEF HeaderStep, NextBlock, ReadExtension, ReadControl, ReadTexts,
          ReadLength, ReadImage, ReadCodeSize, ReadData
    <2>3. Blocks!Next
      BY <2>1, <2>2, StepFollows DEF Follows
    <2>4. Position \in Int
      BY WhereIsInt DEF StreamInv, Where, Position
    <2>5. StaysRight
      BY <1>1, <2>1, <2>2, <2>3, <2>4, BlocksRight
    <2> QED
      BY <2>1, <2>5 DEF StaysRight
  <1> QED
    BY <1>2, <1>3

LEMMA RightStutter ==
  ASSUME OnBlocks, UNCHANGED <<file, reader>>
  PROVE  OnBlocks'
  <1>1. /\ UNCHANGED <<file, at, imagecount, image_info, image_type, misread>>
        /\ UNCHANGED Position
    BY DEF reader, Position
  <1>2. HeaderRight <=> HeaderRight'
    BY <1>1 DEF HeaderRight
  <1>3. ASSUME NEW i PROVE Reads(i) <=> Reads(i)'
    BY <1>1 DEF Reads, FirstSize, TableOf
  <1>4. WholeGif <=> WholeGif'
    BY <1>1 DEF WholeGif
  <1> QED
    BY <1>1, <1>2, <1>3, <1>4, Zenon DEF OnBlocks

LEMMA RightHolds == OnBlocks /\ file \in Files => HeaderRight
  BY DEF OnBlocks, WholeGif, HeaderRight

\* With a buffer of more than twice its largest block: of every whole GIF, of
\* whatever blocks and wherever they lie in the buffer, the images are counted
\* right and the first one gives the size, unless a length was read from behind
\* the end of the buffer.
THEOREM HeaderFindsRight ==
  ASSUME RoomForBlocks
  PROVE  HeaderSpec => []HeaderRight
  <1> DEFINE Inv == HeaderReach /\ Follow /\ OnBlocks
  <1>1. HeaderInit => Inv
    BY StreamInvInit, ReachInit, FollowStart
    DEF HeaderReach, HeaderInit, HeaderStart, OnBlocks
  <1>2. Inv /\ [HeaderNext]_<<file, reader>> => Inv'
    <2> SUFFICES ASSUME Inv, [HeaderNext]_<<file, reader>> PROVE Inv'
      OBVIOUS
    <2>1. CASE HeaderNext
      BY <2>1, StreamInvStep, StepReaches, StepFollows, RightStep
      DEF HeaderNext, HeaderReach
    <2>2. CASE UNCHANGED <<file, reader>>
      BY <2>2, FollowStutter, RightStutter
      DEF reader, HeaderReach, StreamInv, StreamCoherent, Coherent, Reach,
          Within, Over
    <2> QED
      BY <2>1, <2>2
  <1>3. Inv => HeaderRight
    BY RightHolds DEF HeaderReach, StreamInv
  <1> QED
    BY <1>1, <1>2, <1>3, PTL DEF HeaderSpec
=============================================================================
