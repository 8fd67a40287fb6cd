----------------------------- MODULE GifCreator -----------------------------
(***************************************************************************)
(* The gif_creator tool: tools/gifCreator.ts records frames of a tab, and  *)
(* the encoder in the offscreen document (offscreen/gifEncoder.ts) writes  *)
(* them as a GIF.  A reader of GIFs follows the encoder code for code, with*)
(* a table and a code size of its own.                                     *)
(*                                                                         *)
(* The pixels of a frame come one by one as they are encoded, each an index*)
(* into the frame's palette.                                               *)
(***************************************************************************)
EXTENDS Naturals, Sequences

CONSTANTS
  MinCodeSize,   \* 8 for 256 colours
  MaxBits,       \* 12 for 4096 codes, maxCodeLimit
  Palettes,      \* what quantize finds in a frame
  MaxFrames,     \* MAX_FRAMES
  Unset

VARIABLES
  gifSession,    \* frames captured, or Unset
  encoding,      \* "no", "frame" between two of them, or "pixels"
  framesLeft,    \* frames to encode
  global,        \* the palette of the first frame
  palette,       \* of the frame at work, and what the reader takes it for
  grown,         \* the strings added to codeTable; the i-th has the code eoiCode + i
  codeSize,
  buffer,        \* the string that is yet to be written
  readTable,     \* the reader's strings
  readSize,      \* and its code size
  readLast,      \* the string it has read last
  sent           \* the string written last, the sizes of its code and of a clear code
                 \* after it, and what the reader made of them

encoderVars == <<global, palette, grown, codeSize, buffer>>
readerVars == <<readTable, readSize, readLast, sent>>
vars == <<gifSession, encoding, framesLeft, encoderVars, readerVars>>

twoTo[n \in 0..MaxBits] == IF n = 0 THEN 1 ELSE 2 * twoTo[n - 1]   \* 1 << n
clearCode == twoTo[MinCodeSize]
eoiCode == clearCode + 1
maxCodeLimit == twoTo[MaxBits]
Colours == 0..(clearCode - 1)

Match == [text |-> <<>>, read |-> <<>>, sizes |-> <<0, 0>>, readSizes |-> <<0, 0>>]

TypeOK ==
  /\ gifSession \in {Unset} \union 0..MaxFrames /\ encoding \in {"no", "frame", "pixels"}
  /\ framesLeft \in 0..MaxFrames
  /\ global \in Palettes \union {Unset} /\ palette \in (Palettes \union {Unset}) \X (Palettes \union {Unset})
  /\ codeSize \in (MinCodeSize + 1)..MaxBits /\ readSize \in (MinCodeSize + 1)..MaxBits
  /\ Len(grown) <= maxCodeLimit - eoiCode - 1 /\ Len(readTable) <= Len(grown)

Init ==
  /\ gifSession = Unset /\ encoding = "no" /\ framesLeft = 0
  /\ global = Unset /\ palette = <<Unset, Unset>>
  /\ grown = <<>> /\ codeSize = MinCodeSize + 1 /\ buffer = <<>>
  /\ readTable = <<>> /\ readSize = MinCodeSize + 1 /\ readLast = <<>> /\ sent = Match

-----------------------------------------------------------------------------
(* Recording. *)

Start ==
  /\ encoding = "no" /\ gifSession' \in {0, Unset}   \* the session is gone if start fails
  /\ UNCHANGED <<encoding, framesLeft, encoderVars, readerVars>>

Screenshot ==
  /\ encoding = "no" /\ gifSession # Unset /\ gifSession < MaxFrames
  /\ gifSession' = gifSession + 1
  /\ UNCHANGED <<encoding, framesLeft, encoderVars, readerVars>>

(* Without frames there is nothing to encode; the session ends all the same. *)
Stop ==
  /\ encoding = "no" /\ gifSession # Unset
  /\ IF gifSession = 0 THEN UNCHANGED <<encoding, framesLeft>>
                       ELSE encoding' = "frame" /\ framesLeft' = gifSession
  /\ gifSession' = Unset /\ global' = Unset
  /\ UNCHANGED <<palette, grown, codeSize, buffer, readerVars>>

WorkerStops ==
  /\ encoding = "no" /\ gifSession' = Unset
  /\ UNCHANGED <<encoding, framesLeft, encoderVars, readerVars>>

-----------------------------------------------------------------------------
(* Encoding. *)

(* The table is as new, for the encoder and, by the clear code, the reader. *)
Fresh ==
  /\ grown' = <<>> /\ codeSize' = MinCodeSize + 1
  /\ readTable' = <<>> /\ readSize' = MinCodeSize + 1 /\ readLast' = <<>>

(* The first frame's palette is the global one; a frame with another one has *)
(* a local colour table, which the reader prefers.                           *)
Frame(p, colour) ==
  /\ encoding = "frame" /\ framesLeft > 0 /\ encoding' = "pixels"
  /\ global' = IF global = Unset THEN p ELSE global
  /\ palette' = <<p, IF p # global' THEN p ELSE global'>>
  /\ Fresh /\ buffer' = <<colour>> /\ sent' = Match
  /\ UNCHANGED <<gifSession, framesLeft>>

Known(text) == Len(text) = 1 \/ \E i \in 1..Len(grown) : grown[i] = text
Code(text) ==
  IF Len(text) = 1 THEN text[1] ELSE eoiCode + (CHOOSE i \in 1..Len(grown) : grown[i] = text)
nextCode == eoiCode + 1 + Len(grown)

(* What the reader makes of a code: a colour, a string that it has, or the   *)
(* one it is about to add; anything else is an error.                        *)
Reading(code) ==
  CASE code < clearCode -> <<code>>
    [] code > eoiCode /\ code - eoiCode <= Len(readTable) -> readTable[code - eoiCode]
    [] code - eoiCode = Len(readTable) + 1 /\ readLast # <<>> -> Append(readLast, readLast[1])
    [] OTHER -> <<>>

(* The reader reads a code in its own size, and adds a string. *)
ReaderAfter(code) ==
  LET text == Reading(code)
      adds == readLast # <<>> /\ text # <<>> /\ eoiCode + 1 + Len(readTable) < maxCodeLimit
      table == IF adds THEN Append(readTable, Append(readLast, text[1])) ELSE readTable
      full == eoiCode + 1 + Len(table) = twoTo[readSize] IN
  [text |-> text, table |-> table,
   size |-> IF full /\ readSize < MaxBits THEN readSize + 1 ELSE readSize]

(* What is sent with the buffer's code, and a clear code after it, if any. *)
Send(clears) ==
  sent' = [text |-> buffer, read |-> Reading(Code(buffer)), sizes |-> <<codeSize, codeSize>>,
           readSizes |-> <<readSize, IF clears THEN ReaderAfter(Code(buffer)).size ELSE codeSize>>]

Receive(code) ==
  LET reader == ReaderAfter(code) IN
  readTable' = reader.table /\ readLast' = reader.text /\ readSize' = reader.size

(* Slip: the size of the codes grows one entry late. *)
Grow_late(table) ==
  IF eoiCode + Len(table) > twoTo[codeSize] /\ codeSize < MaxBits THEN codeSize + 1 ELSE codeSize

(* The size after an entry was added: nextCode is past what the size holds.  *)
Grow(table) ==
  IF eoiCode + 1 + Len(table) > twoTo[codeSize] /\ codeSize < MaxBits THEN codeSize + 1 ELSE codeSize

(* The next pixel. *)
Pixel(colour) ==
  LET combined == Append(buffer, colour) IN
  /\ encoding = "pixels"
  /\ IF Known(combined)
     THEN buffer' = combined /\ UNCHANGED <<grown, codeSize, readerVars>>
     ELSE /\ buffer' = <<colour>>
          /\ IF nextCode < maxCodeLimit
             THEN /\ grown' = Append(grown, combined) /\ codeSize' = Grow(grown')
                  /\ Receive(Code(buffer)) /\ Send(FALSE)
             ELSE Fresh /\ Send(TRUE)
  /\ UNCHANGED <<gifSession, encoding, framesLeft, global, palette>>

(* The remaining string, and the end of the frame; the reader has its pixels *)
(* and needs no end code.                                                    *)
FrameEnds ==
  /\ encoding = "pixels"
  /\ Receive(Code(buffer)) /\ Send(FALSE) /\ buffer' = <<>>
  /\ framesLeft' = framesLeft - 1
  /\ encoding' = IF framesLeft = 1 THEN "no" ELSE "frame"
  /\ UNCHANGED <<gifSession, global, palette, grown, codeSize>>

(* A frame cannot be loaded, or the offscreen document is gone. *)
EncodeFails ==
  /\ encoding = "frame" /\ encoding' = "no" /\ framesLeft' = 0
  /\ UNCHANGED <<gifSession, encoderVars, readerVars>>

Next ==
  \/ Start \/ Screenshot \/ Stop \/ WorkerStops \/ FrameEnds \/ EncodeFails
  \/ \E colour \in Colours : Pixel(colour) \/ \E p \in Palettes : Frame(p, colour)

Spec == Init /\ [][Next]_vars

-----------------------------------------------------------------------------
(* A reader gets the strings that were written, each code in the size it was *)
(* written in and the pixels by the palette they were found in: over every   *)
(* growth of the codes and every time the table is full.                     *)
ReadsBack ==
  /\ sent.read = sent.text /\ sent.readSizes = sent.sizes
  /\ palette[2] = palette[1]

=============================================================================
