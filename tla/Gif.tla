--------------------------------- MODULE Gif ---------------------------------
(***************************************************************************)
(* The compression of GIF images (gui/gifencod.c): codes for strings of     *)
(* pixels, which become longer as the table of strings grows, are packed     *)
(* into bytes, and the bytes into blocks.  The tree of nodes is a function   *)
(* from a code and a pixel to the code of the longer string.  The buffer     *)
(* keeps what was written to it before, as bytes are only added to.          *)
(***************************************************************************)
EXTENDS Integers, Sequences, FiniteSets, TLC
LOCAL INSTANCE SequencesExt
LOCAL INSTANCE FiniteSetsExt

CONSTANTS
  Depth,      \* bits of a pixel (8)
  MaxCode,    \* codes are below this (0x1000)
  ByteBits,   \* bits of a byte (8)
  BLOKLEN,    \* bytes of a block (255)
  Image       \* images: sequences of pixels

ASSUME GifConstants ==
  /\ Depth \in Nat \ {0, 1} /\ BLOKLEN \in Nat /\ BLOKLEN > 7
  /\ MaxCode > 2^Depth + 2 /\ ByteBits \in Nat \ {0}
  /\ \A p \in Image : p # <<>> /\ \A i \in DOMAIN p : p[i] \in 0..2^Depth - 1

VARIABLES
  raster,     \* what is to be written
  blocks     \* the blocks of the file, of which there is none before it is written

gifVars == <<raster, blocks>>

cc == 2^Depth     \* the code that clears the table
eoi == cc + 1     \* the code of the end
FirstLength == Depth + 1
Root == -1        \* the node of the empty string

\* ClearTree: strings of one pixel
ClearTree == [s \in {Root} \X (0..cc - 1) |-> s[2]]

BufferSize == BLOKLEN + 10

-----------------------------------------------------------------------------
\* AddCodeToBuffer: the bits of a code, the lowest first, are added to what is left
\* of the byte at pos; each further byte begins with 0
AddCodeToBuffer(e, code, n) ==
  LET add[k \in 0..n] ==   \* with k bits of the code still to be added
        IF k = n THEN [buffer |-> e.buffer, pos |-> e.pos, need |-> e.need]
        ELSE LET b == add[k + 1]
                 bit == (code \div 2^(n - k - 1)) % 2
                 now == [b.buffer EXCEPT ![b.pos] = (@ + bit * 2^(ByteBits - b.need)) % 2^ByteBits]
             IN IF b.need > 1 THEN [b EXCEPT !.buffer = now, !.need = @ - 1]
                ELSE [buffer |-> [now EXCEPT ![b.pos + 1] = 0], pos |-> b.pos + 1,
                      need |-> ByteBits]
  IN add[0] @@ e

\* The padding at the end
PadBuffer(e) ==
  IF e.need = ByteBits THEN e
  ELSE [e EXCEPT !.pos = @ + 1, !.buffer[e.pos + 1] = 0, !.need = ByteBits]

\* A block of n bytes is written when there are more than that; the next `moved` bytes
\* are moved to the front
WriteBlock(e, n, moved) ==
  IF e.pos <= n THEN e
  ELSE [e EXCEPT !.blocks = Append(@, [i \in 1..n |-> e.buffer[i - 1]]),
                 !.buffer = [i \in DOMAIN @ |-> IF i < moved THEN @[n + i] ELSE @[i]],
                 !.pos = @ - n]

\* A string that is longer by a pixel gets the next code
NewString(e, p) ==
  [e EXCEPT !.tree = (<<e.node, p>> :> e.next) @@ @,
            !.cLength = IF e.next = 2^@ THEN @ + 1 ELSE @, !.next = @ + 1]

\* A pixel: the string goes on, or its code is written and another one begins
EncodePixel(e, p) ==
  IF <<e.node, p>> \in DOMAIN e.tree THEN [e EXCEPT !.node = e.tree[<<e.node, p>>]]
  ELSE
    LET out == WriteBlock(AddCodeToBuffer(e, e.node, e.cLength), BLOKLEN, 4)
        new == NewString(out, p)
        full == new.next = MaxCode
        clear == WriteBlock(AddCodeToBuffer([new EXCEPT !.tree = ClearTree], cc, new.cLength),
                            BLOKLEN, 4)
        next == IF full THEN [clear EXCEPT !.next = cc + 2, !.cLength = FirstLength] ELSE new
    IN [next EXCEPT !.node = p]

Begin ==
  LET e == [node |-> Root, tree |-> ClearTree, next |-> cc + 2, cLength |-> FirstLength,
            buffer |-> [i \in 0..BufferSize |-> 0], pos |-> 0, need |-> ByteBits, blocks |-> <<>>]
  IN AddCodeToBuffer(e, cc, FirstLength)

\* Before the last two codes a shorter block is written, and five bytes are moved
LastCode(e) == AddCodeToBuffer(e, e.node, e.cLength)
Finish(e) ==
  LET last == WriteBlock(LastCode(e), BLOKLEN - 3, 5)
      end == PadBuffer(AddCodeToBuffer(last, eoi, e.cLength))
  IN Append(end.blocks, [i \in 1..end.pos |-> end.buffer[i - 1]])

Encoded == FoldLeft(EncodePixel, Begin, raster)

GifEncode == blocks = <<>> /\ blocks' = Finish(Encoded) /\ UNCHANGED raster

GifInit == raster \in Image /\ blocks = <<>>
GifNext == GifEncode

-----------------------------------------------------------------------------
(***************************************************************************)
(* What a reader of GIF images makes of the blocks: codes, the lowest bits   *)
(* first; strings of pixels, of which each but the first after a clear code  *)
(* enters a longer one into the table, the one before it with its own first  *)
(* pixel; codes become longer when the table is as long as they can tell.    *)
(***************************************************************************)
BitList(bytes) ==
  [i \in 0..(Len(bytes) * ByteBits) - 1 |->
    (bytes[(i \div ByteBits) + 1] \div 2^(i % ByteBits)) % 2]

CodeAt(bits, at, n) ==
  FoldLeft(LAMBDA v, i : v + bits[at + i - 1] * 2^(i - 1), 0, [i \in 1..n |-> i])

NoString == <<>>

\* A code more: r holds the place, the length of codes, the table, the last string
ReadCode(bits, r) ==
  LET code == CodeAt(bits, r.at, r.length)
      known == code < Len(r.table)
      first == IF known THEN r.table[code + 1][1] ELSE r.last[1]
      string == IF known THEN r.table[code + 1] ELSE Append(r.last, first)
      table == IF r.last = NoString \/ Len(r.table) = MaxCode THEN r.table
               ELSE Append(r.table, Append(r.last, first))
      length == IF Len(table) = 2^r.length /\ Len(table) < MaxCode THEN r.length + 1
                ELSE r.length
      at == r.at + r.length
  IN IF r.done \/ at > Cardinality(DOMAIN bits) THEN [r EXCEPT !.done = TRUE]
     ELSE CASE code = cc -> [r EXCEPT !.at = at, !.length = FirstLength, !.last = NoString,
                                      !.table = SubSeq(@, 1, cc + 2)]
            [] code = eoi -> [r EXCEPT !.done = TRUE]
            [] code > Len(r.table) \/ (~known /\ r.last = NoString) ->
                 [r EXCEPT !.done = TRUE, !.pixels = <<"error">>]
            [] OTHER -> [r EXCEPT !.at = at, !.length = length, !.table = table,
                                  !.last = string, !.pixels = @ \o string]

Decoded(bytes) ==
  LET bits == BitList(bytes)
      start == [at |-> 0, length |-> FirstLength, last |-> NoString, done |-> FALSE,
                pixels |-> <<>>, table |-> [i \in 1..cc + 2 |-> <<i - 1>>]]
  IN FoldLeft(LAMBDA r, i : ReadCode(bits, r), start,
              [i \in 1..(Cardinality(DOMAIN bits) \div FirstLength) + 1 |-> i]).pixels

GifTypeOK == raster \in Seq(0..cc - 1)

\* The image that a reader of the file sees is the one that was written, wherever
\* blocks end and codes become longer or begin anew (gui/gifencod.c:154-250).
GifShowsImage == blocks # <<>> => Decoded(FlattenSeq(blocks)) = raster

\* The same, but for images whose last code but one fills a block to the last byte and
\* whose last code reaches two bytes further, the last of which is not moved
\* (gui/gifencod.c:228-237).
LastByteMoved == LastCode(Encoded).pos < BLOKLEN + 2
GifSound ==
  blocks # <<>> =>
    /\ \A i \in DOMAIN blocks : Len(blocks[i]) \in 1..BLOKLEN
    /\ LastByteMoved => GifShowsImage
=============================================================================
