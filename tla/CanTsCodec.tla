----------------------------- MODULE CanTsCodec -----------------------------
(***************************************************************************)
(* The encodings of CAN-TS: the fields of the 29-bit identifier, the       *)
(* fields of a command, the bitmaps of received or wanted blocks, and the  *)
(* division of a payload into blocks.                                      *)
(*                                                                         *)
(* Masking a field and shifting it are arithmetic here: the fields do not  *)
(* overlap, so their union is a sum.  A byte of a bitmap is the set of the *)
(* numbers of its bits that are set.                                       *)
(***************************************************************************)
EXTENDS Integers, Sequences

BlockBytes == 8  \* CAN_FRAME_MAX_DATA

(* The `width' low bits of v, where 2^width = size; and the field of that  *)
(* size that starts at bit `shift' of v, where 2^shift = unit.             *)
Low(v, size)         == v % size
Field(v, unit, size) == (v \div unit) % size

----------------------------------------------------------------------------
(* The identifier: to (8 bits), type (3), from (8), command (10)           *)

Header == [to : 0 .. 255, type : 0 .. 7, from : 0 .. 255, command : 0 .. 1023]

Encode(h) ==
    2097152 * Low(h.to, 256) + 262144 * Low(h.type, 8)
        + 1024 * Low(h.from, 256) + Low(h.command, 1024)

Decode(id) ==
    [to      |-> Field(id, 2097152, 256),
     type    |-> Field(id, 262144, 8),
     from    |-> Field(id, 1024, 256),
     command |-> Field(id, 1, 1024)]

----------------------------------------------------------------------------
(* The command of telecommands and telemetry: kind (2 bits), channel (8)   *)

MakeTcTmCommand(kind, channel) == 256 * kind + channel
GetTcTmKind(command)           == Field(command, 256, 4)
GetChannel(command)            == Low(command, 256)

(* The command of block transfers: type (3 bits), done (1), block (6)      *)

Ack    == 2
Nack   == 4
Report == 7

MakeBlockCommand(type, low6) == 128 * type + Low(low6, 64)
GetBlockType(command)        == Field(command, 128, 8)
GetLow6(command)             == Low(command, 64)

MakeReportCommand(low6, done) ==
    MakeBlockCommand(Report, low6) + (IF done THEN 64 ELSE 0)

GetDone(command)        == Field(command, 64, 2) = 1
AckCommandLow7(command) == Low(command, 128)

----------------------------------------------------------------------------
(* Bitmaps                                                                 *)

Byte == SUBSET (0 .. 7)

BitmapSizeBytes(numBlocks) == (numBlocks + 7) \div 8

(* The blocks 0 .. n - 1, of which those in `received' are.                *)
MakeBitmap(n, received) ==
    [b \in 1 .. BitmapSizeBytes(n) |-> {k \in 0 .. 7 : 8 * (b - 1) + k \in received}]

BitmapBitIsSet(bitmap, i) ==
    i \div 8 < Len(bitmap) /\ i % 8 \in bitmap[i \div 8 + 1]

(* The bitmap with which getBlock() asks for every block: all ones, but    *)
(* for the surplus bits of the last byte.                                  *)
FullBitmap(numBlocks) ==
    [b \in 1 .. BitmapSizeBytes(numBlocks) |->
        IF b = BitmapSizeBytes(numBlocks)
        THEN 0 .. 7 - (8 * BitmapSizeBytes(numBlocks) - numBlocks)
        ELSE 0 .. 7]

----------------------------------------------------------------------------
(* Payloads                                                                *)

NumBlocks(size) == (size + BlockBytes - 1) \div BlockBytes

(* setBlock() divides a payload into blocks, the last one filled up with   *)
(* zeros; the receiver joins them, and so does getBlock() with its own.    *)
Split(data) ==
    [b \in 1 .. NumBlocks(Len(data)) |->
        [j \in 1 .. BlockBytes |->
            LET k == BlockBytes * (b - 1) + j
            IN  IF k <= Len(data) THEN data[k] ELSE 0]]

Join(blocks) ==
    [k \in 1 .. BlockBytes * Len(blocks) |->
        blocks[(k - 1) \div BlockBytes + 1][((k - 1) % BlockBytes) + 1]]
=============================================================================
