----------------------------- MODULE EdgeProofs -----------------------------
(***************************************************************************)
(* Proofs about the two edges of the library.  Below it, what is on the    *)
(* wire and how it gets there: the encodings of CAN-TS and of the kernel's *)
(* frames, for every value of every field and every size of bitmap and     *)
(* payload, and SocketCanInterface, for any number of frames and signals   *)
(* and every interleaving of close() with receive().  Above it, Cannect    *)
(* and the command line application, for any set of signals.               *)
(***************************************************************************)
EXTENDS CanTsCodec, SocketCanFrame, SocketCanInterface, CannectMain,
        SequenceTheorems, FiniteSetTheorems, TLAPS

----------------------------------------------------------------------------
(* The encodings.  These are facts about operators: no behaviour is        *)
(* involved.                                                               *)

(* encode() and decode(): whatever the four fields hold, the identifier    *)
(* fits the 29 bits of an extended CAN frame, and decoding it gives the    *)
(* fields back.                                                            *)
THEOREM HeaderSurvives ==
    ASSUME NEW h \in Header
    PROVE  /\ Encode(h) \in Nat /\ Encode(h) <= 536870911
           /\ Decode(Encode(h)) = h
<1>1. /\ h.to \in Nat /\ h.to <= 255 /\ h.type \in Nat /\ h.type <= 7
      /\ h.from \in Nat /\ h.from <= 255 /\ h.command \in Nat /\ h.command <= 1023
  BY SMT DEF Header
<1>2. /\ Low(h.to, 256) = h.to /\ Low(h.type, 8) = h.type
      /\ Low(h.from, 256) = h.from /\ Low(h.command, 1024) = h.command
  BY <1>1, SMT DEF Low
<1>3. Encode(h) = 2097152 * h.to + 262144 * h.type + 1024 * h.from + h.command
  BY <1>2, SMT DEF Encode
<1>5. /\ Encode(h) \in Nat /\ Encode(h) <= 536870911
      /\ Field(Encode(h), 2097152, 256) = h.to
      /\ Field(Encode(h), 262144, 8) = h.type
      /\ Field(Encode(h), 1024, 256) = h.from
      /\ Field(Encode(h), 1, 1024) = h.command
  <2> DEFINE to == h.to  type == h.type  from == h.from  command == h.command
             id == Encode(h)
  <2>1. /\ to \in Nat /\ to <= 255 /\ type \in Nat /\ type <= 7
        /\ from \in Nat /\ from <= 255 /\ command \in Nat /\ command <= 1023
        /\ id = 2097152 * to + 262144 * type + 1024 * from + command
    BY <1>1, <1>3, SMT
  <2> HIDE DEF to, type, from, command, id
  <2>2. id \in Nat /\ id <= 536870911
    BY <2>1, SMT
  <2>3. id \div 2097152 = to
    BY <2>1, <2>2, SMT
  <2>4. id \div 262144 = 8 * to + type
    BY <2>1, <2>2, SMT
  <2>5. id \div 1024 = 2048 * to + 256 * type + from
    BY <2>1, <2>2, SMT
  <2>6. id \div 1 = id
    BY <2>1, <2>2, SMT
  <2>7. /\ (id \div 2097152) % 256 = to
        /\ (id \div 262144) % 8 = type
        /\ (id \div 1024) % 256 = from
        /\ (id \div 1) % 1024 = command
    BY <2>1, <2>2, <2>3, <2>4, <2>5, <2>6, SMT
  <2> QED
    BY <2>2, <2>7, SMT DEF to, type, from, command, id, Field
<1>6. h = [to |-> h.to, type |-> h.type, from |-> h.from, command |-> h.command]
  BY SMT DEF Header
<1>7. Decode(Encode(h)) = h
  BY <1>5, <1>6, SMT DEF Decode
<1> QED
  BY <1>5, <1>7, SMT

(* The answer to a block frame, ackBlock() and nackBlock(): whatever the   *)
(* command of the frame was, the answer has the type it was made with and  *)
(* names the block that the frame named.                                   *)
THEOREM AnswerEchoesBlock ==
    ASSUME NEW command \in 0 .. 1023, NEW type \in 0 .. 7
    PROVE  LET answer == MakeBlockCommand(type, AckCommandLow7(command)) IN
           /\ GetBlockType(answer) = type
           /\ GetLow6(answer) = GetLow6(command)
           /\ ~GetDone(answer)
  BY DEF MakeBlockCommand, AckCommandLow7, GetBlockType, GetLow6, GetDone, Low, Field

(* A REPORT: its flag reaches neither its type nor its number.             *)
THEOREM ReportSurvives ==
    ASSUME NEW low6 \in 0 .. 63, NEW done \in BOOLEAN
    PROVE  LET report == MakeReportCommand(low6, done) IN
           /\ report \in 0 .. 1023
           /\ GetBlockType(report) = Report
           /\ GetDone(report) <=> done
           /\ GetLow6(report) = low6
<1> DEFINE flag == IF done THEN 64 ELSE 0
           n    == 896 + low6 + flag
<1>1. MakeReportCommand(low6, done) = n
  BY DEF MakeReportCommand, MakeBlockCommand, Report, Low
<1>2. CASE done
  <2>1. n = 960 + low6
    BY <1>2
  <2>2. /\ n \in 0 .. 1023
        /\ (n \div 128) % 8 = 7
        /\ (n \div 64) % 2 = 1
        /\ n % 64 = low6
    BY <2>1
  <2> QED
    BY <1>1, <1>2, <2>2 DEF Report, GetBlockType, GetDone, GetLow6, Low, Field
<1>3. CASE ~done
  <2>1. n = 896 + low6
    BY <1>3
  <2>2. /\ n \in 0 .. 1023
        /\ (n \div 128) % 8 = 7
        /\ (n \div 64) % 2 = 0
        /\ n % 64 = low6
    BY <2>1
  <2> QED
    BY <1>1, <1>3, <2>2 DEF Report, GetBlockType, GetDone, GetLow6, Low, Field
<1> QED
  BY <1>2, <1>3

(* makeBitmap() and bitmapBitIsSet(): of any number of blocks, just those  *)
(* received have their bit set, and no index beyond the bitmap does.       *)
THEOREM BitmapTells ==
    ASSUME NEW n \in Nat, NEW received \in SUBSET (0 .. n - 1), NEW i \in Nat
    PROVE  BitmapBitIsSet(MakeBitmap(n, received), i) <=> i \in received
<1> DEFINE made == MakeBitmap(n, received)
<1>1. BitmapSizeBytes(n) \in Nat
  BY DEF BitmapSizeBytes
<1>2. Len(made) = BitmapSizeBytes(n)
  BY <1>1 DEF MakeBitmap
<1>3. /\ i \div 8 \in Nat /\ i % 8 \in 0 .. 7
      /\ 8 * ((i \div 8 + 1) - 1) + (i % 8) = i
  OBVIOUS
<1>4. i < n => i \div 8 < BitmapSizeBytes(n)
  BY DEF BitmapSizeBytes
<1>5. ASSUME i \div 8 < BitmapSizeBytes(n)
      PROVE  i % 8 \in made[i \div 8 + 1] <=> i \in received
  <2>1. i \div 8 + 1 \in 1 .. BitmapSizeBytes(n)
    BY <1>1, <1>3, <1>5
  <2>2. made[i \div 8 + 1] = {k \in 0 .. 7 : 8 * ((i \div 8 + 1) - 1) + k \in received}
    BY <2>1 DEF MakeBitmap
  <2> QED
    BY <1>3, <2>2
<1>6. i \in received => i < n
  OBVIOUS
<1> QED
  BY <1>2, <1>4, <1>5, <1>6 DEF BitmapBitIsSet

(* The bitmap with which getBlock() asks for all blocks asks for them and  *)
(* for no other.                                                           *)
THEOREM FullBitmapAsks ==
    ASSUME NEW n \in Nat, NEW i \in Nat
    PROVE  BitmapBitIsSet(FullBitmap(n), i) <=> i < n
<1> DEFINE size == BitmapSizeBytes(n)
           full == FullBitmap(n)
<1>1. size \in Nat /\ 8 * size \in n .. n + 7
  BY DEF BitmapSizeBytes
<1>2. Len(full) = size
  BY <1>1 DEF FullBitmap
<1>3. i \div 8 \in Nat /\ i % 8 \in 0 .. 7 /\ i = 8 * (i \div 8) + (i % 8)
  OBVIOUS
<1>4. ASSUME i \div 8 < size
      PROVE  i % 8 \in full[i \div 8 + 1] <=> i < n
  <2>1. i \div 8 + 1 \in 1 .. size
    BY <1>1, <1>3, <1>4
  <2>2. full[i \div 8 + 1] = IF i \div 8 + 1 = size THEN 0 .. 7 - (8 * size - n) ELSE 0 .. 7
    BY <2>1 DEF FullBitmap
  <2> HIDE DEF size, full
  <2>3. CASE i \div 8 + 1 = size
    <3>1. full[i \div 8 + 1] = 0 .. 7 - (8 * size - n)
      BY <2>2, <2>3
    <3>2. i % 8 <= 7 - (8 * size - n) <=> i < n
      BY <1>1, <1>3, <2>3
    <3> QED
      BY <1>1, <1>3, <3>1, <3>2
  <2>4. CASE i \div 8 + 1 # size
    <3>1. i < n
      BY <1>1, <1>3, <1>4, <2>4
    <3> QED
      BY <1>3, <2>2, <2>4, <3>1
  <2> QED
    BY <2>3, <2>4
<1>5. i < n => i \div 8 < size
  BY <1>1, <1>3
<1>6. i \div 8 < size \/ ~(i \div 8 < size)
  OBVIOUS
<1> QED
  BY <1>2, <1>4, <1>5 DEF BitmapBitIsSet

(* setBlock(): there are enough blocks for the payload, and the last one   *)
(* is needed.                                                              *)
LEMMA EnoughBlocks ==
    ASSUME NEW size \in Nat
    PROVE  /\ NumBlocks(size) \in Nat
           /\ 8 * NumBlocks(size) \in size .. size + 7
  BY DEF NumBlocks, BlockBytes

(* setBlock() and the receiver: what the receiver joins is the payload,    *)
(* followed by fewer zeros than fill a block, whatever the payload: no     *)
(* byte is lost, moved or counted twice.                                   *)
THEOREM PayloadSurvives ==
    ASSUME NEW Bytes, NEW data \in Seq(Bytes)
    PROVE  LET joined == Join(Split(data)) IN
           /\ Len(joined) \in Len(data) .. Len(data) + 7
           /\ \A k \in 1 .. Len(joined) :
                 joined[k] = IF k <= Len(data) THEN data[k] ELSE 0
<1> DEFINE count  == NumBlocks(Len(data))
           blocks == Split(data)
           joined == Join(blocks)
<1>1. Len(data) \in Nat
  OBVIOUS
<1>2. count \in Nat /\ 8 * count \in Len(data) .. Len(data) + 7
  BY <1>1, EnoughBlocks
<1>3. Len(blocks) = count
  BY <1>2 DEF Split
<1>4. Len(joined) = 8 * count
  BY <1>2, <1>3 DEF Join, BlockBytes
<1>5. ASSUME NEW k \in 1 .. 8 * count
      PROVE  joined[k] = IF k <= Len(data) THEN data[k] ELSE 0
  <2> DEFINE b == (k - 1) \div 8 + 1
             j == ((k - 1) % 8) + 1
  <2>1. b \in 1 .. count /\ j \in 1 .. 8 /\ 8 * (b - 1) + j = k
    BY <1>2
  <2>2. joined[k] = blocks[b][j]
    BY <1>2, <1>3 DEF Join, BlockBytes
  <2> HIDE DEF b, j
  <2>3. blocks[b][j] = IF 8 * (b - 1) + j <= Len(data) THEN data[8 * (b - 1) + j] ELSE 0
    BY <2>1 DEF Split, BlockBytes
  <2> QED
    BY <2>1, <2>2, <2>3
<1> HIDE DEF joined
<1> QED
  BY <1>2, <1>4, <1>5 DEF joined, blocks

(* send() and receive() of SocketCanInterface: a frame that is not         *)
(* rejected comes out with its identifier, its length and as many bytes,   *)
(* the others zero.                                                        *)
THEOREM FrameSurvives ==
    ASSUME NEW f \in CanFrame, ~Rejected(f)
    PROVE  /\ Sent(f) \in KernelFrame
           /\ Received(Sent(f)) = [f EXCEPT !.data = Copy(f.data, f.dlc)]
<1>1. /\ f.id \in 0 .. EffMask /\ f.dlc \in 0 .. 8
      /\ f.data \in [DataIndex -> 0 .. 255]
  <2>1. f.id \in Nat /\ f.dlc \in Nat /\ f.data \in [DataIndex -> 0 .. 255]
    BY SMT DEF CanFrame
  <2>2. f.id <= EffMask /\ f.dlc <= 8
    <3>1. ~(f.id > 536870911) /\ ~(f.dlc > 8)
      BY DEF Rejected, EffMask
    <3> QED
      BY <2>1, <3>1, SMT DEF EffMask
  <2>3. EffMask \in Nat
    BY DEF EffMask
  <2>4. f.id \in 0 .. EffMask /\ f.dlc \in 0 .. 8
    BY <2>1, <2>2, <2>3, SMT
  <2> QED
    BY <2>1, <2>4
<1>2. Copy(f.data, f.dlc) \in [DataIndex -> 0 .. 255]
  BY <1>1, SMT DEF Copy
<1>3. Copy(Copy(f.data, f.dlc), f.dlc) = Copy(f.data, f.dlc)
  BY SMT DEF Copy
<1>4. Sent(f) \in KernelFrame
  BY <1>1, <1>2, SMT DEF Sent, KernelFrame
<1>5. f = [id |-> f.id, dlc |-> f.dlc, data |-> f.data]
  BY SMT DEF CanFrame
<1>6. [f EXCEPT !.data = Copy(f.data, f.dlc)]
         = [id |-> f.id, dlc |-> f.dlc, data |-> Copy(f.data, f.dlc)]
  BY <1>5, SMT
<1>7. Received(Sent(f)) = [id |-> f.id, dlc |-> f.dlc, data |-> Copy(f.data, f.dlc)]
  BY <1>3, SMT DEF Received, Sent
<1> QED
  BY <1>4, <1>6, <1>7

(* No identifier of CAN-TS is rejected; and all are sent in the 29-bit     *)
(* format, but for those of the time syncs of the nodes 0 and 1 to         *)
(* everyone, which are small enough to go out in the 11-bit format.        *)
THEOREM FormatOfHeader ==
    ASSUME NEW h \in Header
    PROVE  /\ Encode(h) <= EffMask
           /\ Encode(h) <= SffMask <=> h.to = 0 /\ h.type = 0 /\ h.from <= 1
<1>1. /\ h.to \in Nat /\ h.to <= 255 /\ h.type \in Nat /\ h.type <= 7
      /\ h.from \in Nat /\ h.from <= 255 /\ h.command \in Nat /\ h.command <= 1023
  BY SMT DEF Header
<1>2. Encode(h) = 2097152 * h.to + 262144 * h.type + 1024 * h.from + h.command
  <2>1. /\ Low(h.to, 256) = h.to /\ Low(h.type, 8) = h.type
        /\ Low(h.from, 256) = h.from /\ Low(h.command, 1024) = h.command
    BY <1>1, SMT DEF Low
  <2> QED
    BY <2>1, SMT DEF Encode
<1> DEFINE to == h.to  type == h.type  from == h.from  command == h.command
           id == Encode(h)
<1>3. /\ to \in Nat /\ to <= 255 /\ type \in Nat /\ type <= 7
      /\ from \in Nat /\ from <= 255 /\ command \in Nat /\ command <= 1023
      /\ id = 2097152 * to + 262144 * type + 1024 * from + command
  BY <1>1, <1>2, SMT
<1> HIDE DEF to, type, from, command, id
<1>4. id <= 536870911
  BY <1>3, SMT
<1>5. ASSUME id <= 2047 PROVE to = 0 /\ type = 0 /\ from <= 1
  BY <1>3, <1>5, SMT
<1>6. ASSUME to = 0, type = 0, from <= 1 PROVE id <= 2047
  BY <1>3, <1>6, SMT
<1> QED
  BY <1>4, <1>5, <1>6 DEF to, type, from, id, EffMask, SffMask

----------------------------------------------------------------------------
(* SocketCanInterface                                                      *)

(* How far open() or close() has come tells which descriptors are there,   *)
(* and which the members name.                                             *)
LifeInv ==
    /\ ~isOpen => control \in {"idle", "bind", "pipe", "abandon", "markOpen"}
    /\ control \in {"bind", "pipe", "abandon", "markOpen"} => ~isOpen /\ fd # None
    /\ control \in {"bind", "pipe", "abandon"} => pipeFds = None /\ "pipe" \notin kernel
    /\ control = "idle" /\ ~isOpen => kernel = {} /\ fd = None /\ pipeFds = None
    /\ isOpen => (fd = None <=> control = "markClosed")
    /\ "pipe" \in kernel =>
           pipeFds # None /\ control \in {"idle", "markOpen", "write", "closePipe"}
    /\ control \in {"closeFd", "forgetFd", "markClosed"} => pipeFds = None
    /\ control \in {"forgetFd", "markClosed"} => kernel = {}

(* What waits in the socket came in after all that was returned.           *)
OrderInv ==
    /\ \A i, j \in DOMAIN queue : i < j => queue[i] < queue[j]
    /\ \A i \in DOMAIN queue : queue[i] <= arrived
    /\ \A i \in DOMAIN got : got[i] <= arrived
    /\ \A i \in DOMAIN got, j \in DOMAIN queue : got[i] < queue[j]
    /\ \A i, j \in DOMAIN got : i < j /\ got[i] # 0 /\ got[j] # 0 => got[i] < got[j]

Zeros     == {i \in DOMAIN got : got[i] = 0}
SignalInv == Cardinality(Zeros) = signals

----------------------------------------------------------------------------
(* Types and descriptors                                                   *)

LEMMA NoFrames == <<>> \in Seq(1 .. MaxFrames) /\ <<>> \in Seq(0 .. MaxFrames)
  BY EmptySeq

LEMMA LifeInit == Init => TypeOK /\ LifeInv
<1> SUFFICES ASSUME Init PROVE TypeOK /\ LifeInv
  OBVIOUS
<1>1. LifeInv
  BY DEF Init, LifeInv
<1>2. rx \in [pc : ReceivePC, watched : SUBSET Descriptors]
  BY DEF Init, ReceivePC
<1>3. arrived \in 0 .. MaxFrames /\ signals \in 0 .. MaxSignals
  BY InterfaceAssumption DEF Init
<1> QED
  BY <1>1, <1>2, <1>3, NoFrames DEF Init, TypeOK, ControlPC

(* What receive() changes: its place, and at the end the frame it returns. *)
LEMMA ReceiveType ==
  ASSUME TypeOK, LifeInv, Receive
  PROVE  TypeOK' /\ LifeInv'
<1> USE DEF TypeOK, LifeInv, Goto, Leave, RestUnchanged, members, history, ReceivePC
<1>1. CASE Call
  BY <1>1 DEF Call
<1>2. CASE SetFd
  BY <1>2 DEF SetFd, Descriptors, None
<1>3. CASE SetPipe
  BY <1>3 DEF SetPipe, Descriptors, None
<1>4. CASE Bound
  BY <1>4 DEF Bound
<1>5. CASE Enter
  BY <1>5 DEF Enter
<1>6. CASE SelectReturns
  BY <1>6 DEF SelectReturns
<1>7. ASSUME NEW answer \in BOOLEAN, IsWoken(answer)
      PROVE  TypeOK' /\ LifeInv'
  BY <1>7 DEF IsWoken
<1>8. CASE IsOpen
  BY <1>8 DEF IsOpen
<1>9. CASE EnterRead
  BY <1>9 DEF EnterRead
<1>10. CASE Read
  <2>1. Tail(queue) \in Seq(1 .. MaxFrames) /\ Head(queue) \in 1 .. MaxFrames
    BY <1>10, HeadTailProperties DEF Read
  <2>2. Append(got, Head(queue)) \in Seq(0 .. MaxFrames)
    BY <2>1, InterfaceAssumption, AppendProperties
  <2> QED
    BY <1>10, <2>1, <2>2 DEF Read
<1> QED
  BY <1>1, <1>2, <1>3, <1>4, <1>5, <1>6, <1>7, <1>8, <1>9, <1>10 DEF Receive

LEMMA LifeStep ==
  ASSUME TypeOK, LifeInv, [Next]_vars
  PROVE  TypeOK' /\ LifeInv'
<1> USE DEF TypeOK, LifeInv, members, history
<1>1. ASSUME NEW ok \in BOOLEAN, OpenSocket(ok)
      PROVE  TypeOK' /\ LifeInv'
  <2>1. LifeInv'
    BY <1>1 DEF OpenSocket, None
  <2>2. fd' \in {"socket", None} /\ kernel' \in SUBSET Descriptors
    BY <1>1 DEF OpenSocket, Descriptors
  <2>3. queue' \in Seq(1 .. MaxFrames) /\ control' \in ControlPC
    BY <1>1, NoFrames DEF OpenSocket, ControlPC
  <2>4. control' = "idle" => (isOpen' <=> fd' # None)
    BY <1>1 DEF OpenSocket
  <2>5. UNCHANGED <<isOpen, pipeFds, woken, rx, got, arrived, signals>>
    BY <1>1 DEF OpenSocket
  <2> QED
    BY <2>1, <2>2, <2>3, <2>4, <2>5
<1>2. ASSUME NEW ok \in BOOLEAN, Bind(ok)
      PROVE  TypeOK' /\ LifeInv'
  BY <1>2 DEF Bind, ControlPC
<1>12. ASSUME NEW ok \in BOOLEAN, MakePipe(ok)
       PROVE  TypeOK' /\ LifeInv'
  <2>1. LifeInv'
    BY <1>12 DEF MakePipe, None
  <2>2. kernel' \in SUBSET Descriptors /\ pipeFds' \in {"pipe", None}
    BY <1>12 DEF MakePipe, Descriptors
  <2>3. woken' \in BOOLEAN /\ control' \in ControlPC \ {"idle"}
    BY <1>12 DEF MakePipe, ControlPC
  <2>4. UNCHANGED <<isOpen, fd, queue, rx, got, arrived, signals>>
    BY <1>12 DEF MakePipe
  <2> QED
    BY <2>1, <2>2, <2>3, <2>4
<1>13. CASE Abandon
  <2>1. kernel' = {}
    BY <1>13 DEF Abandon, Descriptors
  <2> QED
    BY <1>13, <2>1 DEF Abandon, ControlPC
<1>14. CASE MarkOpen
  BY <1>14 DEF MarkOpen, ControlPC
<1>3. CASE Close
  BY <1>3 DEF Close, ControlPC
<1>4. CASE Write \/ ClosePipe \/ ForgetPipe
  BY <1>4 DEF Write, ClosePipe, ForgetPipe, ControlPC, Descriptors, None
<1>5. ASSUME NEW ok \in BOOLEAN, CloseFd(ok)
      PROVE  TypeOK' /\ LifeInv'
  BY <1>5 DEF CloseFd, ControlPC, Descriptors
<1>6. CASE ForgetFd
  BY <1>6 DEF ForgetFd, ControlPC, None
<1>11. CASE MarkClosed
  BY <1>11 DEF MarkClosed, ControlPC
<1>7. CASE Receive
  BY <1>7, ReceiveType
<1>8. CASE Interrupted
  <2>1. Append(got, 0) \in Seq(0 .. MaxFrames)
    BY InterfaceAssumption, AppendProperties
  <2> QED
    BY <1>8, <2>1, InterfaceAssumption DEF Interrupted, Leave, ReceivePC
<1>9. CASE Arrive
  <2>1. arrived' \in 1 .. MaxFrames
    BY <1>9, InterfaceAssumption DEF Arrive
  <2>2. queue' \in Seq(1 .. MaxFrames)
    BY <1>9, <2>1, AppendProperties DEF Arrive
  <2> QED
    BY <1>9, <2>1, <2>2 DEF Arrive
<1>10. CASE UNCHANGED vars
  BY <1>10 DEF vars
<1> QED
  BY <1>1, <1>2, <1>3, <1>4, <1>5, <1>6, <1>7, <1>8, <1>9, <1>10, <1>11, <1>12,
     <1>13, <1>14
     DEF Next, Opening, Closing

LEMMA Life == Spec => [](TypeOK /\ LifeInv)
<1> QED
  BY LifeInit, LifeStep, PTL DEF Spec

(* Whatever close() and receive() do to each other, the variables keep to  *)
(* their types, and at rest there is a socket just when it is marked open. *)
THEOREM TypeCorrect == Spec => []TypeOK
<1> QED
  BY Life, PTL

(* A closed interface has left no descriptor behind, after any number of   *)
(* rounds of opening and closing, failures of either included.             *)
THEOREM NothingIsLeaked == Spec => []NothingLeaks
<1>1. LifeInv => NothingLeaks
  BY DEF LifeInv, NothingLeaks
<1> QED
  BY Life, <1>1, PTL

----------------------------------------------------------------------------
(* Frames.  What Append and Tail do, index by index, ...                   *)

LEMMA AppendIndex ==
  ASSUME NEW S, NEW q \in Seq(S), NEW e \in S
  PROVE  /\ DOMAIN q = 1 .. Len(q) /\ Len(q) \in Nat
         /\ DOMAIN Append(q, e) = DOMAIN q \cup {Len(q) + 1}
         /\ Len(q) + 1 \notin DOMAIN q
         /\ \A i \in DOMAIN q : Append(q, e)[i] = q[i] /\ i < Len(q) + 1
         /\ Append(q, e)[Len(q) + 1] = e
<1>1. /\ DOMAIN q = 1 .. Len(q) /\ Len(q) \in Nat
      /\ DOMAIN Append(q, e) = 1 .. Len(q) + 1
      /\ \A i \in 1 .. Len(q) : Append(q, e)[i] = q[i]
      /\ Append(q, e)[Len(q) + 1] = e
  BY AppendProperties, LenProperties
<1> QED
  BY <1>1

LEMMA TailIndex ==
  ASSUME NEW S, NEW q \in Seq(S), q # <<>>
  PROVE  /\ 1 \in DOMAIN q /\ Head(q) = q[1]
         /\ DOMAIN q \subseteq Nat
         /\ \A i \in DOMAIN Tail(q) : /\ i \in Nat /\ i >= 1
                                      /\ i + 1 \in DOMAIN q
                                      /\ Tail(q)[i] = q[i + 1]
<1>1. /\ DOMAIN q = 1 .. Len(q) /\ Len(q) \in Nat /\ Len(q) # 0
      /\ DOMAIN Tail(q) = 1 .. Len(q) - 1
      /\ \A i \in 1 .. Len(q) - 1 : Tail(q)[i] = q[i + 1]
      /\ Head(q) = q[1]
  BY HeadTailProperties, LenProperties, EmptySeq
<1> QED
  BY <1>1

(* ... and what they do to the order of the frames.                        *)
LEMMA ElementTypes ==
  ASSUME TypeOK
  PROVE  /\ \A i \in DOMAIN queue : queue[i] \in 1 .. MaxFrames
         /\ \A i \in DOMAIN got : got[i] \in 0 .. MaxFrames
         /\ arrived \in Nat /\ MaxFrames \in Nat
  BY InterfaceAssumption, ElementOfSeq, LenProperties DEF TypeOK

LEMMA ArriveOrder ==
  ASSUME TypeOK, OrderInv, Arrive
  PROVE  OrderInv'
<1> DEFINE last == Len(queue) + 1
<1>1. queue' = Append(queue, arrived') /\ arrived' = arrived + 1 /\ got' = got
  BY DEF Arrive
<1>2. arrived' \in 1 .. MaxFrames
  BY ElementTypes DEF Arrive
<1>3. /\ DOMAIN queue' = DOMAIN queue \cup {last}
      /\ last \notin DOMAIN queue
      /\ \A i \in DOMAIN queue : queue'[i] = queue[i] /\ i < last
      /\ queue'[last] = arrived'
      /\ DOMAIN queue \subseteq Nat /\ last \in Nat
  BY <1>1, <1>2, AppendIndex DEF TypeOK
<1> HIDE DEF last
<1>4. \A i, j \in DOMAIN queue' : i < j => queue'[i] < queue'[j]
  BY <1>1, <1>3, ElementTypes DEF OrderInv
<1>5. \A i \in DOMAIN queue' : queue'[i] <= arrived'
  BY <1>1, <1>3, ElementTypes DEF OrderInv
<1>6. \A i \in DOMAIN got : got[i] <= arrived' /\ got[i] < arrived'
  BY <1>1, ElementTypes DEF OrderInv
<1>7. \A i \in DOMAIN got, j \in DOMAIN queue' : got[i] < queue'[j]
  BY <1>1, <1>3, <1>6, ElementTypes DEF OrderInv
<1> QED
  BY <1>1, <1>4, <1>5, <1>6, <1>7 DEF OrderInv

(* receive() returns n: the first frame of the queue, or 0 for a signal.   *)
LEMMA ReturnOrder ==
  ASSUME TypeOK, OrderInv, NEW n \in 0 .. MaxFrames, got' = Append(got, n),
         UNCHANGED arrived,
         \/ n = 0 /\ UNCHANGED queue
         \/ queue # <<>> /\ n = Head(queue) /\ queue' = Tail(queue)
  PROVE  OrderInv'
<1> DEFINE last == Len(got) + 1
<1>1. /\ DOMAIN got' = DOMAIN got \cup {last}
      /\ last \notin DOMAIN got
      /\ \A i \in DOMAIN got : got'[i] = got[i] /\ i < last
      /\ got'[last] = n
      /\ DOMAIN got \subseteq Nat /\ last \in Nat
  BY AppendIndex DEF TypeOK
<1> HIDE DEF last
<1>2. /\ n <= arrived
      /\ \A j \in DOMAIN queue' : n < queue'[j]
      /\ n # 0 => \A i \in DOMAIN got : got[i] < n
  <2>1. CASE n = 0 /\ UNCHANGED queue
    BY <2>1, ElementTypes
  <2>2. CASE queue # <<>> /\ n = Head(queue) /\ queue' = Tail(queue)
    BY <2>2, TailIndex, ElementTypes DEF OrderInv, TypeOK
  <2> QED
    BY <2>1, <2>2
<1>3. /\ \A i, j \in DOMAIN queue' : i < j => queue'[i] < queue'[j]
      /\ \A i \in DOMAIN queue' : queue'[i] <= arrived
      /\ \A i \in DOMAIN got, j \in DOMAIN queue' : got[i] < queue'[j]
  <2>1. CASE UNCHANGED queue
    BY <2>1 DEF OrderInv
  <2>2. CASE queue # <<>> /\ queue' = Tail(queue)
    BY <2>2, TailIndex DEF OrderInv, TypeOK
  <2> QED
    BY <2>1, <2>2
<1>4. \A i \in DOMAIN got' : got'[i] <= arrived
  BY <1>1, <1>2 DEF OrderInv
<1>5. \A i \in DOMAIN got', j \in DOMAIN queue' : got'[i] < queue'[j]
  BY <1>1, <1>2, <1>3
<1>6. \A i, j \in DOMAIN got' : i < j /\ got'[i] # 0 /\ got'[j] # 0 => got'[i] < got'[j]
  BY <1>1, <1>2 DEF OrderInv
<1> QED
  BY <1>3, <1>4, <1>5, <1>6 DEF OrderInv

(* A frame that is returned adds no zero, a signal adds one.               *)
LEMMA ReturnSignal ==
  ASSUME TypeOK, SignalInv, NEW n \in 0 .. MaxFrames, got' = Append(got, n),
         signals' = IF n = 0 THEN signals + 1 ELSE signals
  PROVE  SignalInv'
<1> DEFINE last == Len(got) + 1
<1>1. /\ DOMAIN got = 1 .. Len(got) /\ Len(got) \in Nat
      /\ DOMAIN got' = DOMAIN got \cup {last}
      /\ last \notin DOMAIN got
      /\ \A i \in DOMAIN got : got'[i] = got[i]
      /\ got'[last] = n
  BY AppendIndex DEF TypeOK
<1>2. Zeros' = IF n = 0 THEN Zeros \cup {last} ELSE Zeros
  BY <1>1 DEF Zeros
<1>3. IsFiniteSet(Zeros) /\ last \notin Zeros
  <2>1. IsFiniteSet(1 .. Len(got)) /\ Zeros \subseteq 1 .. Len(got)
    BY <1>1, FS_Interval DEF Zeros
  <2> QED
    BY <1>1, <2>1, FS_Subset DEF Zeros
<1>4. Cardinality(Zeros \cup {last}) = Cardinality(Zeros) + 1
  BY <1>3, FS_AddElement
<1> QED
  BY <1>2, <1>4 DEF SignalInv

LEMMA FrameStep ==
  ASSUME TypeOK, OrderInv, SignalInv, [Next]_vars
  PROVE  OrderInv' /\ SignalInv'
<1>1. CASE UNCHANGED <<queue, got, arrived, signals>>
  BY <1>1 DEF OrderInv, SignalInv, Zeros
<1>2. ASSUME NEW ok \in BOOLEAN, OpenSocket(ok)
      PROVE  OrderInv' /\ SignalInv'
  <2>1. CASE ok
    <3>1. queue' = <<>> /\ DOMAIN queue' = {} /\ UNCHANGED <<got, arrived, signals>>
      BY <1>2, <2>1 DEF OpenSocket, history
    <3> QED
      BY <3>1 DEF OrderInv, SignalInv, Zeros
  <2>2. CASE ~ok
    BY <1>1, <1>2, <2>2 DEF OpenSocket, history
  <2> QED
    BY <2>1, <2>2
<1>3. CASE Read
  <2>1. Head(queue) \in 1 .. MaxFrames
    BY <1>3, TailIndex, ElementTypes DEF Read, TypeOK
  <2> QED
    BY <1>3, <2>1, ElementTypes, ReturnOrder, ReturnSignal DEF Read, history
<1>4. CASE Interrupted
  BY <1>4, ElementTypes, ReturnOrder, ReturnSignal DEF Interrupted
<1>5. CASE Arrive
  BY <1>5, ArriveOrder DEF Arrive, SignalInv, Zeros
<1>6. CASE Receive /\ ~Read
  BY <1>1, <1>6
     DEF Receive, Call, SetFd, SetPipe, Bound, Enter, SelectReturns, IsWoken, IsOpen,
         EnterRead, RestUnchanged, history
<1>7. CASE Opening \/ Close \/ Closing
  BY <1>1, <1>7
     DEF Opening, Bind, MakePipe, Abandon, MarkOpen, Close, Closing, Write, ClosePipe,
         ForgetPipe, CloseFd, ForgetFd, MarkClosed, history
<1>8. CASE UNCHANGED vars
  BY <1>1, <1>8 DEF vars, history
<1> QED
  BY <1>2, <1>3, <1>4, <1>5, <1>6, <1>7, <1>8 DEF Next

LEMMA FrameInit == Init => OrderInv /\ SignalInv
<1> SUFFICES ASSUME Init PROVE OrderInv /\ SignalInv
  OBVIOUS
<1>1. DOMAIN queue = {} /\ DOMAIN got = {} /\ Zeros = {}
  BY DEF Init, Zeros
<1> QED
  BY <1>1, FS_EmptySet DEF Init, OrderInv, SignalInv

(* receive() returns every frame at most once and in the order of their    *)
(* arrival, and succeeds without a frame at most once for each signal,     *)
(* however often the interface is closed and opened again in between.      *)
THEOREM FramesKeepOrder == Spec => []FramesInOrder
<1>1. TypeOK /\ OrderInv /\ SignalInv => FramesInOrder
  BY DEF TypeOK, OrderInv, SignalInv, Zeros, FramesInOrder
<1> QED
  BY FrameInit, FrameStep, TypeCorrect, <1>1, PTL DEF Spec

----------------------------------------------------------------------------
(* The application                                                         *)

Waiting == {"install", "check", "sleep", "asleep"}

MainTypeOK ==
    /\ program \in {"main", "other"}
    /\ step \in Steps
    /\ code \in {0, 1}
    /\ program = "other" => step = "parse"

(* From the installation of the handlers on, the flag is down only if a    *)
(* signal has come since.                                                  *)
FlagInv == main.pc \in Waiting => gRunning \/ signalled

(* The flag lags behind the dispatcher while start() and stop() return.    *)
RunInv ==
    /\ main.pc = "started" => ~running /\ dispatching
    /\ main.pc = "stopped" => running /\ ~dispatching
    /\ main.pc \notin {"started", "stopped"} => (running <=> dispatching)

(* An object that has been destroyed, and one of a main() that has not got *)
(* to start(), has no dispatcher that runs.                                *)
AliveInv ==
    /\ ~alive => ~dispatching /\ main.pc \in {"idle", "stopped"}
    /\ program = "main" /\ step # "exit" => alive
    /\ program = "main" /\ (step \in {"parse", "create", "start"} \/ (step = "exit" /\ alive))
          => ~running /\ ~dispatching /\ main.pc = "idle"

(* main() stops, or fails, or waits for a signal, and it waits only once.  *)
StepInv ==
    program = "main" =>
        /\ step \in {"stop", "destroy", "exit"} /\ code = 0 /\ (step = "exit" => ~alive)
              => main.pc \in Waiting \/ signalled
        /\ step \in {"send", "wait"} => main.pc \in {"idle", "started"}
        /\ step \in {"destroy", "exit"} => main.pc \in {"idle", "stopped"}

MainInv ==
    /\ AppTypeOK /\ MainTypeOK
    /\ FlagInv /\ WaitMeansSignalled
    /\ RunInv /\ AliveInv /\ StepInv

LEMMA MainInvInit == MainInit => MainInv
<1> SUFFICES ASSUME MainInit PROVE MainInv
  OBVIOUS
<1>1. program \in {"main", "other"}
  BY ProgramsAssumption DEF MainInit
<1>2. AppTypeOK
  BY DEF MainInit, AppInit, AppTypeOK, MainPC
<1>3. MainTypeOK
  BY <1>1 DEF MainInit, MainTypeOK, Steps
<1> QED
  BY <1>2, <1>3
     DEF MainInit, AppInit, MainInv, FlagInv, WaitMeansSignalled, RunInv, AliveInv, StepInv, Waiting

----------------------------------------------------------------------------
(* Every step keeps the invariant.  The definitions that all of it is made *)
(* of are expanded throughout; each step adds the action it is about.      *)

LEMMA MainInvNext ==
  ASSUME MainInv, [MainNext]_allVars
  PROVE  MainInv'
<1> USE SignalsAssumption
    DEF MainInv, AppTypeOK, MainTypeOK, FlagInv, WaitMeansSignalled, RunInv, AliveInv, StepInv,
        MainPC, Steps, Waiting, MainGoto, Ready
<1>a. /\ running \in BOOLEAN /\ dispatching \in BOOLEAN
      /\ main \in [pc : MainPC, waits : BOOLEAN]
  OBVIOUS
<1>1. CASE program = "main" /\ MainProceeds
  <2>1. ASSUME NEW options, Parse(options)
        PROVE  MainInv'
    BY <1>1, <2>1 DEF Parse, Then, Fail, appVars
  <2>2. ASSUME NEW outcome, Create(outcome)
        PROVE  MainInv'
    BY <1>1, <2>2 DEF Create, Then, Fail, appVars
  <2>3. CASE StartApp
    BY <1>1, <2>3 DEF StartApp, Start, Then
  <2>4. ASSUME NEW outcome, Send(outcome)
        PROVE  MainInv'
    BY <1>1, <2>4 DEF Send, Then, Fail, appVars
  <2>5. CASE WaitApp
    BY <1>1, <2>5 DEF WaitApp, Wait, Then
  <2>6. CASE StopApp
    BY <1>1, <2>6 DEF StopApp, Stop, StopOr, Then
  <2>7. CASE DestroyApp
    BY <1>1, <2>7 DEF DestroyApp, Destroy, Then
  <2> QED
    BY <1>1, <2>1, <2>2, <2>3, <2>4, <2>5, <2>6, <2>7 DEF MainProceeds
<1>2. CASE program = "other" /\ Other
  <2>1. CASE Start
    <3>1. CASE running
      BY <1>2, <1>a, <2>1, <3>1 DEF Other, Start, mainVars
    <3>2. CASE ~running
      BY <1>2, <1>a, <2>1, <3>2 DEF Other, Start, mainVars
    <3> QED
      BY <3>1, <3>2
  <2>2. CASE Stop
    BY <1>2, <2>2 DEF Other, Stop, StopOr, mainVars
  <2>3. CASE Wait
    BY <1>2, <2>3 DEF Other, Wait, mainVars
  <2>4. CASE Destroy
    BY <1>2, <2>4 DEF Other, Destroy, mainVars
  <2> QED
    BY <1>2, <2>1, <2>2, <2>3, <2>4 DEF Other
<1>3. CASE Within
  <2>1. CASE Started
    BY <1>3, <1>a, <2>1 DEF Within, Started, mainVars
  <2>2. CASE Stopped
    BY <1>3, <1>a, <2>2 DEF Within, Stopped, mainVars
  <2>3. ASSUME NEW s \in Signals, Install(s)
        PROVE  MainInv'
    BY <1>3, <2>3 DEF Within, Install, mainVars
  <2>4. CASE Check
    BY <1>3, <2>4 DEF Within, Check, mainVars
  <2>5. CASE Sleep
    BY <1>3, <2>5 DEF Within, Sleep, mainVars
  <2>6. CASE WaitStops
    <3>1. CASE running
      BY <1>3, <1>a, <2>6, <3>1 DEF Within, WaitStops, StopOr, mainVars
    <3>2. CASE ~running
      BY <1>3, <1>a, <2>6, <3>2 DEF Within, WaitStops, StopOr, mainVars
    <3> QED
      BY <3>1, <3>2
  <2>7. CASE SpuriousWake
    BY <1>3, <2>7 DEF Within, SpuriousWake, mainVars
  <2>8. ASSUME NEW s \in Signals, Signal(s)
        PROVE  MainInv'
    BY <1>3, <2>8 DEF Within, Signal, mainVars
  <2>9. ASSUME NEW s \in Signals, Notify(s)
        PROVE  MainInv'
    BY <1>3, <2>9 DEF Within, Notify, mainVars
  <2> QED
    BY <1>3, <2>1, <2>2, <2>3, <2>4, <2>5, <2>6, <2>7, <2>8, <2>9 DEF Within, Proceeds
<1>4. CASE Over \/ UNCHANGED allVars
  BY <1>4 DEF Over, allVars, appVars, mainVars
<1> QED
  BY <1>1, <1>2, <1>3, <1>4 DEF MainNext

LEMMA MainInvariant == MainSpec => []MainInv
<1> QED
  BY MainInvInit, MainInvNext, PTL DEF MainSpec

(* Types; and outside of the operations of Cannect, its flag says whether  *)
(* the dispatcher runs.                                                    *)
THEOREM AppTypeCorrect == MainSpec => []AppTypeOK
<1>1. MainInv => AppTypeOK
  BY DEF MainInv
<1> QED
  BY MainInvariant, <1>1, PTL

(* waitSignal() ends only for a signal that came after its call.           *)
THEOREM WaitIsSignalled == MainSpec => []WaitMeansSignalled
<1>1. MainInv => WaitMeansSignalled
  BY DEF MainInv
<1> QED
  BY MainInvariant, <1>1, PTL

(* Whichever way main() ends, the receive threads have ended before it; and*)
(* it reports success after a run only if a signal has ended the run.      *)
THEOREM ExitIsClean == MainSpec => []CleanExit
<1>1. MainInv => CleanExit
  <2> SUFFICES ASSUME MainInv PROVE CleanExit
    OBVIOUS
  <2>1. main.pc = "idle" /\ ~alive => ~dispatching
    BY DEF MainInv, AliveInv
  <2>2. step = "exit" => program = "main"
    BY DEF MainInv, MainTypeOK
  <2>3. main.pc = "idle" /\ step = "exit" /\ alive => ~dispatching
    BY <2>2 DEF MainInv, AliveInv
  <2>4. step = "exit" /\ ~alive /\ code = 0 => signalled
    BY <2>2 DEF MainInv, AliveInv, StepInv, Waiting
  <2> QED
    BY <2>1, <2>3, <2>4 DEF CleanExit
<1> QED
  BY MainInvariant, <1>1, PTL
=============================================================================
