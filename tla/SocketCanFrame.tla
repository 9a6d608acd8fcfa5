--------------------------- MODULE SocketCanFrame ---------------------------
(***************************************************************************)
(* What SocketCanInterface makes of a frame: send() turns a CanFrame into  *)
(* the kernel's can_frame, or rejects it, and receive() turns it back.     *)
(* The kernel's identifier is a number and a flag that tells the 29-bit    *)
(* from the 11-bit format; the flag is not part of a CanFrame.             *)
(***************************************************************************)
EXTENDS Naturals

SffMask == 2047       \* CAN_SFF_MASK, 11 bits
EffMask == 536870911  \* CAN_EFF_MASK, 29 bits

DataIndex == 1 .. 8

(* Members are not range-checked: dlc is a byte, and the identifier has    *)
(* 32 bits.                                                                *)
CanFrame == [id : Nat, dlc : 0 .. 255, data : [DataIndex -> 0 .. 255]]

KernelFrame == [extended : BOOLEAN, id : 0 .. EffMask, dlc : 0 .. 8,
                data : [DataIndex -> 0 .. 255]]

(* memcpy() of the first dlc bytes into a zeroed frame.                    *)
Copy(data, dlc) == [i \in DataIndex |-> IF i <= dlc THEN data[i] ELSE 0]

Rejected(f) == f.id > EffMask \/ f.dlc > 8

Sent(f) == [extended |-> f.id > SffMask, id |-> f.id, dlc |-> f.dlc,
            data |-> Copy(f.data, f.dlc)]

(* The dispatcher receives into a new CanFrame each time.                  *)
Received(k) == [id |-> k.id, dlc |-> k.dlc, data |-> Copy(k.data, k.dlc)]
=============================================================================
