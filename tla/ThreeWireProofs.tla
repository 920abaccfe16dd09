-------------------------- MODULE ThreeWireProofs --------------------------
(***************************************************************************)
(* TLAPS proofs about ThreeWire, for tasks of every length (but 7) and     *)
(* every content: a task expands into the memory that was reserved for it. *)
(*                                                                         *)
(* What keeps the writes within the task is the place of the next bit: in  *)
(* a narrow task the units taken so far, the command included, fill nine   *)
(* bits each (Place), and all units together fit (PayloadFits).            *)
(***************************************************************************)
EXTENDS ThreeWire, TLAPS

Addresses == 0..EndOfTask + Beyond - 1

\* The task, and the ring around it.
Task ==
  /\ wide \in BOOLEAN /\ size \in Nat
  /\ wide => size % 2 = 0
  /\ ~wide => size # 7
  /\ wide => \A i \in 1..4 : cmd[i] \in Byte
  /\ ~wide => cmd \in Byte
  /\ payload \in [0..size - 1 -> Byte]
  /\ fill \in Byte

\* Where the next bit goes, at each step.
Place ==
  /\ pc \in {"begin", "first", "groups", "tail", "words", "done"}
  /\ src \in 0..size /\ dstByte \in 0..PayloadSize /\ dstBitsUsed \in 0..7
  /\ pc = "begin" => src = 0
  /\ pc = "first" => ~wide /\ size >= 7
  /\ pc = "groups" => ~wide /\ size >= 7 /\ dstBitsUsed = 0 /\ 8 * dstByte = 9 * (src + 1)
  /\ pc = "tail" => ~wide /\ 8 * dstByte + dstBitsUsed = 9 * (src + 1)
  /\ pc = "words" => wide /\ dstByte = 2 * src + 4 /\ src % 2 = 0

Memory == mem \in [Addresses -> Byte]

Inv == Task /\ Place /\ Memory /\ StaysInTask

-----------------------------------------------------------------------------
(* The memory *)

\* AllocTask reserves enough: nine bits for each unit, or two bytes for each.
LEMMA PayloadFits ==
  ASSUME Task
  PROVE  /\ PayloadSize \in Nat /\ Padding \in 0..1 /\ EndOfTask \in Nat
         /\ EndOfTask = size + PayloadSize + Padding
         /\ wide => PayloadSize = 2 * size + 4
         /\ ~wide => 8 * PayloadSize >= 9 * (size + 1) /\ Padding = 1 /\ PayloadSize >= 9
BY DEF Task, PayloadSize, NumBytesNeeded, Padding, EndOfTask

\* What is written at lo..hi of the payload lies within the task; w is m outside the task.
BytesInTask(bytes, lo, hi) ==
  /\ lo \in Nat /\ hi \in Int /\ size + hi < EndOfTask /\ DOMAIN bytes = lo..hi
  /\ \A k \in lo..hi : bytes[k] \in Byte
OutsideKept(m, w) ==
  /\ w \in [Addresses -> Byte]
  /\ \A a \in Addresses : a < size \/ a >= EndOfTask => w[a] = m[a]

\* What is written within the task stays within it.
LEMMA WrittenInTask ==
  ASSUME Task, NEW m \in [Addresses -> Byte],
         NEW lo, NEW hi, NEW bytes, BytesInTask(bytes, lo, hi)
  PROVE  OutsideKept(m, Written(m, bytes))
<1>0. /\ lo \in Nat /\ hi \in Int /\ size + hi < EndOfTask /\ DOMAIN bytes = lo..hi
      /\ \A k \in lo..hi : bytes[k] \in Byte
  BY DEF BytesInTask
<1>1. size \in Nat /\ EndOfTask \in Nat
  BY PayloadFits DEF Task
<1>2. DOMAIN m = Addresses /\ \A a \in Addresses : a \in Int
  BY <1>1 DEF Addresses, Beyond
<1>3. Written(m, bytes)
        = [a \in Addresses |-> IF a - size \in lo..hi THEN bytes[a - size] ELSE m[a]]
  BY <1>0, <1>2 DEF Written
<1>4. \A a \in Addresses :
        (IF a - size \in lo..hi THEN bytes[a - size] ELSE m[a]) \in Byte
  BY <1>0
<1>5. \A a \in Addresses : a < size \/ a >= EndOfTask => a - size \notin lo..hi
  BY <1>0, <1>1, <1>2
<1> QED BY <1>3, <1>4, <1>5 DEF OutsideKept

LEMMA ShiftedByte ==
  ASSUME NEW b, NEW n
  PROVE  ShiftLeft(b, n) \in Byte /\ ShiftRight(b, n) \in Byte
BY DEF ShiftLeft, ShiftRight, Byte

\* A write within the task keeps the invariants on the memory.
LEMMA StaysWritten ==
  ASSUME Task, Memory, StaysInTask, UNCHANGED task, OutsideKept(mem, mem')
  PROVE  Task' /\ Memory' /\ StaysInTask'
<1>0. /\ mem' \in [Addresses -> Byte]
      /\ \A a \in Addresses : a < size \/ a >= EndOfTask => mem'[a] = mem[a]
  BY DEF OutsideKept
<1>1. Task' /\ EndOfTask' = EndOfTask /\ Addresses' = Addresses
  BY DEF Task, task, EndOfTask, PayloadSize, NumBytesNeeded, Padding, Addresses
<1>2. size' = size /\ payload' = payload /\ fill' = fill
  BY DEF task
<1>3. size \in Nat /\ EndOfTask \in Nat /\ size <= EndOfTask
  BY PayloadFits DEF Task
<1>4. \A a \in 0..size - 1 : a \in Addresses /\ a < size
  BY <1>3 DEF Addresses, Beyond
<1>5. \A a \in EndOfTask..EndOfTask + Beyond - 1 : a \in Addresses /\ a >= EndOfTask
  BY <1>3 DEF Addresses, Beyond
<1>6. StaysInTask'
  BY <1>0, <1>1, <1>2, <1>4, <1>5 DEF StaysInTask
<1> QED BY <1>0, <1>1, <1>6 DEF Memory
\* Eight units, and the bit before them, are bytes.
LEMMA UnitsAreBytes ==
  ASSUME NEW at \in Nat, NEW first \in Byte, NEW units,
         \A k \in 0..7 : units[k] \in Byte
  PROVE  /\ DOMAIN EightUnits(at, first, units) = at..at + 8
         /\ \A k \in at..at + 8 : EightUnits(at, first, units)[k] \in Byte
<1>1. DOMAIN EightUnits(at, first, units) = at..at + 8
  BY DEF EightUnits
<1>2. ASSUME NEW k \in at..at + 8
      PROVE  EightUnits(at, first, units)[k] \in Byte
  <2>1. k - at \in 0..8
    OBVIOUS
  <2>2. CASE k - at = 0
    BY <2>2, ShiftedByte DEF EightUnits, Byte
  <2>3. CASE k - at \in 1..7
    <3>1. EightUnits(at, first, units)[k]
            = ShiftLeft(units[k - at - 1], 8 - (k - at)) \cup {7 - (k - at)}
                \cup ShiftRight(units[k - at], k - at + 1)
      BY <2>3 DEF EightUnits
    <3>2. 7 - (k - at) \in 0..7
      BY <2>3
    <3> QED BY <3>1, <3>2, ShiftedByte DEF Byte
  <2>4. CASE k - at = 8
    BY <2>4 DEF EightUnits
  <2> QED BY <2>1, <2>2, <2>3, <2>4
<1> QED BY <1>1, <1>2

-----------------------------------------------------------------------------
(* The steps *)

LEMMA InitInv == ASSUME SizesAssumption, Init PROVE Inv
<1>1. Task
  <2>1. wide \in BOOLEAN /\ size \in Nat
    BY Zenon DEF Init, SizesAssumption
  <2>2. (wide => size % 2 = 0) /\ (~wide => size # 7)
    BY DEF Init, SizesAssumption
  <2>3. ~wide => cmd \in Byte
    BY DEF Init, SizesAssumption
  <2>4. ASSUME wide PROVE \A k \in 1..4 : cmd[k] \in Byte
    <3>1. PICK c \in Byte : cmd = <<{}, {0, 4}, {}, c>>
      BY <2>4 DEF Init, SizesAssumption
    <3>2. {} \in Byte /\ {0, 4} \in Byte
      BY DEF Byte
    <3>3. cmd[1] = {} /\ cmd[2] = {0, 4} /\ cmd[3] = {} /\ cmd[4] = c
      BY <3>1
    <3>4. \A k \in 1..4 : k = 1 \/ k = 2 \/ k = 3 \/ k = 4
      OBVIOUS
    <3> QED BY <3>2, <3>3, <3>4
  <2>5. payload \in [0..size - 1 -> Byte]
    BY DEF Init, SizesAssumption
  <2>6. fill \in Byte
    BY DEF Init, SizesAssumption
  <2> QED BY <2>1, <2>2, <2>3, <2>4, <2>5, <2>6 DEF Task
<1>2. Place
  BY <1>1, PayloadFits DEF Init, Place, Task
<1>3. mem = [a \in Addresses |-> IF a < size THEN payload[a] ELSE fill]
  BY DEF Init, Addresses
<1>4. EndOfTask \in Nat /\ size \in Nat /\ size <= EndOfTask
  BY <1>1, PayloadFits DEF Task
<1>5. \A a \in Addresses : a < size => a \in 0..size - 1
  BY <1>4 DEF Addresses, Beyond
<1>6. Memory
  BY <1>1, <1>3, <1>5 DEF Memory, Task
<1>7. StaysInTask
  BY <1>3, <1>4 DEF StaysInTask, Addresses, Beyond
<1> QED BY <1>1, <1>2, <1>6, <1>7 DEF Inv

\* How far a step may write, and what it may read.
LEMMA Bounds ==
  ASSUME Inv
  PROVE  /\ size \in Nat /\ PayloadSize \in Nat /\ EndOfTask \in Nat
         /\ src \in Nat /\ dstByte \in Nat /\ dstBitsUsed \in 0..7
         /\ \A a \in Addresses : mem[a] \in Byte
         /\ \A k \in 0..PayloadSize : Dst(k) \in Byte
         /\ \A a \in 0..size - 1 : mem[a] \in Byte
<1>1. /\ size \in Nat /\ PayloadSize \in Nat /\ EndOfTask \in Nat
      /\ EndOfTask >= size + PayloadSize
  BY PayloadFits DEF Inv, Task
<1>2. \A k \in 0..PayloadSize : size + k \in Addresses
  BY <1>1 DEF Addresses, Beyond
<1>3. \A a \in 0..size - 1 : a \in Addresses
  BY <1>1 DEF Addresses, Beyond
<1> QED BY <1>1, <1>2, <1>3 DEF Inv, Place, Memory, Dst

LEMMA UnchangedSize ==
  ASSUME UNCHANGED task
  PROVE  PayloadSize' = PayloadSize /\ size' = size /\ wide' = wide
BY DEF task, PayloadSize, NumBytesNeeded

LEMMA BeginInv == ASSUME Inv, Begin PROVE Inv'
<1> DEFINE end == PayloadSize - 9
           zeroes == [k \in end..PayloadSize + Padding - 1 |-> {}]
           first == [k \in 0..1 |-> IF k = 0 THEN ShiftRight(cmd, 1) ELSE ShiftLeft(cmd, 7)]
           cleared == Written(mem, zeroes)
<1>1. /\ ~wide /\ pc = "begin" /\ Task /\ StaysInTask /\ Memory /\ UNCHANGED task /\ src' = src
      /\ mem' = Written(cleared, first)
  BY DEF Begin, Inv, task
<1>2. /\ PayloadSize \in Nat /\ PayloadSize >= 9 /\ 8 * PayloadSize >= 9 * (size + 1)
      /\ Padding = 1 /\ EndOfTask = size + PayloadSize + Padding /\ size \in Nat
  BY <1>1, PayloadFits DEF Task
<1>3. OutsideKept(mem, cleared)
  <2>1. DOMAIN zeroes = end..PayloadSize + Padding - 1 /\ end \in Nat
    BY <1>2
  <2>2. \A k \in end..PayloadSize + Padding - 1 : zeroes[k] \in Byte
    BY DEF Byte
  <2>3. PayloadSize + Padding - 1 \in Int /\ size + (PayloadSize + Padding - 1) < EndOfTask
    BY <1>2
  <2> HIDE DEF zeroes, end
  <2>4. BytesInTask(zeroes, end, PayloadSize + Padding - 1)
    BY <2>1, <2>2, <2>3 DEF BytesInTask
  <2> QED BY <1>1, <2>4, WrittenInTask DEF Memory
<1>4. OutsideKept(mem, mem')
  <2>1. DOMAIN first = 0..1 /\ \A k \in 0..1 : first[k] \in Byte
    BY ShiftedByte
  <2>2. size + 1 < EndOfTask /\ 0 \in Nat /\ 1 \in Int
    BY <1>2
  <2> HIDE DEF first, cleared
  <2>3. BytesInTask(first, 0, 1)
    BY <2>1, <2>2 DEF BytesInTask
  <2>4. cleared \in [Addresses -> Byte]
    BY <1>3 DEF OutsideKept
  <2>5. OutsideKept(cleared, mem')
    BY <1>1, <2>3, <2>4, WrittenInTask
  <2> QED BY <1>3, <2>5 DEF OutsideKept
<1>5. Task' /\ Memory' /\ StaysInTask'
  BY <1>1, <1>4, StaysWritten
<1>6. Place'
  BY <1>1, <1>2, UnchangedSize DEF Begin, Inv, Place
<1> QED BY <1>5, <1>6 DEF Inv

LEMMA FirstUnitsInv == ASSUME Inv, FirstUnits PROVE Inv'
<1> DEFINE units == [k \in 0..7 |-> IF k = 0 THEN cmd ELSE mem[k - 1]]
           bytes == EightUnits(0, {}, units)
<1>1. /\ ~wide /\ size >= 7 /\ Task /\ StaysInTask /\ Memory /\ UNCHANGED task
      /\ mem' = Written(mem, bytes)
  BY DEF FirstUnits, Inv, Place
<1>2. /\ PayloadSize \in Nat /\ PayloadSize >= 9 /\ 8 * PayloadSize >= 9 * (size + 1)
      /\ Padding = 1 /\ EndOfTask = size + PayloadSize + Padding /\ size \in Nat
  BY <1>1, PayloadFits DEF Task
<1>3. \A k \in 0..7 : units[k] \in Byte
  BY <1>1, Bounds DEF Task
<1>4. DOMAIN bytes = 0..8 /\ \A k \in 0..8 : bytes[k] \in Byte
  <2>1. {} \in Byte
    BY DEF Byte
  <2> HIDE DEF units
  <2>2. DOMAIN bytes = 0..0 + 8 /\ \A k \in 0..0 + 8 : bytes[k] \in Byte
    BY <1>3, <2>1, UnitsAreBytes
  <2> QED BY <2>2
<1>5. size + 8 < EndOfTask /\ 0 \in Nat /\ 8 \in Int
  BY <1>2
<1> HIDE DEF bytes
<1>6. OutsideKept(mem, mem')
  <2>1. BytesInTask(bytes, 0, 8)
    BY <1>4, <1>5 DEF BytesInTask
  <2> QED BY <1>1, <2>1, WrittenInTask DEF Memory
<1>7. Task' /\ Memory' /\ StaysInTask'
  BY <1>1, <1>6, StaysWritten
<1>8. Place'
  BY <1>1, <1>2, UnchangedSize DEF FirstUnits, Inv, Place
<1> QED BY <1>7, <1>8 DEF Inv

LEMMA MoreUnitsInv == ASSUME Inv, MoreUnits PROVE Inv'
<1> DEFINE units == [k \in 0..7 |-> mem[src + k]]
           bytes == EightUnits(dstByte, {7}, units)
<1>1. /\ ~wide /\ Task /\ StaysInTask /\ Memory /\ UNCHANGED task
      /\ mem' = Written(mem, bytes) /\ src \in Nat /\ src <= size - 8
      /\ dstByte \in Nat /\ 8 * dstByte = 9 * (src + 1)
  BY Bounds DEF MoreUnits, Inv, Place
<1>2. /\ PayloadSize \in Nat /\ 8 * PayloadSize >= 9 * (size + 1)
      /\ Padding = 1 /\ EndOfTask = size + PayloadSize + Padding /\ size \in Nat
  BY <1>1, PayloadFits DEF Task
<1>3. \A k \in 0..7 : units[k] \in Byte
  BY <1>1, <1>2, Bounds
<1>4. DOMAIN bytes = dstByte..dstByte + 8 /\ \A k \in dstByte..dstByte + 8 : bytes[k] \in Byte
  <2>1. {7} \in Byte
    BY DEF Byte
  <2> HIDE DEF units
  <2> QED BY <1>1, <1>3, <2>1, UnitsAreBytes
<1>5. size + (dstByte + 8) < EndOfTask /\ dstByte + 9 <= PayloadSize
  BY <1>1, <1>2
<1> HIDE DEF bytes
<1>6. OutsideKept(mem, mem')
  <2>1. BytesInTask(bytes, dstByte, dstByte + 8)
    BY <1>1, <1>4, <1>5 DEF BytesInTask
  <2> QED BY <1>1, <2>1, WrittenInTask DEF Memory
<1>7. Task' /\ Memory' /\ StaysInTask'
  BY <1>1, <1>6, StaysWritten
<1>8. Place'
  BY <1>1, <1>2, <1>5, UnchangedSize DEF MoreUnits, Inv, Place
<1> QED BY <1>7, <1>8 DEF Inv

LEMMA EndUnitsInv == ASSUME Inv, EndUnits PROVE Inv'
<1> DEFINE bytes == [k \in {dstByte} |-> {}]
<1>1. /\ ~wide /\ Task /\ StaysInTask /\ Memory /\ UNCHANGED task
      /\ mem' = Written(mem, bytes) /\ src \in 0..size
      /\ dstByte \in Nat /\ 8 * dstByte = 9 * (src + 1)
  BY Bounds DEF EndUnits, Inv, Place
<1>2. /\ PayloadSize \in Nat /\ 8 * PayloadSize >= 9 * (size + 1)
      /\ Padding = 1 /\ EndOfTask = size + PayloadSize + Padding /\ size \in Nat
  BY <1>1, PayloadFits DEF Task
<1>3. DOMAIN bytes = dstByte..dstByte /\ \A k \in dstByte..dstByte : bytes[k] \in Byte
  BY <1>1 DEF Byte
<1>4. size + dstByte < EndOfTask /\ dstByte \in Int
  BY <1>1, <1>2
<1> HIDE DEF bytes
<1>5. OutsideKept(mem, mem')
  <2>1. BytesInTask(bytes, dstByte, dstByte)
    BY <1>1, <1>3, <1>4 DEF BytesInTask
  <2> QED BY <1>1, <2>1, WrittenInTask DEF Memory
<1>6. Task' /\ Memory' /\ StaysInTask'
  BY <1>1, <1>5, StaysWritten
<1>7. Place'
  BY <1>1, UnchangedSize DEF EndUnits, Inv, Place
<1> QED BY <1>6, <1>7 DEF Inv

LEMMA TailUnitInv == ASSUME Inv, TailUnit PROVE Inv'
<1> DEFINE data   == mem[src]
           marked == Dst(dstByte) \cup {7 - dstBitsUsed}
           used   == dstBitsUsed + 1
           whole  == [k \in dstByte..dstByte + 2 |->
                        CASE k = dstByte -> marked
                          [] k = dstByte + 1 -> data
                          [] k = dstByte + 2 -> {}]
           split  == [k \in dstByte..dstByte + 1 |->
                        IF k = dstByte THEN marked \cup ShiftRight(data, used)
                                       ELSE ShiftLeft(data, 8 - used)]
<1>1. /\ ~wide /\ Task /\ StaysInTask /\ Memory /\ UNCHANGED task
      /\ src \in Nat /\ src < size /\ dstByte \in Nat /\ dstBitsUsed \in 0..7
      /\ 8 * dstByte + dstBitsUsed = 9 * (src + 1) /\ pc' = "tail" /\ src' = src + 1
  BY Bounds DEF TailUnit, Inv, Place
<1>2. /\ PayloadSize \in Nat /\ 8 * PayloadSize >= 9 * (size + 1)
      /\ Padding = 1 /\ EndOfTask = size + PayloadSize + Padding /\ size \in Nat
  BY <1>1, PayloadFits DEF Task
<1>3. dstByte + 2 <= PayloadSize
  BY <1>1, <1>2
<1>4. data \in Byte /\ Dst(dstByte) \in Byte /\ marked \in Byte
  <2>1. data \in Byte /\ Dst(dstByte) \in Byte
    BY <1>1, <1>2, <1>3, Bounds
  <2>2. 7 - dstBitsUsed \in 0..7
    BY <1>1
  <2> QED BY <2>1, <2>2 DEF Byte
<1>5. CASE used = 8
  <2>1. mem' = Written(mem, whole) /\ dstByte' = dstByte + 2 /\ dstBitsUsed' = 0
    BY <1>5 DEF TailUnit
  <2>2. DOMAIN whole = dstByte..dstByte + 2
    OBVIOUS
  <2>3. \A k \in dstByte..dstByte + 2 : whole[k] \in Byte
    <3>1. {} \in Byte
      BY DEF Byte
    <3> HIDE DEF data, marked
    <3>2. \A k \in dstByte..dstByte + 2 : k = dstByte \/ k = dstByte + 1 \/ k = dstByte + 2
      BY <1>1
    <3> QED BY <1>1, <1>4, <3>1, <3>2
  <2>4. size + (dstByte + 2) < EndOfTask
    BY <1>1, <1>2, <1>3
  <2> HIDE DEF whole
  <2>5. OutsideKept(mem, mem')
    <3>1. BytesInTask(whole, dstByte, dstByte + 2)
      BY <1>1, <2>2, <2>3, <2>4 DEF BytesInTask
    <3> QED BY <1>1, <2>1, <3>1, WrittenInTask DEF Memory
  <2>6. Task' /\ Memory' /\ StaysInTask'
    BY <1>1, <2>5, StaysWritten
  <2>7. Place'
    BY <1>1, <1>2, <1>3, <1>5, <2>1, UnchangedSize DEF Place
  <2> QED BY <2>6, <2>7 DEF Inv
<1>6. CASE used # 8
  <2>1. mem' = Written(mem, split) /\ dstByte' = dstByte + 1 /\ dstBitsUsed' = used
    BY <1>6 DEF TailUnit
  <2>2. DOMAIN split = dstByte..dstByte + 1
    OBVIOUS
  <2>3. \A k \in dstByte..dstByte + 1 : split[k] \in Byte
    <3>1. marked \cup ShiftRight(data, used) \in Byte
      BY <1>4, ShiftedByte DEF Byte
    <3>2. ShiftLeft(data, 8 - used) \in Byte
      BY ShiftedByte
    <3> HIDE DEF data, marked, used
    <3> QED BY <3>1, <3>2
  <2>4. size + (dstByte + 1) < EndOfTask
    BY <1>1, <1>2, <1>3
  <2> HIDE DEF split
  <2>5. OutsideKept(mem, mem')
    <3>1. BytesInTask(split, dstByte, dstByte + 1)
      BY <1>1, <2>2, <2>3, <2>4 DEF BytesInTask
    <3> QED BY <1>1, <2>1, <3>1, WrittenInTask DEF Memory
  <2>6. Task' /\ Memory' /\ StaysInTask'
    BY <1>1, <2>5, StaysWritten
  <2>7. Place'
    BY <1>1, <1>2, <1>3, <1>6, <2>1, UnchangedSize DEF Place
  <2> QED BY <2>6, <2>7 DEF Inv
<1> QED BY <1>5, <1>6

LEMMA BeginWideInv == ASSUME Inv, BeginWide PROVE Inv'
<1> DEFINE bytes == [k \in 0..3 |-> cmd[k + 1]]
<1>1. /\ wide /\ Task /\ StaysInTask /\ Memory /\ UNCHANGED task /\ src' = 0
      /\ mem' = Written(mem, bytes)
  BY DEF BeginWide, Inv, Place
<1>2. /\ PayloadSize = 2 * size + 4 /\ EndOfTask \in Nat /\ Padding \in 0..1
      /\ EndOfTask = size + PayloadSize + Padding /\ size \in Nat
  BY <1>1, PayloadFits DEF Task
<1>3. DOMAIN bytes = 0..3 /\ \A k \in 0..3 : bytes[k] \in Byte
  BY <1>1 DEF Task
<1>4. size + 3 < EndOfTask /\ 0 \in Nat /\ 3 \in Int
  BY <1>2
<1> HIDE DEF bytes
<1>5. OutsideKept(mem, mem')
  <2>1. BytesInTask(bytes, 0, 3)
    BY <1>3, <1>4 DEF BytesInTask
  <2> QED BY <1>1, <2>1, WrittenInTask DEF Memory
<1>6. Task' /\ Memory' /\ StaysInTask'
  BY <1>1, <1>5, StaysWritten
<1>7. Place'
  BY <1>1, <1>2, UnchangedSize DEF BeginWide, Inv, Place
<1> QED BY <1>6, <1>7 DEF Inv

LEMMA WideWordInv == ASSUME Inv, WideWord PROVE Inv'
<1> DEFINE word  == <<{}, {0, 2, 4}, mem[src], mem[src + 1]>>
           bytes == [k \in dstByte..dstByte + 3 |-> word[k - dstByte + 1]]
<1>1. /\ wide /\ Task /\ StaysInTask /\ Memory /\ UNCHANGED task /\ pc' = "words"
      /\ mem' = Written(mem, bytes) /\ src \in Nat /\ src < size /\ src % 2 = 0
      /\ dstByte = 2 * src + 4 /\ dstByte' = dstByte + 4 /\ src' = src + 2
      /\ dstBitsUsed' = dstBitsUsed /\ dstBitsUsed \in 0..7
  BY Bounds DEF WideWord, Inv, Place
<1>2. /\ PayloadSize = 2 * size + 4 /\ EndOfTask \in Nat /\ Padding \in 0..1
      /\ EndOfTask = size + PayloadSize + Padding /\ size \in Nat /\ size % 2 = 0
  BY <1>1, PayloadFits DEF Task
<1>3. src + 2 <= size
  BY <1>1, <1>2
<1>4. \A k \in dstByte..dstByte + 3 : bytes[k] \in Byte
  <2>1. {} \in Byte /\ {0, 2, 4} \in Byte /\ mem[src] \in Byte /\ mem[src + 1] \in Byte
    <3>1. mem[src] \in Byte /\ mem[src + 1] \in Byte
      BY <1>1, <1>2, <1>3, Bounds
    <3> QED BY <3>1 DEF Byte
  <2>2. \A n \in 1..4 : word[n] \in Byte
    <3>1. word[1] = {} /\ word[2] = {0, 2, 4} /\ word[3] = mem[src] /\ word[4] = mem[src + 1]
      OBVIOUS
    <3>2. \A n \in 1..4 : n = 1 \/ n = 2 \/ n = 3 \/ n = 4
      OBVIOUS
    <3> HIDE DEF word
    <3> QED BY <2>1, <3>1, <3>2
  <2> HIDE DEF word
  <2> QED BY <1>1, <2>2
<1>5. DOMAIN bytes = dstByte..dstByte + 3 /\ dstByte \in Nat /\ dstByte + 3 \in Int
  BY <1>1
<1>6. size + (dstByte + 3) < EndOfTask
  BY <1>1, <1>2, <1>3
<1> HIDE DEF bytes
<1>7. OutsideKept(mem, mem')
  <2>1. BytesInTask(bytes, dstByte, dstByte + 3)
    BY <1>4, <1>5, <1>6 DEF BytesInTask
  <2> QED BY <1>1, <2>1, WrittenInTask DEF Memory
<1>8. Task' /\ Memory' /\ StaysInTask'
  BY <1>1, <1>7, StaysWritten
<1>9. Place'
  BY <1>1, <1>2, <1>3, UnchangedSize DEF Place
<1> QED BY <1>8, <1>9 DEF Inv

\* The ends of the loops, and steps that change nothing.
LEMMA IdleInv ==
  ASSUME Inv, EndTail \/ EndWide \/ UNCHANGED vars
  PROVE  Inv'
<1>1. /\ Task /\ Memory /\ StaysInTask /\ UNCHANGED task /\ UNCHANGED mem
  BY DEF Inv, EndTail, EndWide, vars, task
<1>2. Task' /\ Memory' /\ StaysInTask'
  BY <1>1, StaysWritten DEF Memory, OutsideKept
<1>3. Place'
  BY <1>1, UnchangedSize DEF Inv, Place, EndTail, EndWide, vars
<1> QED BY <1>2, <1>3 DEF Inv

-----------------------------------------------------------------------------
(* The theorems *)

\* Every step of Interleave8BitSPITaskTo9Bit and Interleave16BitSPITaskTo32Bit keeps the place
\* of the next bit and the memory around the task.
THEOREM TaskInvariant == Spec => []Inv
<1>1. Init => Inv
  BY SizesAssumption, InitInv
<1>2. Inv /\ [Next]_vars => Inv'
  <2> SUFFICES ASSUME Inv, [Next]_vars PROVE Inv'
    OBVIOUS
  <2>1. CASE Begin
    BY <2>1, BeginInv
  <2>2. CASE FirstUnits
    BY <2>2, FirstUnitsInv
  <2>3. CASE MoreUnits
    BY <2>3, MoreUnitsInv
  <2>4. CASE EndUnits
    BY <2>4, EndUnitsInv
  <2>5. CASE TailUnit
    BY <2>5, TailUnitInv
  <2>6. CASE BeginWide
    BY <2>6, BeginWideInv
  <2>7. CASE WideWord
    BY <2>7, WideWordInv
  <2>8. CASE EndTail \/ EndWide \/ UNCHANGED vars
    BY <2>8, IdleInv
  <2> QED BY <2>1, <2>2, <2>3, <2>4, <2>5, <2>6, <2>7, <2>8 DEF Next, Step, Committed
<1> QED BY <1>1, <1>2, PTL DEF Spec

\* The position in the task never leaves it, nor the one in the byte, whatever the size.
THEOREM TypeCorrect == Spec => []TypeOK
<1>1. Inv => TypeOK
  BY DEF Inv, Task, Place, Memory, TypeOK
<1> QED BY <1>1, TaskInvariant, PTL

\* Expanding a task never touches its payload, nor what follows it in the ring, where
\* the SPI thread may be at work: AllocTask reserves enough for every size but 7.
THEOREM ExpandsInTask == Spec => []StaysInTask
<1>1. Inv => StaysInTask
  BY DEF Inv
<1> QED BY <1>1, TaskInvariant, PTL
=============================================================================
