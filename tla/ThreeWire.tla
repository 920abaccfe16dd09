----------------------------- MODULE ThreeWire -----------------------------
(***************************************************************************)
(* SPI_3WIRE_PROTOCOL: a display without a data/control line is told with  *)
(* each word whether it is a command or data.  CommitTask therefore        *)
(* expands a task in place, behind its own data:                           *)
(*                                                                         *)
(*   narrow  a bit before each byte, 0 for a command and 1 for data, the   *)
(*           whole filled with zeroes up to a multiple of 72 bits          *)
(*           (Interleave8BitSPITaskTo9Bit);                                *)
(*   wide    SPI_32BIT_COMMANDS, two bytes before each two                 *)
(*           (Interleave16BitSPITaskTo32Bit).                              *)
(*                                                                         *)
(* A byte is the set of its bits that are 1, bit 7 the highest, so that    *)
(* "|" is a union.  mem is the ring buffer from task->data on, a few bytes *)
(* of whatever follows the task included.                                  *)
(***************************************************************************)
EXTENDS Integers, Sequences

CONSTANTS
  NarrowSizes, WideSizes,  \* size8BitTask: bytes of payload, in each kind of build
  Commands,                \* bytes
  Contents,                \* bytes of payload
  Fill                     \* what all other bytes are, of the payload and of the ring

Byte == SUBSET (0..7)

\* No task has 7 bytes of payload: of uint32_t size8BitTask, "size8BitTask - 8" would be
\* four billion, and the loop would not end.  A wide task goes by pairs.
ASSUME SizesAssumption ==
  /\ NarrowSizes \subseteq Nat \ {7}
  /\ WideSizes \subseteq Nat /\ \A n \in WideSizes : n % 2 = 0
  /\ Commands \subseteq Byte /\ Contents \subseteq Byte /\ Fill \subseteq Byte

VARIABLES
  wide, size, cmd, payload, fill,  \* the task, and what the ring held before
  pc,
  mem,                             \* the ring buffer from task->data on
  src, dstByte, dstBitsUsed        \* as in the code

task == <<wide, size, cmd, payload, fill>>
vars == <<task, pc, mem, src, dstByte, dstBitsUsed>>

Padding == IF wide THEN 0 ELSE 1     \* SPI_9BIT_TASK_PADDING_BYTES
Beyond  == 2     \* bound: bytes behind the task that are looked at

ShiftLeft(b, n)  == {k + n : k \in b} \cap 0..7
ShiftRight(b, n) == {k - n : k \in b} \cap 0..7

\* As it would be if the bytes were rounded up only to whole bytes.
NumBytesRounded(n) == IF wide THEN n * 2 + 4 ELSE ((n + 1) * 9 + 7) \div 8

\* NumBytesNeededFor32BitSPITask, NumBytesNeededFor9BitSPITask.
NumBytesNeeded(n) ==
  IF wide THEN n * 2 + 4
          ELSE ((((n + 1) * 9 + 71) \div 72) * 72) \div 8

PayloadSize == NumBytesNeeded(size)
EndOfTask   == size + PayloadSize + Padding

\* The byte at dst[i], and the memory after some bytes of dst were written.
Dst(i) == mem[size + i]
Written(m, bytes) == [a \in DOMAIN m |-> IF a - size \in DOMAIN bytes THEN bytes[a - size] ELSE m[a]]

Init ==
  /\ wide \in BOOLEAN
  /\ size \in IF wide THEN WideSizes ELSE NarrowSizes
  /\ cmd \in IF wide THEN {<<{}, {0, 4}, {}, c>> : c \in Commands} ELSE Commands
  /\ fill \in Fill
  \* One byte of its own among others that are all the same: each bit of the result depends
  \* on one bit of the task.
  /\ \E at \in 0..size, c \in Contents, f \in Fill :
       payload = [i \in 0..size - 1 |-> IF i = at THEN c ELSE f]
  /\ pc = "begin"
  /\ mem = [a \in 0..EndOfTask + Beyond - 1 |-> IF a < size THEN payload[a] ELSE fill]
  /\ src = 0 /\ dstByte = 0 /\ dstBitsUsed = 0

-----------------------------------------------------------------------------
(* Interleave8BitSPITaskTo9Bit *)

\* The bytes at dst[at] for eight units: the first with a bit of its own, seven of data.
EightUnits(at, first, units) ==
  [i \in at..at + 8 |->
     LET k == i - at
     IN  CASE k = 0 -> first \cup ShiftRight(units[0], 1)
           [] k \in 1..7 -> ShiftLeft(units[k - 1], 8 - k) \cup {7 - k} \cup ShiftRight(units[k], k + 1)
           [] k = 8 -> units[7]]

\* As it would be if the end of the task were left as it was.
BeginUncleared ==
  /\ pc = "begin" /\ ~wide
  /\ mem' = Written(mem, [i \in 0..1 |-> IF i = 0 THEN ShiftRight(cmd, 1) ELSE ShiftLeft(cmd, 7)])
  /\ dstByte' = 1 /\ dstBitsUsed' = 1
  /\ pc' = IF size >= 7 THEN "first" ELSE "tail"
  /\ UNCHANGED <<task, src>>

\* The last 72 bits and the padding are cleared, then the command is written.
Begin ==
  /\ pc = "begin" /\ ~wide
  /\ mem' = LET end == PayloadSize - 9
                cleared == Written(mem, [i \in end..PayloadSize + Padding - 1 |-> {}])
            IN  Written(cleared, [i \in 0..1 |-> IF i = 0 THEN ShiftRight(cmd, 1)
                                                          ELSE ShiftLeft(cmd, 7)])
  /\ dstByte' = 1 /\ dstBitsUsed' = 1
  /\ pc' = IF size >= 7 THEN "first" ELSE "tail"
  /\ UNCHANGED <<task, src>>

\* "If there are at least 7 bytes in the data set": with the command they fill nine bytes.
FirstUnits ==
  /\ pc = "first"
  /\ mem' = LET units == [k \in 0..7 |-> IF k = 0 THEN cmd ELSE mem[k - 1]]
            IN  Written(mem, EightUnits(0, {}, units))
  /\ dstByte' = 9 /\ dstBitsUsed' = 0 /\ src' = 7
  /\ pc' = "groups"
  /\ UNCHANGED task

\* As it would be if seven bytes were taken for a group.
MoreUnitsOfSeven ==
  /\ pc = "groups" /\ src <= size - 7
  /\ mem' = Written(mem, EightUnits(dstByte, {7}, [k \in 0..7 |-> mem[src + k]]))
  /\ dstByte' = dstByte + 9 /\ src' = src + 8
  /\ UNCHANGED <<task, pc, dstBitsUsed>>

\* "As long as we have multiples of 8 bytes left".
MoreUnits ==
  /\ pc = "groups" /\ src <= size - 8
  /\ mem' = Written(mem, EightUnits(dstByte, {7}, [k \in 0..7 |-> mem[src + k]]))
  /\ dstByte' = dstByte + 9 /\ src' = src + 8
  /\ UNCHANGED <<task, pc, dstBitsUsed>>

\* The next byte to be written is cleared, which may be that of the padding.
EndUnits ==
  /\ pc = "groups" /\ src > size - 8
  /\ mem' = Written(mem, [i \in {dstByte} |-> {}])
  /\ pc' = "tail"
  /\ UNCHANGED <<task, src, dstByte, dstBitsUsed>>

\* "Fill tail data bytes, slow path": the bit, then the byte in what is left of one and the
\* beginning of the next, or in a byte of its own (which the groups leave no unit for).
TailUnit ==
  /\ pc = "tail" /\ src < size
  /\ LET data   == mem[src]
         marked == Dst(dstByte) \cup {7 - dstBitsUsed}
         used   == dstBitsUsed + 1
     IN  IF used = 8
           THEN /\ mem' = Written(mem, [i \in dstByte..dstByte + 2 |->
                            CASE i = dstByte -> marked
                              [] i = dstByte + 1 -> data
                              [] i = dstByte + 2 -> {}])
                /\ dstByte' = dstByte + 2 /\ dstBitsUsed' = 0
           ELSE /\ mem' = Written(mem, [i \in dstByte..dstByte + 1 |->
                            IF i = dstByte THEN marked \cup ShiftRight(data, used)
                                           ELSE ShiftLeft(data, 8 - used)])
                /\ dstByte' = dstByte + 1 /\ dstBitsUsed' = used
  /\ src' = src + 1
  /\ UNCHANGED <<task, pc>>

EndTail ==
  /\ pc = "tail" /\ src >= size
  /\ pc' = "done"
  /\ UNCHANGED <<task, mem, src, dstByte, dstBitsUsed>>

-----------------------------------------------------------------------------
(* Interleave16BitSPITaskTo32Bit: 32-bit words, the lowest byte first *)

BeginWide ==
  /\ pc = "begin" /\ wide
  /\ mem' = Written(mem, [i \in 0..3 |-> cmd[i + 1]])
  /\ dstByte' = 4
  /\ pc' = "words"
  /\ UNCHANGED <<task, src, dstBitsUsed>>

\* dst[i] = 0x1500 | (src[i] << 16)
WideWord ==
  /\ pc = "words" /\ src < size
  /\ mem' = LET word == <<{}, {0, 2, 4}, mem[src], mem[src + 1]>>
            IN  Written(mem, [i \in dstByte..dstByte + 3 |-> word[i - dstByte + 1]])
  /\ dstByte' = dstByte + 4 /\ src' = src + 2
  /\ UNCHANGED <<task, pc, dstBitsUsed>>

EndWide ==
  /\ pc = "words" /\ src >= size
  /\ pc' = "done"
  /\ UNCHANGED <<task, mem, src, dstByte, dstBitsUsed>>

\* The task is published.
Committed == pc = "done" /\ UNCHANGED vars

Step ==
  \/ Begin \/ FirstUnits \/ MoreUnits \/ EndUnits \/ TailUnit \/ EndTail
  \/ BeginWide \/ WideWord \/ EndWide

Next == Step \/ Committed

Spec == Init /\ [][Next]_vars /\ WF_vars(Step)

-----------------------------------------------------------------------------
(* Properties *)

\* Types; the position in the task never leaves it, nor the one in the byte.
TypeOK ==
  /\ wide \in BOOLEAN /\ size \in Nat /\ fill \in Byte
  /\ pc \in {"begin", "first", "groups", "tail", "words", "done"}
  /\ \A a \in DOMAIN mem : mem[a] \in Byte
  /\ src \in 0..size /\ dstByte \in 0..PayloadSize /\ dstBitsUsed \in 0..7

\* What the display must see: bit j of the narrow stream, the highest bit of a byte first;
\* byte j of the wide one.  The zeroes at the end are commands 0, which it ignores.
NarrowBit(j) ==
  LET unit == j \div 9
      bit  == 8 - (j % 9)
  IN  IF unit > size THEN FALSE
      ELSE IF bit = 8 THEN unit > 0
      ELSE bit \in (IF unit = 0 THEN cmd ELSE payload[unit - 1])

WideByte(j) ==
  IF j < 4 THEN cmd[j + 1]
  ELSE CASE j % 4 = 0 -> {}
         [] j % 4 = 1 -> {0, 2, 4}
         [] OTHER -> payload[((j - 4) \div 4) * 2 + (j % 4) - 2]

Framed ==
  \A i \in 0..PayloadSize - 1 :
    IF wide THEN Dst(i) = WideByte(i)
            ELSE \A b \in 0..7 : b \in Dst(i) <=> NarrowBit(8 * i + 7 - b)

\* Every task ends up framed: each word with its mark, all of them in order, and behind
\* them nothing of what the ring held before.
TaskFramed == <>(pc = "done" /\ Framed)

\* The task expands into what AllocTask has reserved: the payload it is made from stays as
\* it is, and so does what lies behind, which may be a task the SPI thread is about to run.
StaysInTask ==
  /\ \A a \in 0..size - 1 : mem[a] = payload[a]
  /\ \A a \in EndOfTask..EndOfTask + Beyond - 1 : mem[a] = fill
=============================================================================
