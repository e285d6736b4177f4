------------------------------ MODULE RegCodec ------------------------------
(***************************************************************************)
(* The calculations of modbus_framer: values of 32 bits in two registers,  *)
(* coils packed into bytes, the timers of a line, and the registers that   *)
(* the collector reads at once.                                            *)
(*                                                                         *)
(* A value of 32 bits is the sequence of its four bytes, the most          *)
(* significant one first, whatever type the caller reads it as; a byte of  *)
(* coils is the set of the numbers of its bits that are on.                *)
(***************************************************************************)
EXTENDS Integers, Sequences, FiniteSetsExt

Byte == 0 .. 255
Register == {r \in Nat : r < 65536}
Orders == {"ABCD", "BADC", "CDAB", "DCBA"}

\* Where each byte of a value comes from.
Shuffle(order) == CASE order = "ABCD" -> <<1, 2, 3, 4>>
                    [] order = "BADC" -> <<2, 1, 4, 3>>
                    [] order = "CDAB" -> <<3, 4, 1, 2>>
                    [] order = "DCBA" -> <<4, 3, 2, 1>>

\* mb_u32_from_regs, mb_s32_from_regs, mb_f32_from_regs
FromRegs(regs, order) ==
    LET b == <<regs[1] \div 256, regs[1] % 256, regs[2] \div 256, regs[2] % 256>> IN
    [i \in 1 .. 4 |-> b[Shuffle(order)[i]]]

\* mb_u32_to_regs, mb_f32_to_regs
ToRegs(bytes, order) ==
    LET b == [i \in 1 .. 4 |-> bytes[Shuffle(order)[i]]] IN
    <<b[1] * 256 + b[2], b[3] * 256 + b[4]>>

NBytes(n) == (n + 7) \div 8

\* pack_bits and unpack_bits, bits and bytes numbered from 0
PackBits(bits, n) ==
    [k \in 0 .. NBytes(n) - 1 |->
        {b \in 0 .. 7 : 8 * k + b < n /\ bits[8 * k + b] # 0}]

UnpackBits(bytes, n) == [i \in 0 .. n - 1 |-> IF i % 8 \in bytes[i \div 8] THEN 1 ELSE 0]

MB_MIN_T15_US == 1000

\* mb_apply_line_defaults (t15_min_us is never set by a caller) and
\* calc_modbus_timers: one and a half and three and a half characters of eleven
\* bits or so, rounded, or fixed times on a fast line.
Timers(line) ==
    LET bits == 1 + line.data_bits + (IF line.parity = "N" THEN 0 ELSE 1) + line.stop_bits
        t15 == IF line.baud > 19200 THEN 750
               ELSE (3 * bits * 1000000 + line.baud) \div (2 * line.baud)
        t35 == IF line.baud > 19200 THEN 1750
               ELSE (7 * bits * 1000000 + line.baud) \div (2 * line.baud) IN
    [t15 |-> IF t15 < MB_MIN_T15_US THEN MB_MIN_T15_US ELSE t15, t35 |-> t35]

\* collect_decode_temp_c, in tenths of a degree
DecodeTemp(raw, signed) == IF signed /\ raw >= 32768 THEN raw - 65536 ELSE raw

MB_MAX_READ_REGS == 125

\* collect_read_snapshot: which registers are asked for, <<first, quantity>> one
\* after the other; all at once when they are close together.  The quantity is
\* kept in 16 bits.
QuantityShort(S) == (Max(S) - Min(S)) % 65536     \* a slip
Quantity(S) == (Max(S) - Min(S) + 1) % 65536

Wanted(temp, hum, device) == {temp, hum} \cup IF device >= 0 THEN {device} ELSE {}

SnapshotReads(temp, hum, device) ==
    LET S == Wanted(temp, hum, device) IN
    IF Quantity(S) <= MB_MAX_READ_REGS THEN <<<<Min(S), Quantity(S)>>>>
    ELSE IF device >= 0 THEN <<<<hum, 1>>, <<temp, 1>>, <<device, 1>>>>
    ELSE <<<<hum, 1>>, <<temp, 1>>>>
=============================================================================
