-------------------------------- MODULE Gdt --------------------------------
(***************************************************************************)
(* The descriptor tables gdt_init (kernel/arch/x86_64/gdt.c), tss_init    *)
(* (syscall.c) and idt_set_gate (idt.c) build at boot, byte for byte.     *)
(* The GDT is the 56 bytes of uint64_t gdt[7]; gdt_set_gate and           *)
(* gdt_set_tss pack their arguments into the fields of the packed         *)
(* gdt_entry_t and tss_descriptor_t with the code's own masks and shifts  *)
(* (Bitwise).  The decode below is independent of that packing: it reads  *)
(* a descriptor the way the processor does (Intel SDM vol. 3, 3.4.5,      *)
(* 5.8, 7.2.3), with arithmetic on the bytes, and says which selector     *)
(* loads the processor accepts.                                            *)
(*                                                                         *)
(* A 64-bit address is four 16-bit words, least significant first, since  *)
(* TLC's integers are 32-bit.                                              *)
(***************************************************************************)
EXTENDS Naturals, Sequences, Bitwise

CONSTANT TssBase    \* tss_get_address(): &kernel_tss

ASSUME TssBase \in [1 .. 4 -> 0 .. 65535]

GDT_SIZE == 56      \* sizeof(gdt): seven uint64_t
TSS_SIZE == 104     \* sizeof(tss_t), packed: 4 + 3*8 + 8 + 7*8 + 8 + 2 + 2

\* The n little-endian bytes of v, as the packed structs lay them out.
LE(v, n) == [k \in 1 .. n |-> shiftR(v, 8 * (k - 1)) & 255]

\* Store a byte sequence at offset o.
Write(mem, o, bytes) ==
  [i \in DOMAIN mem |->
     IF o <= i /\ i < o + Len(bytes) THEN bytes[i - o + 1] ELSE mem[i]]

\* gdt_set_gate that keeps the low nibble of gran instead of its flags.
GdtSetGateLowNibble(mem, num, base, limit, access, gran) ==
  Write(mem, 8 * num,
        LE(limit & 65535, 2) \o LE(base & 65535, 2)
        \o LE(shiftR(base, 16) & 255, 1) \o <<access>>
        \o <<(shiftR(limit, 16) & 15) | (gran & 15)>>
        \o LE(shiftR(base, 24) & 255, 1))

\* gdt_set_gate: fields limit_low, base_low, base_mid, access, granularity,
\* base_high, in gdt_entry_t's order.
GdtSetGate(mem, num, base, limit, access, gran) ==
  Write(mem, 8 * num,
        LE(limit & 65535, 2) \o LE(base & 65535, 2)
        \o LE(shiftR(base, 16) & 255, 1) \o <<access>>
        \o <<(shiftR(limit, 16) & 15) | (gran & 240)>>
        \o LE(shiftR(base, 24) & 255, 1))

\* gdt_set_tss: a 16-byte system descriptor, access 0x89, granularity 0.
GdtSetTss(mem, num, base, limit) ==
  Write(mem, 8 * num,
        LE(limit & 65535, 2) \o LE(base[1], 2) \o LE(base[2] & 255, 1)
        \o <<137, 0>> \o LE(shiftR(base[2], 8) & 255, 1)
        \o LE(base[3], 2) \o LE(base[4], 2) \o LE(0, 4))

\* An address: a region and an offset into it; memset's zero is the null
\* region.
Null == [region |-> "null", offset |-> 0]

\* tss_init: a zeroed TSS whose rsp0 is the end of the 16 KiB
\* interrupt_stack and whose I/O map base is sizeof(tss_t).
TssInit ==
  [rsp0 |-> [region |-> "interrupt_stack", offset |-> 16384],
   iomap_base |-> TSS_SIZE]

\* gdt_init: clear, null, kernel code/data, user code/data, then the TSS.
Gdt ==
  LET g0 == GdtSetGate([i \in 0 .. GDT_SIZE - 1 |-> 0], 0, 0, 0, 0, 0)
      g1 == GdtSetGate(g0, 1, 0, 1048575, 154, 175)
      g2 == GdtSetGate(g1, 2, 0, 1048575, 146, 207)
      g3 == GdtSetGate(g2, 3, 0, 1048575, 250, 175)
      g4 == GdtSetGate(g3, 4, 0, 1048575, 242, 207)
  IN  GdtSetTss(g4, 5, TssBase, TSS_SIZE - 1)

GdtLimit == GDT_SIZE - 1

\* idt_set_gate: every gate names the kernel code selector; isr_init gives
\* vector 0x80 IDT_TYPE_USER_INT (0xEE) and the others IDT_TYPE_INTERRUPT
\* (0x8E).
IdtGate(vec) == [selector |-> 8, type_attr |-> IF vec = 128 THEN 238 ELSE 142]

-----------------------------------------------------------------------------
(* The processor's reading of the table (reference decode).               *)

Bit(b, k) == (b \div (2 ^ k)) % 2

\* Byte k of the descriptor a selector indexes.
DByte(sel, k) == Gdt[(sel \div 8) * 8 + k]

\* The selector indexes a GDT slot of `size` bytes inside the limit lgdt set.
InGdt(sel, size) ==
  /\ Bit(sel, 2) = 0
  /\ sel \div 8 > 0
  /\ (sel \div 8) * 8 + size - 1 <= GdtLimit

Dpl(sel) == (DByte(sel, 5) \div 32) % 4

Rpl(sel) == sel % 4

\* Present, code/data (S = 1).
Segment(sel) == InGdt(sel, 8) /\ Bit(DByte(sel, 5), 7) = 1 /\ Bit(DByte(sel, 5), 4) = 1

\* A CS the processor loads for a 64-bit task at privilege cpl: a
\* non-conforming code segment with L = 1, D = 0, DPL = RPL = cpl.
CodeAccepted(sel, cpl) ==
  /\ Segment(sel)
  /\ Bit(DByte(sel, 5), 3) = 1 /\ Bit(DByte(sel, 5), 2) = 0
  /\ Bit(DByte(sel, 6), 5) = 1 /\ Bit(DByte(sel, 6), 6) = 0
  /\ Dpl(sel) = cpl /\ Rpl(sel) = cpl

\* An SS: a writable data segment with DPL = RPL = cpl; in 64-bit mode a
\* null SS is accepted below ring 3.
StackAccepted(sel, cpl) ==
  \/ sel \div 4 = 0 /\ Rpl(sel) = cpl /\ cpl < 3
  \/ /\ Segment(sel)
     /\ Bit(DByte(sel, 5), 3) = 0 /\ Bit(DByte(sel, 5), 1) = 1
     /\ Dpl(sel) = cpl /\ Rpl(sel) = cpl

\* A DS/ES/FS/GS: a readable segment with DPL >= max(CPL, RPL).
DataAccepted(sel, cpl) ==
  /\ Segment(sel)
  /\ Bit(DByte(sel, 5), 3) = 0 \/ Bit(DByte(sel, 5), 1) = 1
  /\ Dpl(sel) >= cpl /\ Dpl(sel) >= Rpl(sel)

\* ltr: an available 64-bit TSS (S = 0, type 9), present, at least the
\* 104 bytes of a 64-bit TSS, whose base is the TSS the kernel filled.
TssAccepted(sel) ==
  LET b(k) == DByte(sel, k)
  IN  /\ InGdt(sel, 16)
      /\ b(5) % 32 = 9 /\ Bit(b(5), 7) = 1
      /\ b(0) + 256 * b(1) + 65536 * (b(6) % 16) >= TSS_SIZE - 1
      /\ <<b(2) + 256 * b(3), b(4) + 256 * b(7),
           b(8) + 256 * b(9), b(10) + 256 * b(11)>> = TssBase

\* int n from privilege cpl: a present gate of DPL >= cpl whose selector is
\* a ring-0 64-bit code segment; from ring 3 the TSS supplies a stack.
GateAccepted(vec, cpl) ==
  LET g == IdtGate(vec)
  IN  /\ Bit(g.type_attr, 7) = 1
      /\ (g.type_attr \div 32) % 4 >= cpl
      /\ g.type_attr % 16 \in {14, 15}
      /\ CodeAccepted(g.selector, 0)
      /\ cpl = 3 => TssInit.rsp0 # Null

\* Ring 3 has no port I/O: the I/O map base lies past the TSS limit, so the
\* processor finds no permission bitmap.
NoIoBitmap == TssInit.iomap_base > TSS_SIZE - 1

\* The loads gdt_init itself makes after lgdt: 0x10 into ds, es, fs, gs and
\* ss, 0x08 into cs by lretq, and 0x28 into the task register by ltr.
GdtInitLoads ==
  /\ DataAccepted(16, 0) /\ StackAccepted(16, 0)
  /\ CodeAccepted(8, 0)
  /\ TssAccepted(40)

====
