---------------------------- MODULE MCFrameAlloc ---------------------------
(***************************************************************************)
(* Memory maps for the frame allocator, in bytes. QEMU's virt board puts   *)
(* its memory at 0x40000000 (aarch64) or 0x80000000 (riscv64); the maps    *)
(* here start at 0x8000000 instead, a multiple of every block size in use, *)
(* so that addresses fit TLC's integers. An image ends two to five         *)
(* megabytes in: BASE_ADDRESS plus a 2 MB heap array plus code and data.   *)
(***************************************************************************)
EXTENDS FrameAlloc

MB == 1048576

Base == 128 * MB

Board(from, to, image, kernel) == [base |-> from, end |-> to, image |-> image, kernel |-> kernel]

\* `qemu -machine virt' without -m, as the Makefile runs it: 128 MB. BASE_ADDRESS is
\* half a megabyte (aarch64) or two (riscv64) into the memory.
QemuMaps ==
  { Board(Base, Base + 128 * MB, Base + MB \div 2, Base + k) :
      k \in { 2 * MB + 524288 + 40, 2 * MB + 786432, 3 * MB } }
    \cup { Board(Base, Base + 128 * MB, Base + 2 * MB, Base + k) : k \in { 4 * MB + 1000, 5 * MB + 4097 } }

\* Boards whose memory is small, or does not contain the image, or hardly more than it.
OddMaps ==
  { Board(Base + 100, Base + 6 * MB + 50, Base - 2 * MB, Base),
    Board(Base + 100, Base + 200, Base - 2 * MB, Base + 100),
    Board(Base, Base + 6 * MB + 50, Base + 7 * MB, Base + 9 * MB),
    Board(Base, Base + 4 * MB, Base + MB, Base + 4 * MB - 100),
    Board(Base, Base + 4 * MB, Base + MB, Base + 4 * MB - 4096),
    Board(Base, Base + 9 * MB, Base, Base + 3 * MB + 1) }

AllMaps == QemuMaps \cup OddMaps

\* A board whose memory ends where the image ends.
FullMaps == { Board(Base, Base + 4 * MB, Base + MB, Base + 4 * MB) }

\* riscv64 with `-m 152': the image ends between 4 and 6 MB, and the memory
\* is an odd number of 8 MB blocks.
TailMaps == { Board(Base, Base + 152 * MB, Base + 2 * MB, Base + 4 * MB + 300000) }
=============================================================================
