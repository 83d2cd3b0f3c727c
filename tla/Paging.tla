------------------------------- MODULE Paging -------------------------------
(***************************************************************************)
(* The memory map of the emulated calculators (emu/x*/x*_io.c, _memory.c): *)
(* which page of the chips the program sees in each quarter of its 64 KB,  *)
(* and the translation of addresses, for each of the twelve models.        *)
(*                                                                         *)
(* A model has ROM or Flash pages from 0 and RAM pages after them. r is    *)
(* the registers of its hardware, map the page in each of the four slots.  *)
(***************************************************************************)
EXTENDS Z80Alu

Models == {"x1", "x2", "x3", "x5", "x6", "x7", "xp", "x4", "xs", "xz", "xn", "xc"}
PlusModels == {"x7", "xp"}
SilverModels == {"x4", "xs", "xz", "xn", "xc"}

\* Pages of ROM or Flash, and of RAM; the RAM of the TI-81 is half a page.
RomPages == [x1 |-> 2, x2 |-> 8, x3 |-> 16, x5 |-> 8, x6 |-> 16, x7 |-> 32, xp |-> 32,
             x4 |-> 64, xs |-> 128, xz |-> 128, xn |-> 128, xc |-> 256]
RamPages == [x1 |-> 1, x2 |-> 2, x3 |-> 2, x5 |-> 2, x6 |-> 8, x7 |-> 2, xp |-> 2,
             x4 |-> 8, xs |-> 8, xz |-> 8, xn |-> 8, xc |-> 8]

PageSize == \h4000
Quarter(A) == A \div PageSize
Within(A) == A % PageSize
NoAddress == -1  \* 0xffffffff

Even(page) == page - (page % 2)

-----------------------------------------------------------------------------
(***************************************************************************)
(* setup_mapping of each model                                             *)
(***************************************************************************)
Bank(ram, v, rom, nram) == IF ram THEN rom + (v % nram) ELSE (v % rom)

x1_page(ram, low) == IF ram THEN 2 ELSE IF low THEN 1 ELSE 0

x1_setup_mapping(r) ==
  CASE r.HW_VERSION = 1 -> <<0, x1_page(BitOf(r.PORT5, 6), BitOf(r.PORT5, 0)),
                             x1_page(BitOf(r.PORT6, 6), BitOf(r.PORT6, 0)), 2>>
    [] r.HW_VERSION = 2 -> <<0, x1_page(BitOf(r.PORT2, 6), BitOf(r.PORT2, 0)),
                             x1_page(BitOf(r.PORT2, 7), BitOf(r.PORT2, 3)), 2>>
    [] OTHER -> <<0, 1, 0, 2>>

\* With bit 0 of port 4 the first bank is two pages long.
Paired(wide, a, odd, b, top) == IF wide THEN <<0, Even(a), odd, b>> ELSE <<0, a, b, top>>

x2_setup_mapping(r) ==
  LET a == Bank(BitOf(r.PORT2, 6), r.PORT2, 8, 2)
      b == Bank(BitOf(r.PORT2, 7), r.PORT2 \div 8, 8, 2)
  IN Paired(BitOf(r.PORT4, 0), a, Even(a) + 1, b, 8)

x3_setup_mapping(r) ==
  LET a == IF BitOf(r.PORT2, 6) THEN 16 + (r.PORT2 % 2) ELSE r.ROM_BANK + (r.PORT2 % 8)
      b == IF BitOf(r.PORT2, 7) THEN 16 + ((r.PORT2 \div 8) % 2)
           ELSE r.ROM_BANK + ((r.PORT2 \div 8) % 8)
  IN Paired(BitOf(r.PORT4, 0), a, Even(a) + 1, b, 16)

x5_setup_mapping(r) ==
  <<0, Bank(BitOf(r.PORT5, 6), r.PORT5, 8, 2), Bank(BitOf(r.PORT6, 6), r.PORT6, 8, 2), 8>>

x6_setup_mapping(r) ==
  <<0, Bank(BitOf(r.PORT5, 6), r.PORT5, 16, 8), Bank(BitOf(r.PORT6, 6), r.PORT6, 16, 8), 16>>

\* Here the second half of a wide bank is the page itself.
x7_setup_mapping(r) ==
  LET a == Bank(BitOf(r.PORT6, 6), r.PORT6, 32, 2)
  IN Paired(BitOf(r.PORT4, 0), a, a, Bank(BitOf(r.PORT7, 6), r.PORT7, 32, 2), 32)

xp_setup_mapping(r) ==
  LET a == Bank(BitOf(r.PORT6, 6), r.PORT6, 32, 2)
  IN Paired(BitOf(r.PORT4, 0), a, a, Bank(BitOf(r.PORT7, 6), r.PORT7, 32, 2), 32)

\* The models from the TI-83 Plus SE have a third bank.
ThreeBanks(r, rom) ==
  LET a == Bank(BitOf(r.PORT6, 7), r.PORT6, rom, 8)
      b == Bank(BitOf(r.PORT7, 7), r.PORT7, rom, 8)
  IN Paired(BitOf(r.PORT4, 0), a, Even(a) + 1, b, rom + (r.PORT5 % 8))

x4_setup_mapping(r) == ThreeBanks(r, 64)
xs_setup_mapping(r) == ThreeBanks(r, 128)
xz_setup_mapping(r) == ThreeBanks(r, 128)
xn_setup_mapping(r) == ThreeBanks(r, 128)

\* 256 pages of Flash: the eighth bit of a page is in port E or F.
xc_setup_mapping(r) ==
  LET flash(v, high) == (v % 128) + 128 * (high % 2)
      a == IF BitOf(r.PORT6, 7) THEN 256 + (r.PORT6 % 8) ELSE flash(r.PORT6, r.PORTE)
      b == IF BitOf(r.PORT7, 7) THEN 256 + (r.PORT7 % 8) ELSE flash(r.PORT7, r.PORTF)
  IN Paired(BitOf(r.PORT4, 0), a, Even(a) + 1, b, 256 + (r.PORT5 % 8))

setup_mapping(hw, r) ==
  CASE hw = "x1" -> x1_setup_mapping(r) [] hw = "x2" -> x2_setup_mapping(r)
    [] hw = "x3" -> x3_setup_mapping(r) [] hw = "x5" -> x5_setup_mapping(r)
    [] hw = "x6" -> x6_setup_mapping(r) [] hw = "x7" -> x7_setup_mapping(r)
    [] hw = "xp" -> xp_setup_mapping(r) [] hw = "x4" -> x4_setup_mapping(r)
    [] hw = "xs" -> xs_setup_mapping(r) [] hw = "xz" -> xz_setup_mapping(r)
    [] hw = "xn" -> xn_setup_mapping(r) [] hw = "xc" -> xc_setup_mapping(r)

-----------------------------------------------------------------------------
(***************************************************************************)
(* The physical address that a read or a write of the Z80 goes to. From    *)
(* the TI-83 Plus SE on, ports 27 and 28 lay a part of the first RAM page  *)
(* over the end of the last slot, and of the second over the start of the  *)
(* third.                                                                  *)
(***************************************************************************)
Mapped(map, A) == map[Quarter(A) + 1]

\* The RAM of the TI-81 appears twice.
Mirrored(pa) == IF pa >= \h8000 THEN \h8000 + (pa % \h2000) ELSE (pa % \h8000)

Overlaid(r, map, A, ram) ==
  CASE A >= \h8000 /\ A > \hFFFF - 64 * r.PORT27 -> ram
    [] A >= \h8000 /\ A <= \hFFFF - 64 * r.PORT27 /\ A < \h8000 + 64 * r.PORT28 -> ram + 1
    [] OTHER -> Mapped(map, A)

page_of(hw, r, map, A) ==
  IF hw \in SilverModels THEN Overlaid(r, map, A, RomPages[hw]) ELSE Mapped(map, A)

address(hw, r, map, A) ==
  LET pa == page_of(hw, r, map, A) * PageSize + Within(A)
  IN IF hw = "x1" THEN Mirrored(pa) ELSE pa

-----------------------------------------------------------------------------
(***************************************************************************)
(* The debugger's translation, to a physical address and back              *)
(***************************************************************************)
x1_mem_ltop(map, A) == LET pa == Mapped(map, A) * PageSize + Within(A)
                       IN IF pa >= \h8000 THEN \h8000 + (pa % \h2000) ELSE pa
x1_mem_ptol(pa) == IF pa >= \h8000 THEN \hE000 + (pa % \h2000) ELSE pa

\* x2, x3, x5, x6, x7 and xp
x2_mem_ltop(map, A) == Mapped(map, A) * PageSize + Within(A)

x2_mem_ptol(map, pa) ==
  LET shows == {i \in 0..3 : map[i + 1] = Quarter(pa)}
  IN IF shows = {} THEN NoAddress
     ELSE (CHOOSE i \in shows : \A j \in shows : i <= j) * PageSize + Within(pa)

OverlaidToLogical(r, map, pa, ram) ==
  LET page == Quarter(pa)
      a == Within(pa)
      third == page = IF a < 64 * r.PORT28 THEN ram + 1 ELSE map[3]
      fourth == page = IF a >= PageSize - 64 * r.PORT27 THEN ram ELSE map[4]
  IN CASE page = 0 -> a
       [] page # 0 /\ page = map[2] -> \h4000 + a
       [] page # 0 /\ page # map[2] /\ third -> \h8000 + a
       [] page # 0 /\ page # map[2] /\ ~third /\ fourth -> \hC000 + a
       [] OTHER -> NoAddress

x4_mem_ltop(r, map, A) == Overlaid(r, map, A, 64) * PageSize + Within(A)
xs_mem_ltop(r, map, A) == Overlaid(r, map, A, 128) * PageSize + Within(A)
xz_mem_ltop(r, map, A) == Overlaid(r, map, A, 128) * PageSize + Within(A)
xn_mem_ltop(r, map, A) == Overlaid(r, map, A, 128) * PageSize + Within(A)
xc_mem_ltop(r, map, A) == Overlaid(r, map, A, 256) * PageSize + Within(A)
x4_mem_ptol(r, map, pa) == OverlaidToLogical(r, map, pa, 64)
xs_mem_ptol(r, map, pa) == OverlaidToLogical(r, map, pa, 128)
xz_mem_ptol(r, map, pa) == OverlaidToLogical(r, map, pa, 128)
xn_mem_ptol(r, map, pa) == OverlaidToLogical(r, map, pa, 128)
xc_mem_ptol(r, map, pa) == OverlaidToLogical(r, map, pa, 256)

mem_ltop(hw, r, map, A) ==
  CASE hw = "x1" -> x1_mem_ltop(map, A)
    [] hw = "x4" -> x4_mem_ltop(r, map, A) [] hw = "xs" -> xs_mem_ltop(r, map, A)
    [] hw = "xz" -> xz_mem_ltop(r, map, A) [] hw = "xn" -> xn_mem_ltop(r, map, A)
    [] hw = "xc" -> xc_mem_ltop(r, map, A) [] OTHER -> x2_mem_ltop(map, A)

mem_ptol(hw, r, map, pa) ==
  CASE hw = "x1" -> x1_mem_ptol(pa)
    [] hw = "x4" -> x4_mem_ptol(r, map, pa) [] hw = "xs" -> xs_mem_ptol(r, map, pa)
    [] hw = "xz" -> xz_mem_ptol(r, map, pa) [] hw = "xn" -> xn_mem_ptol(r, map, pa)
    [] hw = "xc" -> xc_mem_ptol(r, map, pa) [] OTHER -> x2_mem_ptol(map, pa)

-----------------------------------------------------------------------------
(***************************************************************************)
(* What is special about a page                                            *)
(***************************************************************************)
\* The certificate cannot be read while the Flash is locked.
Certificate == [x7 |-> \h1E, xp |-> \h1E, x4 |-> \h3E, xs |-> \h7E, xz |-> \h7E,
                xn |-> \h7E, xc |-> \hFE]
read_protected(hw, unlock, page) ==
  hw \in DOMAIN Certificate /\ page = Certificate[hw] /\ ~unlock

\* The pages whose code may unlock the Flash (readbyte)
Trusted ==
  [x7 |-> \h1C..\h1F, xp |-> \h1C..\h1F, x4 |-> \h2C..\h2F \cup \h3C..\h3F,
   xs |-> \h7C..\h7F, xz |-> \h6C..\h6F \cup \h7C..\h7F,
   xn |-> \h6C..\h6F \cup \h7C..\h7F, xc |-> \hEC..\hEF \cup \hFC..\hFF]

\* The exceptions of executing at A, on a page (rdmem_m1).
x7_exceptions(r, page) ==
  {x \in {"flash_exec"} : BitOf(r.NOEXEC, page % 4)}

xp_exceptions(r, page) ==
  LET mask == <<0, r.NOEXEC1, r.NOEXEC2, r.NOEXEC3, r.NOEXEC4>>[page \div 8 + 1]
  IN IF ~BitOf(mask, page % 8) THEN {}
     ELSE IF page > \h1F THEN {"ram_exec"} ELSE {"flash_exec"}

flash_limits(page, first, last) ==
  {x \in {"flash_exec"} : first <= page /\ page <= last}

\* The mask of port 21 leaves out the bits that tell the mirrors of RAM apart.
ram_limits(r, A, page) ==
  LET pa == page * PageSize + Within(A)
      m == (((pa % (r.NO_EXEC_RAM_MASK + \h400))) \div \h400) * \h400
  IN {x \in {"ram_exec"} : m < r.NO_EXEC_RAM_LOWER \/ m > r.NO_EXEC_RAM_UPPER}

x4_exceptions(r, A, page) ==
  IF page < 64 THEN flash_limits(page, r.PORT22, r.PORT23) ELSE ram_limits(r, A, page)
xs_exceptions(r, A, page) ==
  IF page < 128 THEN flash_limits(page, r.PORT22, r.PORT23) ELSE ram_limits(r, A, page)
xz_exceptions(r, A, page) ==
  IF page < 128 THEN flash_limits(page, r.PORT22, r.PORT23) ELSE ram_limits(r, A, page)
xn_exceptions(r, page) ==
  flash_limits(page, r.PORT22, r.PORT23)
    \cup {x \in {"ram_exec"} : page >= 128 /\ BitOf(r.NO_EXEC_RAM, page % 8)}
xc_exceptions(r, A, page) ==
  IF page < 256
  THEN flash_limits(page, r.PORT22 + 256 * (r.PORT24 % 2),
                    r.PORT23 + 256 * ((r.PORT24 \div 2) % 2))
  ELSE ram_limits(r, A, page)

exceptions(hw, r, A, page) ==
  CASE hw = "x7" -> x7_exceptions(r, page) [] hw = "xp" -> xp_exceptions(r, page)
    [] hw = "x4" -> x4_exceptions(r, A, page) [] hw = "xs" -> xs_exceptions(r, A, page)
    [] hw = "xz" -> xz_exceptions(r, A, page) [] hw = "xn" -> xn_exceptions(r, page)
    [] hw = "xc" -> xc_exceptions(r, A, page) [] OTHER -> {}
=============================================================================
