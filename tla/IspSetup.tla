------------------------------ MODULE IspSetup ------------------------------
(***************************************************************************)
(* The ISP's setup by mini_streamer.c, isp_setup(): the buffer pool, then  *)
(* the register table of src/sdk/lib/isp_init.c written through /dev/mem,  *)
(* then processing enabled.  A register holds the name of the table it was *)
(* last written from: the values are data of the vendor's, the places and  *)
(* the order are the program.                                              *)
(***************************************************************************)
EXTENDS IspWindow

(* n words from byte offset o on. *)
Words(o, n) == {o + 4 * i : i \in 0 .. n - 1}
From(first, last) == Words(first, (last - first) \div 4 + 1)

MapSize == \h3240   \* ISP_REG_SIZE
EnableReg == \h100

(* The registers of each table; the gamma table goes to four places.       *)
GammaAt(k) == <<\h1a40, \h1b80, \h1cc0, \h1e00>>[k]

IsppInit ==
    [ispp |-> {\h8, \h494, \h13c, \h140, \h150, \h154, \h578, \h57c} \cup From(\h80, \hb8),
     gamma1 |-> Words(GammaAt(1), 80), gamma2 |-> Words(GammaAt(2), 80),
     gamma3 |-> Words(GammaAt(3), 80), gamma4 |-> Words(GammaAt(4), 80)]

IspfInit ==
    [ispf |-> {\h0e0, \h0e4, \h1c4, \h538, \h53c, \h2a8, \h600, \hc74}
              \cup From(\h400, \h414) \cup From(\h50c, \h520) \cup From(\h548, \h55c)
              \cup From(\h570, \h57c) \cup From(\hc2c, \hc70) \cup From(\haac, \hb48)
              \cup From(\he00, \he2c) \cup From(\ha30, \ha44) \cup From(\ha60, \ha78)
              \cup From(\h250, \h26c) \cup From(\h278, \h29c) \cup From(\h2c0, \h2c8)
              \cup From(\h590, \h5ac) \cup From(\h5b4, \h5d0) \cup From(\h5d8, \h5fc)
              \cup From(\h618, \h620) \cup From(\h664, \h66c),
     drc |-> Words(\h690, 129)]

(* The line strides, between the DMA addresses. Variant: one word too far. *)
Strides_Beside == {\h2ec, \h2f4, \h2fc, \h304, \h30c, \h314, \h31c, \h324}
Strides == {\h2e8, \h2f0, \h2f8, \h300, \h308, \h310, \h318, \h320, \h41c, \haa8, \h648, \h658}

LscTail == From(\h1a14, \h1a38)
WindowRegs(m) ==
    IF m = 0 THEN From(\h2ac, \h2bc) \cup From(\h2d0, \h2d8)
    ELSE From(\h604, \h614) \cup From(\h624, \h62c)

SetPicSize ==
    [size |-> {\h130, \h144, \h138, \h14c, \h490, \h0d0, \h500, \h504, \h508, \h4e0, \h4e4,
               \h4e8, \h134, \h148} \cup Strides,
     lsc |-> From(\h1590, \h1a38) \ LscTail, lscTail |-> LscTail,
     nr3dWin |-> WindowRegs(0), drcWin |-> WindowRegs(1), cnr |-> Words(\hb4c, 56)]

(* What isp.ko writes for SET_DMA_ADDRS (ISP_BUF_ADDR_PROTOCOL_V201.md).   *)
DmaRegs == {\h2e4, \h2ec, \h2fc, \h304, \h30c, \h31c, \h418, \h644, \h654, \h124, \haa4}

AllOf(tables) == UNION {tables[t] : t \in DOMAIN tables}
Reg == AllOf(IsppInit) \cup AllOf(IspfInit) \cup AllOf(SetPicSize) \cup DmaRegs
       \cup {\h0f0, \h0f4, \h02c, \h034, EnableReg}

(* Registers two tables give the same value. *)
Shared == {\h578, \h57c}

-----------------------------------------------------------------------------
VARIABLES
    regs,   \* [register -> the table last written to it]
    win     \* [mode -> the three windows in the registers]

setupVars == <<poolVars, regs, win>>

NoTable == "none"
NoWindows == [m \in Mode |-> <<>>]

SetupInit ==
    /\ PoolInit
    /\ regs = [o \in Reg |-> NoTable] /\ win = NoWindows

(* Registers after a function of isp_init.c has written its tables. *)
Written(tables) ==
    [o \in Reg |-> IF \E t \in DOMAIN tables : o \in tables[t]
                   THEN CHOOSE t \in DOMAIN tables : o \in tables[t]
                   ELSE regs[o]]

(* isp_core_alloc_buf_addr(): with SET_DMA_ADDRS, isp.ko writes its share. *)
AllocBufAddr ==
    /\ PoolNext
    /\ regs' = IF stage' = "dma_set" THEN Written([dma |-> DmaRegs]) ELSE regs
    /\ UNCHANGED win

(* One function of isp_init.c after the other. *)
Then(before, after, tables) ==
    /\ stage = before /\ stage' = after
    /\ regs' = Written(tables)
    /\ UNCHANGED <<res, pool, next, addr, dma>>

(* Variant: the table is written before the buffers are there. *)
MapAfter_Early == "reserve"
MapAfter == "ready"

(* isp_mmap, where open() or mmap() may fail, and the chip's id. *)
isp_mmap ==
    /\ \E ok \in BOOLEAN : Then(MapAfter, IF ok THEN "mapped" ELSE "refused", <<>>)
    /\ UNCHANGED win
WrongChip == Then("mapped", "refused", <<>>) /\ UNCHANGED win

isp_reset ==
    Then("mapped", "reset", [reset |-> {\h0f0, \h0f4}]) /\ UNCHANGED win
isp_ispp_init == Then("reset", "ispp", IsppInit) /\ UNCHANGED win
isp_ispf_init == Then("ispp", "ispf", IspfInit) /\ UNCHANGED win

(* A picture so small that the search divides by zero ends in "undefined". *)
isp_set_pic_size ==
    /\ ~DividesByZero(res)
    /\ Then("ispf", "sized", SetPicSize)
    /\ win' = [m \in Mode |-> Windows(res, m)]
isp_set_pic_size_Undefined ==
    /\ DividesByZero(res)
    /\ Then("ispf", "undefined", <<>>) /\ UNCHANGED win

isp_apply_module_bypass ==
    Then("sized", "initialised", [bypass |-> {\h02c}]) /\ UNCHANGED win

(* isp_start_processing: isp_pkg_enable. *)
isp_pkg_enable ==
    Then("initialised", "running", [enable |-> {\h034, EnableReg}]) /\ UNCHANGED win

SetupNext ==
    \/ AllocBufAddr
    \/ isp_mmap \/ WrongChip
    \/ isp_reset \/ isp_ispp_init \/ isp_ispf_init
    \/ isp_set_pic_size \/ isp_set_pic_size_Undefined
    \/ isp_apply_module_bypass \/ isp_pkg_enable

SetupSpec == SetupInit /\ [][SetupNext]_setupVars

-----------------------------------------------------------------------------
(* Properties. *)

(* Every register of these tables still holds what the table says. *)
InPlace(tables) == \A t \in DOMAIN tables : \A o \in tables[t] \ Shared : regs[o] = t

(***************************************************************************)
(* The ISP is enabled only when nothing it needs is missing or was written *)
(* over on the way: the buffers' addresses isp.ko gave it, every table at  *)
(* its place, and the windows of this picture.                             *)
(***************************************************************************)
EnabledWhole ==
    regs[EnableReg] # NoTable =>
        /\ \A o \in DmaRegs : regs[o] = "dma"
        /\ InPlace(IsppInit) /\ InPlace(IspfInit) /\ InPlace(SetPicSize)
        /\ win = [m \in Mode |-> Windows(res, m)]
        /\ \A o \in Reg : o < MapSize

(***************************************************************************)
(* The windows of a picture of 640 x 360 or more: they cover it, none is   *)
(* empty, none ends in a sliver of 1 to 7 rows, they are the largest odd   *)
(* ones below the first guess; the reciprocal is the nearest one, and every   *)
(* field fits the bits isp_set_nr3d_drc_win() shifts it to.                *)
(***************************************************************************)
LeavesNoSliver(len, s) == (len - (s + 1) \div 2) % (s + 1) \notin 1 .. 7

WindowSound(x, len, guess) ==
    LET n == x.size + 1 IN
    /\ (x.count - 1) * n < len /\ len <= x.count * n
    /\ n % 2 = 0 /\ LeavesNoSliver(len, x.size)
    /\ \A s \in x.size + 1 .. guess : s % 2 = 1 => ~LeavesNoSliver(len, s)
    /\ LET error == (x.recip + 1) * n - 2 ^ (x.shift + 8) IN -n <= 2 * error /\ 2 * error <= n
    /\ x.size < 65536 /\ x.count < 256 /\ x.recip \in 511 .. 1023 /\ x.shift < 64

WindowsSound ==
    win # NoWindows /\ res.width >= 640 /\ res.height >= 360 =>
        \A m \in Mode : \A w \in 1 .. 3 :
            LET len == Length(res, m)[w]
            IN  WindowSound(win[m][w], len,
                            FirstSize(len, Start(res, m)[w], Lower(len, m, w)))
=============================================================================
