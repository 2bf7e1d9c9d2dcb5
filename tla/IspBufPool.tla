----------------------------- MODULE IspBufPool -----------------------------
(***************************************************************************)
(* The DMA buffers of the ISP, src/sdk/lib/isp_buf_addr.c:                 *)
(* isp_core_alloc_buf_addr() computes how much memory a resolution needs,  *)
(* reserves one pool of that size from vmm.ko, cuts thirteen buffers from  *)
(* it with isp_malloc() and hands their addresses to isp.ko.  The sum and  *)
(* the cutting are written apart from each other: nothing but the numbers  *)
(* makes the buffers fit.  Sizes and addresses are uint32_t.               *)
(***************************************************************************)
EXTENDS Integers, Sequences

CONSTANTS
    WordModulus,  \* values of a uint32_t
    Resolutions,  \* [width, height] the pipeline may be set up for
    Bases         \* physical addresses vmm.ko may give the pool

PoolAlign == 65536   \* POOL_ALIGN
BufferAlign == 128   \* the align argument of every isp_malloc()

(* (v + unit - 1) & ~(unit - 1), before it is cut to a word. *)
RoundUp(v, unit) == ((v + unit - 1) \div unit) * unit
Word(v) == v % WordModulus

-----------------------------------------------------------------------------
(* isp_core_get_buf_size. *)

Row(pixels) == RoundUp(Word(pixels * 10 + 7) \div 8, 8)  \* bytes of 10-bit pixels

Frame(r) == r.height * Row(r.width)
Coef(r) == (r.height \div 4) * Row(r.width \div 4)
Nr3dStat == 20480
DrcStat == 16800
Gosd == 512
IsppStat == 3 * 24776
IspfStat == 12

(* Variant: room for one of the two coefficient buffers. *)
Total_OneCoef(r) ==
    RoundUp(Frame(r), 128)
    + RoundUp(RoundUp(IspfStat, 128) + RoundUp(IsppStat, 128), PoolAlign)
    + RoundUp(Coef(r), 128) + 37888
Total(r) ==
    RoundUp(Frame(r), 128)
    + RoundUp(RoundUp(IspfStat, 128) + RoundUp(IsppStat, 128), PoolAlign)
    + 2 * RoundUp(Coef(r), 128) + 37888

(***************************************************************************)
(* The buffers in the order of the ALLOC lines: isp_mem_front, gosd,       *)
(* ispp_stat, ispf_stat, ispb_stat, nr3d_stat, nr3d_frame, nr3d_coef,      *)
(* nr3d_nr2d_coef, mem_after_nr3d, drc_stat0, mem_after_drc, isp_mem_end.  *)
(***************************************************************************)
Buffer == 1 .. 13
Sizes(r) == <<0, Gosd, IsppStat, IspfStat, 0, Nr3dStat, Word(Frame(r)), Word(Coef(r)),
              Word(Coef(r)), 0, DrcStat, 0, 0>>

(* Those whose addresses SET_DMA_ADDRS carries. *)
InTable == Buffer \ {3, 4, 5, 13}

Resolution == [width : Nat, height : Nat]

(* A pool lies in memory that 32-bit addresses reach. *)
ASSUME PoolAssumption ==
    /\ WordModulus \in Nat \ {0} /\ WordModulus % PoolAlign = 0
    /\ Resolutions \subseteq Resolution
    /\ Bases \subseteq Nat /\ \A b \in Bases : b % PoolAlign = 0
    /\ \A r \in Resolutions : \A b \in Bases : b + Total(r) < WordModulus

-----------------------------------------------------------------------------
NoPool == [base |-> 0, size |-> 0, cursor |-> 0]
NoAddress == 0  \* isp_core is static, so zero

VARIABLES
    stage,  \* where isp_core_alloc_buf_addr is, or how it ended
    res,    \* the resolution it was called for
    pool,   \* pool_phys_base, pool_total_size, pool_cursor
    next,   \* the ALLOC line to run next
    addr,   \* [Buffer -> its address]
    dma     \* the addresses isp.ko was given

poolVars == <<stage, res, pool, next, addr, dma>>

PoolInit ==
    /\ stage = "reserve" /\ res \in Resolutions
    /\ pool = NoPool /\ next = 1
    /\ addr = [b \in Buffer |-> NoAddress]
    /\ dma = [b \in InTable |-> NoAddress]

(* buffer_malloc_withname: vmm.ko honours size and alignment. *)
Reserve(b) ==
    /\ stage = "reserve" /\ stage' = "cut"
    /\ pool' = [base |-> b, size |-> Word(Total(res)), cursor |-> 0]
    /\ UNCHANGED <<res, next, addr, dma>>

ReserveFails ==
    /\ stage = "reserve" /\ stage' = "no_pool"
    /\ UNCHANGED <<res, pool, next, addr, dma>>

(* isp_malloc of size 0 leaves cursor and address as they are. *)
CutEmpty ==
    /\ stage = "cut" /\ next \in Buffer /\ Sizes(res)[next] = 0
    /\ next' = next + 1
    /\ UNCHANGED <<stage, res, pool, addr, dma>>

(* Variant: down to the boundary. *)
Aligned_Down(p) == ((p.base + p.cursor) \div BufferAlign) * BufferAlign
Aligned(p) == Word(RoundUp(p.base + p.cursor, BufferAlign))

HasRoom(p, size) == Word(p.base + p.size) >= Word(size + Aligned(p))

(* Variant: the cursor is an address. *)
CursorAfter_Address(p, size) == Word(size + Aligned(p))
CursorAfter(p, size) == Word(size + Aligned(p) - p.base)

(* isp_malloc of a buffer; without room its caller gives up. *)
Cut ==
    LET size == Sizes(res)[next] IN
    /\ stage = "cut" /\ next \in Buffer /\ size # 0
    /\ IF HasRoom(pool, size)
       THEN /\ addr' = [addr EXCEPT ![next] = Aligned(pool)]
            /\ pool' = [pool EXCEPT !.cursor = CursorAfter(pool, size)]
            /\ next' = next + 1 /\ stage' = stage
       ELSE stage' = "no_room" /\ UNCHANGED <<pool, next, addr>>
    /\ UNCHANGED <<res, dma>>

(* Variant: nr3d_stat's place gets ispb_stat, which is empty. *)
TableEntry_Wrong(b) == addr[IF b = 6 THEN 5 ELSE b]
TableEntry(b) == addr[b]

(* SET_STAT_INFO, SET_DMA_ADDRS and GET_STAT_INFO, which isp.ko may refuse. *)
SetStatInfo ==
    /\ stage = "cut" /\ next \notin Buffer
    /\ stage' \in {"stat_set", "refused"}
    /\ UNCHANGED <<res, pool, next, addr, dma>>

SetDmaAddrs ==
    /\ stage = "stat_set"
    /\ \/ stage' = "dma_set" /\ dma' = [b \in InTable |-> TableEntry(b)]
       \/ stage' = "refused" /\ UNCHANGED dma
    /\ UNCHANGED <<res, pool, next, addr>>

GetStatInfo ==
    /\ stage = "dma_set"
    /\ stage' \in {"ready", "refused"}
    /\ UNCHANGED <<res, pool, next, addr, dma>>

PoolNext ==
    \/ (\E b \in Bases : Reserve(b)) \/ ReserveFails
    \/ CutEmpty \/ Cut
    \/ SetStatInfo \/ SetDmaAddrs \/ GetStatInfo

PoolSpec == PoolInit /\ [][PoolNext]_poolVars

-----------------------------------------------------------------------------
(* Properties. *)

(***************************************************************************)
(* The total of isp_core_get_buf_size() is enough for the thirteen         *)
(* isp_malloc() calls at every resolution: they never run out of room,     *)
(* whatever alignment costs between them.                                  *)
(***************************************************************************)
PoolSuffices == stage # "no_room"

(***************************************************************************)
(* The ISP never writes over its neighbours: the buffers cut so far lie in *)
(* the pool, apart from each other, on 128-byte boundaries.                *)
(***************************************************************************)
CutSoFar == {b \in Buffer : b < next /\ Sizes(res)[b] # 0}

BuffersApart ==
    \A b \in CutSoFar :
       /\ addr[b] % BufferAlign = 0
       /\ pool.base <= addr[b]
       /\ addr[b] + Sizes(res)[b] <= pool.base + pool.cursor
       /\ \A a \in CutSoFar : a < b => addr[a] + Sizes(res)[a] <= addr[b]

(***************************************************************************)
(* From SET_DMA_ADDRS on the ISP has addresses that are complete and keep  *)
(* the buffers apart: none it writes to is missing or stands twice.        *)
(***************************************************************************)
InUse == {b \in InTable : Sizes(res)[b] # 0}

Before == {"reserve", "cut", "stat_set", "no_pool", "no_room", "refused"}

DmaSound ==
    stage \notin Before => \A b \in InUse :
       /\ pool.base <= dma[b] /\ dma[b] + Sizes(res)[b] <= pool.base + pool.size
       /\ \A a \in InUse : a < b => dma[a] + Sizes(res)[a] <= dma[b]
=============================================================================
