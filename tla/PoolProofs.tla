----------------------------- MODULE PoolProofs -----------------------------
(***************************************************************************)
(* The total of isp_core_get_buf_size() holds the thirteen buffers, for    *)
(* every resolution and wherever vmm.ko puts the pool.  The argument: what *)
(* the buffers still to come will take, each rounded up to 128 bytes, fits *)
(* above the cursor rounded up; a cut moves both by the same amount.       *)
(*                                                                         *)
(* The second half is about the registers: the tables of isp_init.c lie    *)
(* apart from each other and from what isp.ko has written between them.    *)
(***************************************************************************)
EXTENDS IspSetup, TLAPS

Up(v) == RoundUp(v, 128)

(* What the buffers from the k-th on take, padding and all: Need(r)[k].    *)
Need(r) ==
    LET drc == 16896
        coefs == 2 * Up(Coef(r)) + drc
        frame == Up(Frame(r)) + coefs
        nr3d == 20480 + frame
        ispf == 128 + nr3d
        ispp == 74368 + ispf
        gosd == 512 + ispp
    IN  <<gosd, gosd, ispp, ispf, nr3d, nr3d, frame, coefs, Up(Coef(r)) + drc,
          drc, drc, 0, 0, 0>>

(* The cursor is an offset into the pool.                                  *)
PoolTypeOK ==
    /\ res \in Resolutions
    /\ pool \in [base : Nat, size : Nat, cursor : Nat] /\ pool.cursor <= pool.size
    /\ next \in 1 .. 14
    /\ addr \in [Buffer -> Nat] /\ dma \in [InTable -> Nat]

Cutting == stage \notin {"reserve", "no_pool"}

PoolInv ==
    /\ PoolTypeOK /\ PoolSuffices /\ BuffersApart
    /\ stage \in {"reserve", "no_pool"} => next = 1
    /\ Cutting => /\ pool.base \in Bases /\ pool.size = Total(res)
                  /\ Up(pool.cursor) + Need(res)[next] <= pool.size
    /\ stage \notin Before \ {"stat_set"} => next = 14
    /\ stage \notin Before => dma = [b \in InTable |-> addr[b]]

-----------------------------------------------------------------------------
(* Rounding up gives the next multiple of 128.                             *)
LEMMA Rounding ==
    ASSUME NEW v \in Nat
    PROVE  /\ Up(v) \in Nat /\ v <= Up(v) /\ Up(v) < v + 128
           /\ Up(v) % 128 = 0
BY DEF Up, RoundUp

(* Rounding up leaves out what is a multiple of 128 already.               *)
LEMMA RoundingAdds ==
    ASSUME NEW m \in Nat, m % 128 = 0, NEW v \in Nat
    PROVE  Up(v + m) = Up(v) + m
BY DEF Up, RoundUp

(* The pool's base is also a multiple of the buffers' alignment.           *)
LEMMA BaseAligned ==
    ASSUME NEW b \in Bases
    PROVE  b \in Nat /\ b % 128 = 0
BY PoolAssumption DEF PoolAlign

(* A number below the modulus is its own word.                             *)
LEMMA WordIs ==
    ASSUME NEW v \in Nat, v < WordModulus
    PROVE  Word(v) = v
BY PoolAssumption DEF Word

(* The sizes that depend on the resolution are natural numbers.            *)
LEMMA FrameNat ==
    ASSUME NEW r \in Resolutions
    PROVE  Frame(r) \in Nat /\ Coef(r) \in Nat
<1>1. r.width \in Nat /\ r.height \in Nat
  BY PoolAssumption DEF Resolution
<1>2. \A p \in Nat : Row(p) \in Nat
  <2>1. \A p \in Nat : Word(p * 10 + 7) \in Nat
    BY PoolAssumption DEF Word
  <2> QED
    BY <2>1 DEF Row, RoundUp
<1>3. r.width \div 4 \in Nat /\ r.height \div 4 \in Nat
  BY <1>1
<1>4. Row(r.width) \in Nat /\ Row(r.width \div 4) \in Nat
  BY <1>1, <1>2, <1>3
<1> QED
  BY <1>1, <1>3, <1>4 DEF Frame, Coef

(* The total in numbers: every need and 56576 bytes to spare.              *)
LEMMA TotalIs ==
    ASSUME NEW r \in Resolutions
    PROVE  Total(r) = Need(r)[1] + 56576 /\ Total(r) \in Nat
<1>1. RoundUp(RoundUp(IspfStat, 128) + RoundUp(IsppStat, 128), PoolAlign) = 131072
  BY DEF RoundUp, IspfStat, IsppStat, PoolAlign
<1>2. Up(Frame(r)) \in Nat /\ Up(Coef(r)) \in Nat
  BY FrameNat, Rounding
<1>3. Total(r) = Up(Frame(r)) + 131072 + 2 * Up(Coef(r)) + 37888
  BY <1>1 DEF Total, Up
<1> QED
  BY <1>2, <1>3 DEF Need

(* Sizes that fit a word are not cut.                                      *)
LEMMA SizesAre ==
    ASSUME NEW r \in Resolutions, NEW b \in Bases
    PROVE  Sizes(r) = <<0, 512, 74328, 12, 0, 20480, Frame(r), Coef(r), Coef(r), 0, 16800, 0, 0>>
<1>1. b + Total(r) < WordModulus /\ b \in Nat
  BY PoolAssumption
<1>2. Frame(r) \in Nat /\ Coef(r) \in Nat
  BY FrameNat
<1>3. Frame(r) <= Up(Frame(r)) /\ Coef(r) <= Up(Coef(r)) /\ Up(Frame(r)) \in Nat /\ Up(Coef(r)) \in Nat
  BY <1>2, Rounding
<1>4. Total(r) = Up(Frame(r)) + 2 * Up(Coef(r)) + 168960
  BY <1>3, TotalIs DEF Need
<1>5. Frame(r) < WordModulus /\ Coef(r) < WordModulus
  BY <1>1, <1>2, <1>3, <1>4, PoolAssumption
<1>6. Word(Frame(r)) = Frame(r) /\ Word(Coef(r)) = Coef(r)
  BY <1>2, <1>5, WordIs
<1> QED
  BY <1>6 DEF Sizes, Gosd, IsppStat, IspfStat, Nr3dStat, DrcStat

(* One buffer takes its size rounded up from what the rest needs.          *)
LEMMA NeedStep ==
    ASSUME NEW r \in Resolutions, NEW base \in Bases, NEW k \in Buffer
    PROVE  /\ Sizes(r)[k] \in Nat
           /\ Need(r)[k] = Up(Sizes(r)[k]) + Need(r)[k + 1]
           /\ Need(r)[k + 1] \in Nat
<1>1. Frame(r) \in Nat /\ Coef(r) \in Nat
  BY FrameNat
<1>2. Up(Frame(r)) \in Nat /\ Up(Coef(r)) \in Nat
  BY <1>1, Rounding
<1>3. /\ Up(0) = 0 /\ Up(512) = 512 /\ Up(74328) = 74368 /\ Up(12) = 128
      /\ Up(20480) = 20480 /\ Up(16800) = 16896
  BY DEF Up, RoundUp
<1>4. k \in {1, 2, 3, 4, 5, 6, 7, 8, 9, 10, 11, 12, 13}
  BY DEF Buffer
<1>5. CASE k \in {1, 2, 3, 4, 5, 6}
  BY <1>1, <1>2, <1>3, <1>5, SizesAre DEF Need
<1>6. CASE k \in {7, 8, 9}
  BY <1>1, <1>2, <1>3, <1>6, SizesAre DEF Need
<1>7. CASE k \in {10, 11, 12, 13}
  BY <1>1, <1>2, <1>3, <1>7, SizesAre DEF Need
<1> QED
  BY <1>4, <1>5, <1>6, <1>7

(***************************************************************************)
(* isp_malloc() in a pool that holds what is still to come: the address is *)
(* the cursor rounded up, there is room, and the invariant's sum stays.    *)
(***************************************************************************)
LEMMA CutFits ==
    ASSUME NEW r \in Resolutions, NEW p \in [base : Nat, size : Nat, cursor : Nat],
           NEW k \in Buffer,
           p.base \in Bases, p.size = Total(r), Up(p.cursor) + Need(r)[k] <= p.size
    PROVE  /\ Aligned(p) = p.base + Up(p.cursor)
           /\ Aligned(p) % 128 = 0
           /\ HasRoom(p, Sizes(r)[k])
           /\ CursorAfter(p, Sizes(r)[k]) = Up(p.cursor) + Sizes(r)[k]
           /\ Up(Up(p.cursor) + Sizes(r)[k]) + Need(r)[k + 1] <= p.size
           /\ Up(p.cursor) + Sizes(r)[k] <= p.size
<1> DEFINE s == Sizes(r)[k]
           c == Up(p.cursor)
<1>1. p.base \in Nat /\ p.base % 128 = 0 /\ p.size \in Nat /\ p.cursor \in Nat
  BY BaseAligned
<1>2. c \in Nat /\ c % 128 = 0 /\ p.cursor <= c
  BY <1>1, Rounding
<1>3. s \in Nat /\ Need(r)[k] = Up(s) + Need(r)[k + 1] /\ Need(r)[k + 1] \in Nat
  BY NeedStep
<1>4. Up(s) \in Nat /\ s <= Up(s)
  BY <1>3, Rounding
<1>5. p.base + p.size < WordModulus /\ WordModulus \in Nat
  BY PoolAssumption
<1>6. c + s <= p.size
  BY <1>1, <1>2, <1>3, <1>4
<1>7. RoundUp(p.base + p.cursor, BufferAlign) = p.base + c
  <2>1. Up(p.cursor + p.base) = c + p.base
    BY <1>1, RoundingAdds
  <2>2. p.cursor + p.base = p.base + p.cursor
    BY <1>1
  <2> QED
    BY <1>1, <1>2, <2>1, <2>2 DEF Up, BufferAlign
<1>8. Aligned(p) = p.base + c
  <2>1. p.base + c \in Nat /\ p.base + c < WordModulus
    BY <1>1, <1>2, <1>3, <1>5, <1>6
  <2> QED
    BY <1>7, <2>1, WordIs DEF Aligned
<1>9. Word(s + Aligned(p)) = p.base + c + s /\ Word(p.base + p.size) = p.base + p.size
  <2>1. s + Aligned(p) = p.base + c + s
    BY <1>1, <1>2, <1>3, <1>8
  <2>2. p.base + c + s \in Nat /\ p.base + c + s < WordModulus
    BY <1>1, <1>2, <1>3, <1>5, <1>6
  <2>3. p.base + p.size \in Nat
    BY <1>1
  <2> QED
    BY <1>5, <2>1, <2>2, <2>3, WordIs
<1>10. HasRoom(p, s)
  BY <1>1, <1>2, <1>3, <1>6, <1>9 DEF HasRoom
<1>11. CursorAfter(p, s) = c + s
  <2>1. s + Aligned(p) - p.base = c + s
    BY <1>1, <1>2, <1>3, <1>8
  <2>2. c + s \in Nat /\ c + s < WordModulus
    BY <1>1, <1>2, <1>3, <1>5, <1>6
  <2> QED
    BY <2>1, <2>2, WordIs DEF CursorAfter
<1>12. Up(c + s) + Need(r)[k + 1] <= p.size
  <2>1. Up(s + c) = Up(s) + c
    BY <1>2, <1>3, RoundingAdds
  <2>2. s + c = c + s
    BY <1>2, <1>3
  <2> QED
    BY <1>1, <1>2, <1>3, <1>4, <2>1, <2>2
<1>13. Aligned(p) % 128 = 0
  BY <1>1, <1>2, <1>8
<1> QED
  BY <1>6, <1>8, <1>10, <1>11, <1>12, <1>13

-----------------------------------------------------------------------------
(* The invariant holds before anything is reserved.                        *)
LEMMA PoolInitInv ==
    PoolInit => PoolInv
BY DEF PoolInit, PoolInv, Before, PoolTypeOK, PoolSuffices, BuffersApart, CutSoFar, Cutting, NoPool,
       NoAddress, Buffer, InTable

(* The pool is as large as the total, and nothing of it is cut.            *)
LEMMA ReserveInv ==
    ASSUME PoolInv, NEW b \in Bases, Reserve(b)
    PROVE  PoolInv'
<1> USE DEF Reserve
<1>1. res \in Resolutions /\ res' = res /\ next = 1 /\ next' = 1 /\ addr' = addr /\ dma' = dma
  BY DEF PoolInv, PoolTypeOK
<1>2. b \in Nat /\ b + Total(res) < WordModulus
  BY <1>1, PoolAssumption
<1>3. Total(res) = Need(res)[1] + 56576 /\ Total(res) \in Nat
  BY <1>1, TotalIs
<1>4. pool' = [base |-> b, size |-> Total(res), cursor |-> 0]
  BY <1>2, <1>3, WordIs, PoolAssumption
<1>5. Up(0) = 0
  BY DEF Up, RoundUp
<1>6. Need(res)[1] \in Int
  <2>1. 1 \in Buffer /\ Need(res)[1] = Up(Sizes(res)[1]) + Need(res)[1 + 1]
        /\ Need(res)[1 + 1] \in Nat /\ Sizes(res)[1] \in Nat
    BY <1>1, NeedStep DEF Buffer
  <2> QED
    BY <2>1, Rounding
<1>7. PoolTypeOK'
  BY <1>1, <1>2, <1>3, <1>4 DEF PoolInv, PoolTypeOK
<1>8. BuffersApart'
  BY <1>1 DEF BuffersApart, CutSoFar, Buffer
<1> QED
  BY <1>1, <1>3, <1>4, <1>5, <1>6, <1>7, <1>8 DEF PoolInv, PoolSuffices, Cutting, Before

(* An empty buffer needs nothing and is given nothing.                     *)
LEMMA CutEmptyInv ==
    ASSUME PoolInv, CutEmpty
    PROVE  PoolInv'
<1> USE DEF CutEmpty
<1>1. /\ res \in Resolutions /\ res' = res /\ next \in Buffer /\ Sizes(res)[next] = 0
      /\ pool' = pool /\ addr' = addr /\ dma' = dma /\ stage' = stage /\ next' = next + 1
  BY DEF PoolInv, PoolTypeOK
<1>2. pool.base \in Bases /\ pool.size = Total(res) /\ Up(pool.cursor) + Need(res)[next] <= pool.size
  BY DEF PoolInv, Cutting
<1>3. Need(res)[next] = Need(res)[next + 1]
  <2>1. Up(0) = 0
    BY DEF Up, RoundUp
  <2> QED
    BY <1>1, <1>2, <2>1, NeedStep
<1>4. CutSoFar' = CutSoFar
  BY <1>1 DEF CutSoFar, Buffer
<1>5. BuffersApart'
  BY <1>1, <1>4 DEF PoolInv, BuffersApart
<1>6. PoolTypeOK'
  BY <1>1 DEF PoolInv, PoolTypeOK, Buffer
<1> QED
  BY <1>1, <1>2, <1>3, <1>5, <1>6 DEF PoolInv, PoolSuffices, Cutting, Before

(* The new buffer lies above the cursor, and so above all the others.      *)
LEMMA CutInv ==
    ASSUME PoolInv, Cut
    PROVE  PoolInv'
<1> DEFINE size == Sizes(res)[next]
<1>1. /\ stage = "cut" /\ res \in Resolutions /\ res' = res /\ next \in Buffer /\ size # 0
      /\ pool \in [base : Nat, size : Nat, cursor : Nat] /\ dma' = dma
  BY DEF Cut, PoolInv, PoolTypeOK
<1>2. pool.base \in Bases /\ pool.size = Total(res) /\ Up(pool.cursor) + Need(res)[next] <= pool.size
  BY <1>1 DEF PoolInv, Cutting
<1>3. /\ Aligned(pool) = pool.base + Up(pool.cursor)
      /\ Aligned(pool) % 128 = 0
      /\ HasRoom(pool, size)
      /\ CursorAfter(pool, size) = Up(pool.cursor) + size
      /\ Up(Up(pool.cursor) + size) + Need(res)[next + 1] <= pool.size
      /\ Up(pool.cursor) + size <= pool.size
  BY <1>1, <1>2, CutFits
<1>4. size \in Nat /\ Up(pool.cursor) \in Nat /\ pool.cursor <= Up(pool.cursor)
  BY <1>1, <1>2, NeedStep, Rounding
<1>5. /\ addr' = [addr EXCEPT ![next] = pool.base + Up(pool.cursor)]
      /\ pool' = [pool EXCEPT !.cursor = Up(pool.cursor) + size]
      /\ next' = next + 1 /\ stage' = stage
  BY <1>3 DEF Cut
<1>6. PoolTypeOK'
  <2>1. addr' \in [Buffer -> Nat]
    BY <1>1, <1>4, <1>5 DEF PoolInv, PoolTypeOK
  <2>2. pool' \in [base : Nat, size : Nat, cursor : Nat] /\ pool'.cursor <= pool'.size
    BY <1>1, <1>3, <1>4, <1>5
  <2> QED
    BY <1>1, <1>5, <2>1, <2>2 DEF PoolInv, PoolTypeOK, Buffer
<1>7. BuffersApart'
  <2>1. CutSoFar' = CutSoFar \cup {next} /\ next \notin CutSoFar
    BY <1>1, <1>5 DEF CutSoFar, Buffer
  <2>2. pool'.base = pool.base /\ pool'.cursor = Up(pool.cursor) + size
        /\ pool.base \in Nat /\ pool.cursor \in Nat
    BY <1>1, <1>5
  <2>3. addr \in [Buffer -> Nat] /\ addr'[next] = pool.base + Up(pool.cursor)
        /\ \A b \in CutSoFar : addr'[b] = addr[b]
    BY <1>1, <1>5 DEF PoolInv, PoolTypeOK, CutSoFar
  <2>4. \A b \in CutSoFar : b < next /\ b \in Buffer /\ Sizes(res)[b] \in Nat
    BY <1>1, <1>2, NeedStep DEF CutSoFar
  <2>5. \A b \in CutSoFar : /\ addr[b] % 128 = 0 /\ pool.base <= addr[b]
                             /\ addr[b] + Sizes(res)[b] <= pool.base + pool.cursor
                             /\ \A a \in CutSoFar : a < b => addr[a] + Sizes(res)[a] <= addr[b]
    BY DEF PoolInv, BuffersApart, BufferAlign
  <2>6. \A b \in CutSoFar : addr[b] \in Nat /\ addr[b] + Sizes(res)[b] <= pool.base + Up(pool.cursor)
    BY <1>4, <2>2, <2>3, <2>4, <2>5
  <2>7. ASSUME NEW b \in CutSoFar
        PROVE  /\ addr'[b] % 128 = 0 /\ pool'.base <= addr'[b]
               /\ addr'[b] + Sizes(res)[b] <= pool'.base + pool'.cursor
               /\ \A a \in CutSoFar \cup {next} : a < b => addr'[a] + Sizes(res)[a] <= addr'[b]
    <3>1. \A a \in CutSoFar \cup {next} : a < b => a \in CutSoFar
      BY <1>1, <2>4 DEF Buffer
    <3>2. addr'[b] + Sizes(res)[b] <= pool'.base + pool'.cursor
      BY <1>4, <2>2, <2>3, <2>4, <2>6
    <3> QED
      BY <2>2, <2>3, <2>5, <3>1, <3>2
  <2>8. /\ addr'[next] % 128 = 0 /\ pool'.base <= addr'[next]
        /\ addr'[next] + size <= pool'.base + pool'.cursor
        /\ \A a \in CutSoFar \cup {next} : a < next => addr'[a] + Sizes(res)[a] <= addr'[next]
    <3>1. addr'[next] % 128 = 0
      BY <1>3, <2>3
    <3>2. \A a \in CutSoFar \cup {next} : a < next => a \in CutSoFar
      BY <1>1 DEF Buffer
    <3> QED
      BY <1>4, <2>2, <2>3, <2>6, <3>1, <3>2
  <2> QED
    BY <1>1, <2>1, <2>7, <2>8 DEF BuffersApart, BufferAlign
<1>8. /\ pool'.base \in Bases /\ pool'.size = Total(res')
      /\ Up(pool'.cursor) + Need(res')[next'] <= pool'.size
  BY <1>1, <1>2, <1>3, <1>5
<1> QED
  BY <1>1, <1>5, <1>6, <1>7, <1>8 DEF PoolInv, PoolSuffices, Cutting, Before

(* The invariant holds at every step.                                      *)
LEMMA PoolStep ==
    ASSUME PoolInv, [PoolNext]_poolVars
    PROVE  PoolInv'
<1> USE DEF PoolInv, Before
<1>1. CASE ReserveFails
  BY <1>1 DEF ReserveFails, PoolTypeOK, PoolSuffices, BuffersApart, CutSoFar, Cutting
<1>2. CASE SetStatInfo
  <2>1. next = 14
    BY <1>2 DEF SetStatInfo, PoolTypeOK, Buffer
  <2> QED
    BY <1>2, <2>1 DEF SetStatInfo, PoolTypeOK, PoolSuffices, BuffersApart, CutSoFar, Cutting
<1>3. CASE SetDmaAddrs
  <2>1. dma' = dma \/ dma' = [b \in InTable |-> addr[b]]
    BY <1>3 DEF SetDmaAddrs, TableEntry
  <2>2. dma' \in [InTable -> Nat]
    BY <2>1 DEF PoolTypeOK, InTable
  <2>3. stage' = "dma_set" => dma' = [b \in InTable |-> addr'[b]]
    BY <1>3 DEF SetDmaAddrs, TableEntry
  <2> QED
    BY <1>3, <2>2, <2>3
    DEF SetDmaAddrs, PoolTypeOK, PoolSuffices, BuffersApart, CutSoFar, Cutting
<1>4. CASE GetStatInfo
  BY <1>4 DEF GetStatInfo, PoolTypeOK, PoolSuffices, BuffersApart, CutSoFar, Cutting
<1>5. CASE UNCHANGED poolVars
  BY <1>5 DEF poolVars, PoolTypeOK, PoolSuffices, BuffersApart, CutSoFar, Cutting
<1> QED
  BY <1>1, <1>2, <1>3, <1>4, <1>5, ReserveInv, CutEmptyInv, CutInv DEF PoolNext

(* The table holds the buffers that were cut, all of them by then.         *)
LEMMA TableSound ==
    ASSUME PoolInv
    PROVE  DmaSound
<1> SUFFICES ASSUME stage \notin Before, NEW b \in InUse
             PROVE  /\ pool.base <= dma[b]
                    /\ dma[b] + Sizes(res)[b] <= pool.base + pool.size
                    /\ \A a \in InUse : a < b => dma[a] + Sizes(res)[a] <= dma[b]
  BY DEF DmaSound
<1>1. InUse \subseteq CutSoFar
  BY DEF PoolInv, Before, InUse, CutSoFar, InTable, Buffer
<1>2. \A a \in InUse : dma[a] = addr[a]
  BY DEF PoolInv, Before, InUse
<1>3. pool.base \in Nat /\ pool.size \in Nat /\ pool.cursor \in Nat /\ pool.cursor <= pool.size
      /\ addr \in [Buffer -> Nat] /\ res \in Resolutions /\ b \in Buffer
  BY DEF PoolInv, PoolTypeOK, InUse, InTable
<1>4. Sizes(res)[b] \in Nat
  BY <1>3, NeedStep DEF PoolInv, Cutting, Before
<1>5. pool.base <= addr[b] /\ addr[b] + Sizes(res)[b] <= pool.base + pool.cursor
      /\ \A a \in InUse : a < b => addr[a] + Sizes(res)[a] <= addr[b]
  BY <1>1 DEF PoolInv, BuffersApart
<1> QED
  BY <1>2, <1>3, <1>4, <1>5

(* A function of isp_init.c leaves the pool alone; it runs when isp.ko has *)
(* the addresses.                                                          *)
LEMMA ThenKeeps ==
    ASSUME PoolInv, NEW before, before \notin Before,
           NEW after, after \notin Before \/ after = "refused",
           NEW tables, Then(before, after, tables)
    PROVE  PoolInv'
<1>1. /\ stage = before /\ stage' = after
      /\ res' = res /\ pool' = pool /\ next' = next /\ addr' = addr /\ dma' = dma
  BY DEF Then
<1>2. PoolTypeOK' /\ BuffersApart'
  BY <1>1 DEF PoolInv, PoolTypeOK, BuffersApart, CutSoFar
<1> QED
  BY <1>1, <1>2 DEF PoolInv, PoolSuffices, Cutting, Before

(* Every step of the setup keeps the invariant.                            *)
LEMMA SetupStep ==
    ASSUME PoolInv, [SetupNext]_setupVars
    PROVE  PoolInv'
<1> USE DEF Before
<1>1. CASE AllocBufAddr
  BY <1>1, PoolStep DEF AllocBufAddr
<1>2. CASE isp_mmap
  <2>1. PICK ok \in BOOLEAN : Then(MapAfter, IF ok THEN "mapped" ELSE "refused", <<>>)
    BY <1>2 DEF isp_mmap
  <2> QED
    BY <2>1, ThenKeeps DEF MapAfter
<1>3. CASE WrongChip
  BY <1>3, ThenKeeps DEF WrongChip
<1>4. CASE isp_reset
  BY <1>4, ThenKeeps DEF isp_reset
<1>5. CASE isp_ispp_init
  BY <1>5, ThenKeeps DEF isp_ispp_init
<1>6. CASE isp_ispf_init
  BY <1>6, ThenKeeps DEF isp_ispf_init
<1>7. CASE isp_set_pic_size
  BY <1>7, ThenKeeps DEF isp_set_pic_size
<1>8. CASE isp_set_pic_size_Undefined
  BY <1>8, ThenKeeps DEF isp_set_pic_size_Undefined
<1>9. CASE isp_apply_module_bypass
  BY <1>9, ThenKeeps DEF isp_apply_module_bypass
<1>10. CASE isp_pkg_enable
  BY <1>10, ThenKeeps DEF isp_pkg_enable
<1>11. CASE UNCHANGED setupVars
  BY <1>11, PoolStep DEF setupVars
<1> QED
  BY <1>1, <1>2, <1>3, <1>4, <1>5, <1>6, <1>7, <1>8, <1>9, <1>10, <1>11 DEF SetupNext

(* The invariant holds through the whole setup.                            *)
LEMMA PoolInductive == SetupSpec => []PoolInv
<1>1. SetupInit => PoolInv
  BY PoolInitInv DEF SetupInit
<1> QED
  BY <1>1, SetupStep, PTL DEF SetupSpec

(***************************************************************************)
(* isp_malloc() never refuses one of the buffers: the total reserved for a *)
(* resolution is enough for all of them, wherever the pool lies.           *)
(***************************************************************************)
THEOREM PoolAlwaysSuffices == SetupSpec => []PoolSuffices
<1>1. PoolInv => PoolSuffices
  BY DEF PoolInv
<1> QED
  BY <1>1, PoolInductive, PTL

(***************************************************************************)
(* The ISP's buffers never overlap and never leave the pool.               *)
(***************************************************************************)
THEOREM BuffersNeverOverlap == SetupSpec => []BuffersApart
<1>1. PoolInv => BuffersApart
  BY DEF PoolInv
<1> QED
  BY <1>1, PoolInductive, PTL

(***************************************************************************)
(* Nor do the addresses isp.ko has from SET_DMA_ADDRS on, to the end of    *)
(* the setup, at any resolution and whatever the windows come to.          *)
(***************************************************************************)
THEOREM TableNeverOverlaps == SetupSpec => []DmaSound
<1>1. PoolInv => DmaSound
  BY TableSound
<1> QED
  BY <1>1, PoolInductive, PTL

-----------------------------------------------------------------------------
(* Where the tables lie.  Each register set is a few offsets and a few     *)
(* runs of words; an offset of one is never an offset of another.          *)

LEMMA WordsLie ==
    ASSUME NEW a \in Nat, NEW n \in Nat, NEW o \in Words(a, n)
    PROVE  o \in Nat /\ a <= o /\ o <= a + 4 * n - 4
BY DEF Words

LEMMA FromLies ==
    ASSUME NEW a \in Nat, NEW b \in Nat, NEW o \in From(a, b)
    PROVE  o \in Nat /\ a <= o /\ o <= b
<1>1. PICK i \in 0 .. ((b - a) \div 4 + 1) - 1 : o = a + 4 * i
  BY DEF From, Words
<1>2. i \in Nat /\ i <= (b - a) \div 4
  BY <1>1, SMT
<1>3. 4 * ((b - a) \div 4) <= b - a
  BY SMT
<1> QED
  BY <1>1, <1>2, <1>3, SMT

Within(o, a, b) == o \in Nat /\ a <= o /\ o <= b

(* The fixed tables of isp_ispp_init.                                      *)
IsppPlace(o) ==
    o \in {\h8, \h494, \h13c, \h140, \h150, \h154, \h578, \h57c} \/ Within(o, \h80, \hb8)

LEMMA IsppLies ==
    ASSUME NEW o \in IsppInit["ispp"]
    PROVE  IsppPlace(o)
<1>1. o \in {\h8, \h494, \h13c, \h140, \h150, \h154, \h578, \h57c} \/ o \in From(\h80, \hb8)
  BY DEF IsppInit
<1> QED
  BY <1>1, FromLies DEF IsppPlace, Within

LEMMA GammaLies ==
    /\ \A o \in IsppInit["gamma1"] : Within(o, \h1a40, \h1b7c)
    /\ \A o \in IsppInit["gamma2"] : Within(o, \h1b80, \h1cbc)
    /\ \A o \in IsppInit["gamma3"] : Within(o, \h1cc0, \h1dfc)
    /\ \A o \in IsppInit["gamma4"] : Within(o, \h1e00, \h1f3c)
<1>1. /\ IsppInit["gamma1"] = Words(\h1a40, 80) /\ IsppInit["gamma2"] = Words(\h1b80, 80)
      /\ IsppInit["gamma3"] = Words(\h1cc0, 80) /\ IsppInit["gamma4"] = Words(\h1e00, 80)
  BY DEF IsppInit, GammaAt
<1> QED
  BY <1>1, WordsLie DEF Within

(* The tables of isp_ispf_init.                                            *)
IspfPlace(o) ==
    \/ o \in {\h0e0, \h0e4, \h1c4, \h538, \h53c, \h2a8, \h600, \hc74}
    \/ Within(o, \h400, \h414) \/ Within(o, \h50c, \h520) \/ Within(o, \h548, \h55c)
    \/ Within(o, \h570, \h57c) \/ Within(o, \hc2c, \hc70) \/ Within(o, \haac, \hb48)
    \/ Within(o, \he00, \he2c) \/ Within(o, \ha30, \ha44) \/ Within(o, \ha60, \ha78)
    \/ Within(o, \h250, \h26c) \/ Within(o, \h278, \h29c) \/ Within(o, \h2c0, \h2c8)
    \/ Within(o, \h590, \h5ac) \/ Within(o, \h5b4, \h5d0) \/ Within(o, \h5d8, \h5fc)
    \/ Within(o, \h618, \h620) \/ Within(o, \h664, \h66c)

LEMMA IspfLies ==
    ASSUME NEW o \in IspfInit["ispf"]
    PROVE  IspfPlace(o)
<1>1. \/ o \in {\h0e0, \h0e4, \h1c4, \h538, \h53c, \h2a8, \h600, \hc74}
      \/ o \in From(\h400, \h414) \/ o \in From(\h50c, \h520) \/ o \in From(\h548, \h55c)
      \/ o \in From(\h570, \h57c) \/ o \in From(\hc2c, \hc70) \/ o \in From(\haac, \hb48)
      \/ o \in From(\he00, \he2c) \/ o \in From(\ha30, \ha44) \/ o \in From(\ha60, \ha78)
      \/ o \in From(\h250, \h26c) \/ o \in From(\h278, \h29c) \/ o \in From(\h2c0, \h2c8)
      \/ o \in From(\h590, \h5ac) \/ o \in From(\h5b4, \h5d0) \/ o \in From(\h5d8, \h5fc)
      \/ o \in From(\h618, \h620) \/ o \in From(\h664, \h66c)
  BY DEF IspfInit
<1> QED
  BY <1>1, FromLies DEF IspfPlace, Within

LEMMA DrcLies ==
    ASSUME NEW o \in IspfInit["drc"]
    PROVE  Within(o, \h690, \h890)
<1>1. o \in Words(\h690, 129)
  BY DEF IspfInit
<1> QED
  BY <1>1, WordsLie DEF Within

(* The tables of isp_set_pic_size.                                         *)
SizePlace(o) ==
    \/ o \in {\h130, \h144, \h138, \h14c, \h490, \h0d0, \h500, \h504, \h508, \h4e0, \h4e4,
              \h4e8, \h134, \h148}
    \/ o \in {\h2e8, \h2f0, \h2f8, \h300, \h308, \h310, \h318, \h320, \h41c, \haa8, \h648, \h658}

LscPlace(o) == Within(o, \h1590, \h1a38)
Nr3dWinPlace(o) == Within(o, \h2ac, \h2bc) \/ Within(o, \h2d0, \h2d8)
DrcWinPlace(o) == Within(o, \h604, \h614) \/ Within(o, \h624, \h62c)
CnrPlace(o) == Within(o, \hb4c, \hc28)

LEMMA SizeLies ==
    /\ \A o \in SetPicSize["size"] : SizePlace(o)
    /\ \A o \in SetPicSize["lsc"] : LscPlace(o) /\ o \notin SetPicSize["lscTail"]
    /\ \A o \in SetPicSize["lscTail"] : LscPlace(o)
    /\ \A o \in SetPicSize["nr3dWin"] : Nr3dWinPlace(o)
    /\ \A o \in SetPicSize["drcWin"] : DrcWinPlace(o)
    /\ \A o \in SetPicSize["cnr"] : CnrPlace(o)
<1>1. \A o \in SetPicSize["size"] : SizePlace(o)
  BY DEF SetPicSize, Strides, SizePlace
<1>2. ASSUME NEW o \in SetPicSize["lsc"] PROVE LscPlace(o) /\ o \notin SetPicSize["lscTail"]
  <2>1. o \in From(\h1590, \h1a38) /\ o \notin SetPicSize["lscTail"]
    BY DEF SetPicSize
  <2> QED
    BY <2>1, FromLies DEF LscPlace, Within
<1>3. ASSUME NEW o \in SetPicSize["lscTail"] PROVE LscPlace(o)
  <2>1. o \in From(\h1a14, \h1a38)
    BY DEF SetPicSize, LscTail
  <2> QED
    BY <2>1, FromLies DEF LscPlace, Within
<1>4. ASSUME NEW o \in SetPicSize["nr3dWin"] PROVE Nr3dWinPlace(o)
  <2>1. o \in From(\h2ac, \h2bc) \/ o \in From(\h2d0, \h2d8)
    BY DEF SetPicSize, WindowRegs
  <2> QED
    BY <2>1, FromLies DEF Nr3dWinPlace, Within
<1>5. ASSUME NEW o \in SetPicSize["drcWin"] PROVE DrcWinPlace(o)
  <2>1. o \in From(\h604, \h614) \/ o \in From(\h624, \h62c)
    BY DEF SetPicSize, WindowRegs
  <2> QED
    BY <2>1, FromLies DEF DrcWinPlace, Within
<1>6. ASSUME NEW o \in SetPicSize["cnr"] PROVE CnrPlace(o)
  <2>1. o \in Words(\hb4c, 56)
    BY DEF SetPicSize
  <2> QED
    BY <2>1, WordsLie DEF CnrPlace, Within
<1> QED
  BY <1>1, <1>2, <1>3, <1>4, <1>5, <1>6

(* The registers of each of the three functions.                           *)
InIspp(o) == IsppPlace(o) \/ Within(o, \h1a40, \h1f3c)
InIspf(o) == IspfPlace(o) \/ Within(o, \h690, \h890)
InSize(o) == SizePlace(o) \/ LscPlace(o) \/ Nr3dWinPlace(o) \/ DrcWinPlace(o) \/ CnrPlace(o)

LEMMA IsppDomain == DOMAIN IsppInit = {"ispp", "gamma1", "gamma2", "gamma3", "gamma4"}
BY DEF IsppInit

LEMMA IspfDomain == DOMAIN IspfInit = {"ispf", "drc"}
BY DEF IspfInit

LEMMA SizeDomain == DOMAIN SetPicSize = {"size", "lsc", "lscTail", "nr3dWin", "drcWin", "cnr"}
BY DEF SetPicSize

LEMMA IsppAll == \A o \in AllOf(IsppInit) : InIspp(o)
<1>1. \A o : Within(o, \h1a40, \h1b7c) \/ Within(o, \h1b80, \h1cbc)
             \/ Within(o, \h1cc0, \h1dfc) \/ Within(o, \h1e00, \h1f3c)
                => Within(o, \h1a40, \h1f3c)
  BY DEF Within
<1> QED
  BY <1>1, IsppDomain, IsppLies, GammaLies DEF AllOf, InIspp

LEMMA IspfAll == \A o \in AllOf(IspfInit) : InIspf(o)
BY IspfDomain, IspfLies, DrcLies DEF AllOf, InIspf

LEMMA SizeAll == \A o \in AllOf(SetPicSize) : InSize(o)
BY SizeDomain, SizeLies DEF AllOf, InSize

(* No register is in two tables of a function.                             *)
Apart(tables) == \A t, u \in DOMAIN tables : t # u => tables[t] \cap tables[u] = {}

LEMMA IsppApart == Apart(IsppInit)
<1> SUFFICES ASSUME NEW t \in DOMAIN IsppInit, NEW u \in DOMAIN IsppInit,
                    NEW o \in IsppInit[t], o \in IsppInit[u]
             PROVE  t = u
  BY DEF Apart
<1> DEFINE At(x) == \/ x = "ispp" /\ IsppPlace(o)
                    \/ x = "gamma1" /\ Within(o, \h1a40, \h1b7c)
                    \/ x = "gamma2" /\ Within(o, \h1b80, \h1cbc)
                    \/ x = "gamma3" /\ Within(o, \h1cc0, \h1dfc)
                    \/ x = "gamma4" /\ Within(o, \h1e00, \h1f3c)
<1>1. ASSUME NEW x \in DOMAIN IsppInit, o \in IsppInit[x] PROVE At(x)
  BY <1>1, IsppDomain, IsppLies, GammaLies
<1>2. IsppPlace(o) => o < \h1a40
  BY SMT DEF IsppPlace, Within
<1>3. At(t) /\ At(u)
  BY <1>1
<1> QED
  BY <1>2, <1>3 DEF Within

LEMMA IspfApart == Apart(IspfInit)
<1> SUFFICES ASSUME NEW o \in IspfInit["ispf"], o \in IspfInit["drc"]
             PROVE  FALSE
  BY IspfDomain DEF Apart
<1>1. IspfPlace(o) /\ Within(o, \h690, \h890)
  BY IspfLies, DrcLies
<1> QED
  BY <1>1, SMT DEF IspfPlace, Within

LEMMA SizeApart == Apart(SetPicSize)
<1> SUFFICES ASSUME NEW t \in DOMAIN SetPicSize, NEW u \in DOMAIN SetPicSize,
                    NEW o \in SetPicSize[t], o \in SetPicSize[u]
             PROVE  t = u
  BY DEF Apart
<1> DEFINE At(x) == \/ x = "size" /\ SizePlace(o)
                    \/ x = "lsc" /\ LscPlace(o) /\ o \notin SetPicSize["lscTail"]
                    \/ x = "lscTail" /\ LscPlace(o) /\ o \in SetPicSize["lscTail"]
                    \/ x = "nr3dWin" /\ Nr3dWinPlace(o)
                    \/ x = "drcWin" /\ DrcWinPlace(o)
                    \/ x = "cnr" /\ CnrPlace(o)
<1>1. ASSUME NEW x \in DOMAIN SetPicSize, o \in SetPicSize[x] PROVE At(x)
  BY <1>1, SizeDomain, SizeLies
<1>2. /\ SizePlace(o) => ~LscPlace(o) /\ ~Nr3dWinPlace(o) /\ ~DrcWinPlace(o) /\ ~CnrPlace(o)
      /\ LscPlace(o) => ~Nr3dWinPlace(o) /\ ~DrcWinPlace(o) /\ ~CnrPlace(o)
      /\ Nr3dWinPlace(o) => ~DrcWinPlace(o) /\ ~CnrPlace(o)
      /\ DrcWinPlace(o) => ~CnrPlace(o)
  BY SMT DEF SizePlace, LscPlace, Nr3dWinPlace, DrcWinPlace, CnrPlace, Within
<1>3. At(t) /\ At(u)
  BY <1>1
<1> QED
  BY <1>2, <1>3

(* Nor in the tables of two functions, but for those they agree on.        *)
LEMMA TablesApart ==
    ASSUME NEW o
    PROVE  /\ InIspp(o) /\ InIspf(o) => o \in Shared
           /\ InIspp(o) \/ InIspf(o) => ~InSize(o)
<1> USE DEF Within
<1>1. ASSUME IsppPlace(o), InIspf(o) PROVE o \in Shared
  BY <1>1, SMT DEF IsppPlace, InIspf, IspfPlace, Shared
<1>2. ASSUME Within(o, \h1a40, \h1f3c) PROVE ~InIspf(o)
  BY <1>2, SMT DEF InIspf, IspfPlace
<1>3. ASSUME InIspp(o) PROVE ~InSize(o)
  BY <1>3, SMT DEF InIspp, IsppPlace, InSize, SizePlace, LscPlace, Nr3dWinPlace, DrcWinPlace,
                   CnrPlace
<1>4. ASSUME InIspf(o) PROVE ~SizePlace(o)
  BY <1>4, SMT DEF InIspf, IspfPlace, SizePlace
<1>5. ASSUME InIspf(o)
      PROVE  ~LscPlace(o) /\ ~Nr3dWinPlace(o) /\ ~DrcWinPlace(o) /\ ~CnrPlace(o)
  BY <1>5, SMT DEF InIspf, IspfPlace, LscPlace, Nr3dWinPlace, DrcWinPlace, CnrPlace
<1> QED
  BY <1>1, <1>2, <1>3, <1>4, <1>5 DEF InIspp, InSize

(* The DMA addresses, and the control registers, lie between the tables.   *)
Control == {\h0f0, \h0f4, \h02c, \h034, EnableReg}

LEMMA BetweenTables ==
    ASSUME NEW o \in DmaRegs \cup Control
    PROVE  ~InIspp(o) /\ ~InIspf(o) /\ ~InSize(o)
<1> USE DEF Within, DmaRegs, Control, EnableReg
<1>1. ~InIspp(o)
  BY SMT DEF InIspp, IsppPlace
<1>2. ~InIspf(o)
  BY SMT DEF InIspf, IspfPlace
<1>3. ~InSize(o)
  BY SMT DEF InSize, SizePlace, LscPlace, Nr3dWinPlace, DrcWinPlace, CnrPlace
<1> QED
  BY <1>1, <1>2, <1>3

LEMMA ControlApart == Control \cap DmaRegs = {}
BY DEF Control, EnableReg, DmaRegs

(* All of it is in the part of the register file that is mapped.           *)
LEMMA RegsMapped == \A o \in Reg : o < MapSize
<1> USE DEF Within
<1>1. ASSUME NEW o, InIspp(o) \/ InIspf(o) PROVE o < \h3240
  BY <1>1, SMT DEF InIspp, IsppPlace, InIspf, IspfPlace
<1>2. ASSUME NEW o, InSize(o) PROVE o < \h3240
  BY <1>2, SMT DEF InSize, SizePlace, LscPlace, Nr3dWinPlace, DrcWinPlace, CnrPlace
<1>3. ASSUME NEW o \in DmaRegs \cup Control PROVE o < \h3240
  BY <1>3, SMT DEF DmaRegs, Control, EnableReg
<1> QED
  BY <1>1, <1>2, <1>3, IsppAll, IspfAll, SizeAll DEF Reg, MapSize, Control

-----------------------------------------------------------------------------
(* What is written stays.                                                  *)

(***************************************************************************)
(* From each function on, its registers hold its tables; nothing is        *)
(* enabled before all of them do.                                          *)
(***************************************************************************)
HasSize == {"sized", "initialised", "running"}
HasIspf == HasSize \cup {"ispf"}
HasIspp == HasIspf \cup {"ispp"}
HasDma == HasIspp \cup {"dma_set", "ready", "mapped", "reset", "undefined"}

RegsInv ==
    /\ stage # "running" => regs[EnableReg] = NoTable
    /\ stage \in HasDma => \A o \in DmaRegs : regs[o] = "dma"
    /\ stage \in HasIspp => InPlace(IsppInit)
    /\ stage \in HasIspf => InPlace(IspfInit)
    /\ stage \in HasSize => InPlace(SetPicSize) /\ win = [m \in Mode |-> Windows(res, m)]

LEMMA WrittenOnly ==
    ASSUME NEW tables, regs' = Written(tables), Apart(tables)
    PROVE  /\ \A t \in DOMAIN tables : \A o \in Reg : o \in tables[t] => regs'[o] = t
           /\ \A o \in Reg : o \notin AllOf(tables) => regs'[o] = regs[o]
<1>1. ASSUME NEW t \in DOMAIN tables, NEW o \in Reg, o \in tables[t]
      PROVE  regs'[o] = t
  <2>1. \A u \in DOMAIN tables : o \in tables[u] <=> u = t
    BY <1>1 DEF Apart
  <2>2. (CHOOSE u \in DOMAIN tables : o \in tables[u]) = t
    BY <2>1
  <2> QED
    BY <1>1, <2>2 DEF Written
<1>2. ASSUME NEW o \in Reg, o \notin AllOf(tables)
      PROVE  regs'[o] = regs[o]
  BY <1>2 DEF Written, AllOf
<1> QED
  BY <1>1, <1>2

(* Tables just written are in place.                                       *)
LEMMA WritesInPlace ==
    ASSUME NEW tables, regs' = Written(tables), Apart(tables), AllOf(tables) \subseteq Reg
    PROVE  InPlace(tables)'
BY WrittenOnly DEF InPlace, AllOf

(* Tables that others do not touch stay in place.                          *)
LEMMA StaysInPlace ==
    ASSUME NEW tables, InPlace(tables), AllOf(tables) \subseteq Reg,
           NEW others, regs' = Written(others), Apart(others),
           \A o \in AllOf(tables) : o \in AllOf(others) => o \in Shared
    PROVE  InPlace(tables)'
<1>1. ASSUME NEW t \in DOMAIN tables, NEW o \in tables[t] \ Shared
      PROVE  regs'[o] = t
  <2>1. o \in AllOf(tables)
    BY DEF AllOf
  <2>2. o \in Reg /\ o \notin AllOf(others)
    BY <2>1
  <2>3. regs'[o] = regs[o]
    BY <2>2, WrittenOnly
  <2> QED
    BY <2>3 DEF InPlace
<1> QED
  BY <1>1 DEF InPlace

(* Registers that a function does not write stay.                          *)
LEMMA OthersStay ==
    ASSUME NEW others, regs' = Written(others), Apart(others),
           NEW R \in SUBSET Reg, R \cap AllOf(others) = {}
    PROVE  \A o \in R : regs'[o] = regs[o]
BY WrittenOnly

LEMMA AllInReg ==
    /\ AllOf(IsppInit) \subseteq Reg /\ AllOf(IspfInit) \subseteq Reg
    /\ AllOf(SetPicSize) \subseteq Reg
    /\ DmaRegs \subseteq Reg /\ Control \subseteq Reg /\ EnableReg \in Control
BY DEF Reg, Control

(* A single table, and none.                                               *)
LEMMA SmallTables ==
    ASSUME NEW S
    PROVE  /\ Apart([dma |-> S]) /\ AllOf([dma |-> S]) = S
           /\ Apart([reset |-> S]) /\ AllOf([reset |-> S]) = S
           /\ Apart([bypass |-> S]) /\ AllOf([bypass |-> S]) = S
           /\ Apart([enable |-> S]) /\ AllOf([enable |-> S]) = S
           /\ Apart(<<>>) /\ AllOf(<<>>) = {}
<1>1. Apart([dma |-> S]) /\ AllOf([dma |-> S]) = S
  BY DEF Apart, AllOf
<1>2. Apart([reset |-> S]) /\ AllOf([reset |-> S]) = S
  BY DEF Apart, AllOf
<1>3. Apart([bypass |-> S]) /\ AllOf([bypass |-> S]) = S
  BY DEF Apart, AllOf
<1>4. Apart([enable |-> S]) /\ AllOf([enable |-> S]) = S
  BY DEF Apart, AllOf
<1>5. Apart(<<>>) /\ AllOf(<<>>) = {}
  BY DEF Apart, AllOf
<1> QED
  BY <1>1, <1>2, <1>3, <1>4, <1>5

(* What a write outside of the tables and the addresses keeps.             *)
LEMMA AsideKeeps ==
    ASSUME NEW others, regs' = Written(others), Apart(others), AllOf(others) \subseteq Control
    PROVE  /\ \A o \in DmaRegs : regs'[o] = regs[o]
           /\ InPlace(IsppInit) => InPlace(IsppInit)'
           /\ InPlace(IspfInit) => InPlace(IspfInit)'
           /\ InPlace(SetPicSize) => InPlace(SetPicSize)'
           /\ EnableReg \notin AllOf(others) => regs'[EnableReg] = regs[EnableReg]
<1>1. \A o \in DmaRegs : regs'[o] = regs[o]
  BY AllInReg, ControlApart, OthersStay
<1>2. /\ \A o \in AllOf(IsppInit) : o \notin AllOf(others)
      /\ \A o \in AllOf(IspfInit) : o \notin AllOf(others)
      /\ \A o \in AllOf(SetPicSize) : o \notin AllOf(others)
  BY BetweenTables, IsppAll, IspfAll, SizeAll
<1>3. EnableReg \notin AllOf(others) => regs'[EnableReg] = regs[EnableReg]
  BY AllInReg, WrittenOnly
<1>4. InPlace(IsppInit) => InPlace(IsppInit)'
  BY <1>2, AllInReg, StaysInPlace
<1>5. InPlace(IspfInit) => InPlace(IspfInit)'
  BY <1>2, AllInReg, StaysInPlace
<1>6. InPlace(SetPicSize) => InPlace(SetPicSize)'
  BY <1>2, AllInReg, StaysInPlace
<1> QED
  BY <1>1, <1>3, <1>4, <1>5, <1>6

(* What a function's tables keep of the addresses and of the control.      *)
LEMMA TablesKeep ==
    ASSUME NEW tables \in {IsppInit, IspfInit, SetPicSize}, regs' = Written(tables)
    PROVE  /\ \A o \in DmaRegs : regs'[o] = regs[o]
           /\ regs'[EnableReg] = regs[EnableReg]
           /\ InPlace(tables)'
<1>1. Apart(tables) /\ AllOf(tables) \subseteq Reg
  BY IsppApart, IspfApart, SizeApart, AllInReg
<1>2. (DmaRegs \cup Control) \cap AllOf(tables) = {}
  BY BetweenTables, IsppAll, IspfAll, SizeAll
<1>3. \A o \in DmaRegs \cup Control : regs'[o] = regs[o]
  BY <1>1, <1>2, AllInReg, OthersStay
<1> QED
  BY <1>1, <1>3, AllInReg, WritesInPlace

(* isp.ko's share is written by SET_DMA_ADDRS, before any table.           *)
LEMMA AllocRegs ==
    ASSUME RegsInv, AllocBufAddr
    PROVE  RegsInv'
<1> USE DEF HasSize, HasIspf, HasIspp, HasDma
<1>1. /\ stage' \notin HasDma \ {"dma_set", "ready"}
      /\ stage' = "ready" => stage = "dma_set"
      /\ stage # "running"
  BY DEF AllocBufAddr, PoolNext, Reserve, ReserveFails, CutEmpty, Cut, SetStatInfo, SetDmaAddrs,
         GetStatInfo
<1>2. CASE stage' = "dma_set"
  <2> DEFINE share == [dma |-> DmaRegs]
  <2>1. regs' = Written(share)
    BY <1>2 DEF AllocBufAddr
  <2>0. DOMAIN share = {"dma"} /\ share["dma"] = DmaRegs
        /\ Apart(share) /\ AllOf(share) = DmaRegs
    BY SmallTables
  <2> HIDE DEF share
  <2>2. \A o \in DmaRegs : regs'[o] = "dma"
    BY <2>0, <2>1, AllInReg, WrittenOnly
  <2>3. regs'[EnableReg] = regs[EnableReg]
    BY <2>0, <2>1, AllInReg, WrittenOnly, ControlApart
  <2> QED
    BY <1>1, <1>2, <2>2, <2>3 DEF RegsInv
<1>3. CASE stage' # "dma_set"
  <2>1. regs' = regs
    BY <1>3 DEF AllocBufAddr
  <2> QED
    BY <1>1, <1>3, <2>1 DEF RegsInv
<1> QED
  BY <1>2, <1>3

(* A step that writes outside of the tables, or nothing.                   *)
LEMMA AsideRegs ==
    ASSUME RegsInv, NEW before, NEW after, NEW others, Then(before, after, others),
           Apart(others), AllOf(others) \subseteq Control,
           EnableReg \notin AllOf(others) \/ after = "running",
           before # "running", win' = win,
           after \in HasDma => before \in HasDma,
           after \in HasIspp => before \in HasIspp,
           after \in HasIspf => before \in HasIspf,
           after \in HasSize => before \in HasSize
    PROVE  RegsInv'
<1>1. /\ stage = before /\ stage' = after /\ res' = res
      /\ regs' = Written(others)
  BY DEF Then
<1>2. /\ \A o \in DmaRegs : regs'[o] = regs[o]
      /\ InPlace(IsppInit) => InPlace(IsppInit)'
      /\ InPlace(IspfInit) => InPlace(IspfInit)'
      /\ InPlace(SetPicSize) => InPlace(SetPicSize)'
      /\ EnableReg \notin AllOf(others) => regs'[EnableReg] = regs[EnableReg]
  BY <1>1, AsideKeeps
<1>3. win = [m \in Mode |-> Windows(res, m)] => win' = [m \in Mode |-> Windows(res', m)]
  BY <1>1
<1>4. after # "running" => regs'[EnableReg] = NoTable
  BY <1>1, <1>2 DEF RegsInv
<1>5. after \in HasDma => \A o \in DmaRegs : regs'[o] = "dma"
  BY <1>1, <1>2 DEF RegsInv
<1>6. /\ after \in HasIspp => InPlace(IsppInit)'
      /\ after \in HasIspf => InPlace(IspfInit)'
      /\ after \in HasSize => InPlace(SetPicSize)' /\ win' = [m \in Mode |-> Windows(res', m)]
  BY <1>1, <1>2, <1>3 DEF RegsInv
<1> QED
  BY <1>1, <1>4, <1>5, <1>6 DEF RegsInv

(* Each function's tables stay clear of those before them.                 *)
LEMMA IsppRegs ==
    ASSUME RegsInv, isp_ispp_init
    PROVE  RegsInv'
<1>1. stage = "reset" /\ stage' = "ispp" /\ regs' = Written(IsppInit)
  BY DEF isp_ispp_init, Then
<1>2. (\A o \in DmaRegs : regs'[o] = regs[o]) /\ regs'[EnableReg] = regs[EnableReg]
      /\ InPlace(IsppInit)'
  BY <1>1, TablesKeep
<1> QED
  BY <1>1, <1>2 DEF RegsInv, HasSize, HasIspf, HasIspp, HasDma

LEMMA IspfRegs ==
    ASSUME RegsInv, isp_ispf_init
    PROVE  RegsInv'
<1>1. stage = "ispp" /\ stage' = "ispf" /\ regs' = Written(IspfInit)
  BY DEF isp_ispf_init, Then
<1>2. (\A o \in DmaRegs : regs'[o] = regs[o]) /\ regs'[EnableReg] = regs[EnableReg]
      /\ InPlace(IspfInit)'
  BY <1>1, TablesKeep
<1>3. \A o \in AllOf(IsppInit) : o \in AllOf(IspfInit) => o \in Shared
  BY IsppAll, IspfAll, TablesApart
<1>4. InPlace(IsppInit)
  BY <1>1 DEF RegsInv, HasSize, HasIspf, HasIspp
<1>5. InPlace(IsppInit)'
  BY <1>1, <1>3, <1>4, AllInReg, IspfApart, StaysInPlace
<1> QED
  BY <1>1, <1>2, <1>5 DEF RegsInv, HasSize, HasIspf, HasIspp, HasDma

LEMMA SizeRegs ==
    ASSUME RegsInv, isp_set_pic_size
    PROVE  RegsInv'
<1>1. stage = "ispf" /\ stage' = "sized" /\ regs' = Written(SetPicSize) /\ res' = res
      /\ win' = [m \in Mode |-> Windows(res, m)]
  BY DEF isp_set_pic_size, Then
<1>2. (\A o \in DmaRegs : regs'[o] = regs[o]) /\ regs'[EnableReg] = regs[EnableReg]
      /\ InPlace(SetPicSize)'
  BY <1>1, TablesKeep
<1>3. /\ \A o \in AllOf(IsppInit) : o \in AllOf(SetPicSize) => o \in Shared
      /\ \A o \in AllOf(IspfInit) : o \in AllOf(SetPicSize) => o \in Shared
  BY IsppAll, IspfAll, SizeAll, TablesApart
<1>4. InPlace(IsppInit) /\ InPlace(IspfInit)
  BY <1>1 DEF RegsInv, HasSize, HasIspf, HasIspp
<1>5. InPlace(IsppInit)' /\ InPlace(IspfInit)'
  BY <1>1, <1>3, <1>4, AllInReg, SizeApart, StaysInPlace
<1>6. win' = [m \in Mode |-> Windows(res', m)]
  BY <1>1
<1> QED
  BY <1>1, <1>2, <1>5, <1>6 DEF RegsInv, HasSize, HasIspf, HasIspp, HasDma

(* Every step of the setup keeps the registers' invariant.                 *)
LEMMA RegsStep ==
    ASSUME RegsInv, [SetupNext]_setupVars
    PROVE  RegsInv'
<1> USE DEF HasSize, HasIspf, HasIspp, HasDma
<1>0. Apart(<<>>) /\ AllOf(<<>>) = {}
  BY SmallTables
<1>1. CASE isp_mmap
  <2>1. PICK ok \in BOOLEAN : Then("ready", IF ok THEN "mapped" ELSE "refused", <<>>)
    BY <1>1 DEF isp_mmap, MapAfter
  <2>2. win' = win
    BY <1>1 DEF isp_mmap
  <2>3. CASE ok
    BY <1>0, <2>1, <2>2, <2>3, AsideRegs
  <2>4. CASE ~ok
    BY <1>0, <2>1, <2>2, <2>4, AsideRegs
  <2> QED
    BY <2>3, <2>4
<1>2. CASE WrongChip
  <2>1. Then("mapped", "refused", <<>>) /\ win' = win
    BY <1>2 DEF WrongChip
  <2> QED
    BY <1>0, <2>1, AsideRegs
<1>3. CASE isp_reset
  <2> DEFINE others == [reset |-> {\h0f0, \h0f4}]
  <2>1. Then("mapped", "reset", others) /\ win' = win
    BY <1>3 DEF isp_reset
  <2>2. Apart(others) /\ AllOf(others) = {\h0f0, \h0f4}
    BY SmallTables
  <2>3. AllOf(others) \subseteq Control /\ EnableReg \notin AllOf(others)
    BY <2>2 DEF Control, EnableReg
  <2> HIDE DEF others
  <2> QED
    BY <2>1, <2>2, <2>3, AsideRegs
<1>4. CASE isp_set_pic_size_Undefined
  <2>1. Then("ispf", "undefined", <<>>) /\ win' = win
    BY <1>4 DEF isp_set_pic_size_Undefined
  <2> QED
    BY <1>0, <2>1, AsideRegs
<1>5. CASE isp_apply_module_bypass
  <2> DEFINE others == [bypass |-> {\h02c}]
  <2>1. Then("sized", "initialised", others) /\ win' = win
    BY <1>5 DEF isp_apply_module_bypass
  <2>2. Apart(others) /\ AllOf(others) = {\h02c}
    BY SmallTables
  <2>3. AllOf(others) \subseteq Control /\ EnableReg \notin AllOf(others)
    BY <2>2 DEF Control, EnableReg
  <2> HIDE DEF others
  <2> QED
    BY <2>1, <2>2, <2>3, AsideRegs
<1>6. CASE isp_pkg_enable
  <2> DEFINE others == [enable |-> {\h034, EnableReg}]
  <2>1. Then("initialised", "running", others) /\ win' = win
    BY <1>6 DEF isp_pkg_enable
  <2>2. Apart(others) /\ AllOf(others) = {\h034, EnableReg}
    BY SmallTables
  <2>3. AllOf(others) \subseteq Control
    BY <2>2 DEF Control
  <2> HIDE DEF others
  <2> QED
    BY <2>1, <2>2, <2>3, AsideRegs
<1>7. CASE UNCHANGED setupVars
  BY <1>7 DEF setupVars, poolVars, RegsInv, InPlace
<1> QED
  BY <1>1, <1>2, <1>3, <1>4, <1>5, <1>6, <1>7, AllocRegs, IsppRegs, IspfRegs, SizeRegs
     DEF SetupNext

LEMMA InitialRegs == SetupInit => RegsInv
<1> SUFFICES ASSUME SetupInit
             PROVE  RegsInv
  OBVIOUS
<1>1. stage = "reserve" /\ regs = [o \in Reg |-> NoTable]
  BY DEF SetupInit, PoolInit
<1> QED
  BY <1>1, AllInReg DEF RegsInv, HasSize, HasIspf, HasIspp, HasDma

(***************************************************************************)
(* The ISP is never enabled half set up: when its enable register has been *)
(* written, isp.ko's addresses, every table of isp_init.c and the windows  *)
(* of this picture are in their registers, and no function has written     *)
(* over what another left.                                                 *)
(***************************************************************************)
THEOREM NeverEnabledHalf == SetupSpec => []EnabledWhole
<1>1. RegsInv => EnabledWhole
  BY RegsMapped DEF RegsInv, EnabledWhole, HasSize, HasIspf, HasIspp, HasDma
<1> QED
  BY <1>1, InitialRegs, RegsStep, PTL DEF SetupSpec
=============================================================================
