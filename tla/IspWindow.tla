----------------------------- MODULE IspWindow ------------------------------
(***************************************************************************)
(* The statistics windows of src/sdk/lib/isp_init.c: isp_set_stat_param()  *)
(* and the search of isp_win_param() for a window size, which divides the  *)
(* picture so that no sliver of 1 to 7 rows is left at its end, and the    *)
(* reciprocal the ISP divides by.  All of it is uint32_t.                  *)
(***************************************************************************)
EXTENDS IspBufPool, FiniteSetsExt

(* The integer part of easylog2(x), the one its callers use; x > 0. *)
Log2[x \in Nat] == IF x < 2 THEN 0 ELSE 1 + Log2[x \div 2]

(***************************************************************************)
(* The three windows of a mode (0: NR3D, 1: DRC): over the rows, over the  *)
(* columns, and over a range of its own.  parts is the number of windows   *)
(* first aimed at; the third starts from a size instead.                   *)
(***************************************************************************)
Mode == {0, 1}
Parts(m) == IF m = 0 THEN <<14, 24, 6>> ELSE <<9, 16, 8>>
Length(r, m) == <<r.height, r.width, IF m = 0 THEN 1024 ELSE 12288>>
Start(r, m) ==
    <<Word((r.height - 1) \div (Parts(m)[1] - 1) - 1),
      Word((r.width - 1) \div (Parts(m)[2] - 1) - 1),
      IF m = 0 THEN 203 ELSE 1754>>

(* The least size the search may come to; sel is 0, 0 and 1. *)
Lower(len, m, w) ==
    CASE m = 0 /\ w # 3 -> IF len * 10 < 2205 THEN 7 ELSE (len * 10) \div 315
      [] m = 0 /\ w = 3 -> IF len * 10 < 1085 THEN 7 ELSE (len * 10) \div 155
      [] m = 1 /\ w # 3 -> Word((len - 1) \div 18 - 1)
      [] m = 1 /\ w = 3 -> Word((len - 1) \div 22 - 1)

(* An odd size between the limits, before the search. *)
FirstSize(len, start, lower) ==
    LET s == Max({Min({start, Word((len - 1) \div 2 - 1)}), lower})
    IN  IF s % 2 = 1 THEN s ELSE IF lower < s THEN s - 1 ELSE s + 1

Remainder(len, s) == Word(len - (s + 1) \div 2) % (s + 1)

(* Variant: the test of the remainder is signed, so 0 is refused as well. *)
Sliver_Signed(len, s) == Remainder(len, s) - 1 < 7
Sliver(len, s) == Word(Remainder(len, s) - 1) < 7

(* The size the search ends with; v1 = s + 1 is a divisor before that. *)
NoSize == WordModulus - 1
SizeFrom(len, s0, lower) ==
    LET f[s \in Nat] ==
            IF s < lower \/ s = NoSize \/ ~Sliver(len, s) THEN s ELSE f[Word(s - 2)]
    IN  f[s0]

WindowSize(r, m, w) ==
    LET len == Length(r, m)[w]
        lower == Lower(len, m, w)
    IN  SizeFrom(len, FirstSize(len, Start(r, m)[w], lower), lower)

(* Size NoSize makes v2 / v1 a division by zero: it has no defined outcome. *)
DividesByZero(r) == \E m \in Mode : \E w \in 1 .. 3 : WindowSize(r, m, w) = NoSize

(* (v7 + (1 << (v5 >> 8) + 10)) / v6 - 1: of a quotient of 2^(shift + 8). *)
Reciprocal(s) == ((s + 1) \div 2 + 2 ^ (Log2[s + 1] + 10)) \div (s + 1) - 1

(***************************************************************************)
(* a[0..3], a[6..9] and a[12..15] after isp_set_stat_param: a search that  *)
(* falls below its limit leaves the number of windows as it was set.       *)
(***************************************************************************)
Window(r, m, w) ==
    LET s == WindowSize(r, m, w)
        len == Length(r, m)[w]
    IN  [size |-> s, recip |-> Reciprocal(s), shift |-> Log2[s + 1] + 2,
         count |-> IF s < Lower(len, m, w) THEN Parts(m)[w] ELSE (len - 1) \div (s + 1) + 1]

Windows(r, m) == [w \in 1 .. 3 |-> Window(r, m, w)]
=============================================================================
