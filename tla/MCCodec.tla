------------------------------- MODULE MCCodec -------------------------------
EXTENDS Codec

CONSTANT Structures     \* which of the GOP structures below

Frm(poc, tid, type, active0, l0, active1, l1) ==
  [poc |-> poc, tid |-> tid, type |-> type,
   l0 |-> [refs |-> l0, active |-> active0], l1 |-> [refs |-> l1, active |-> active1]]

-----------------------------------------------------------------------------
(* The GOP structures that come with the program. *)

\* cfg/encoder_randomaccess_vtm_gop8.cfg
Gop8 ==
  <<Frm(8, 0, "B", 4, <<8, 16, 24, 32>>, 2, <<8, 16>>),
    Frm(4, 1, "B", 2, <<4, 12, 20>>, 2, <<-4, -12>>),
    Frm(2, 2, "B", 2, <<2, 10, 18>>, 2, <<-2, -6, -14>>),
    Frm(1, 3, "B", 1, <<1, 9, 17>>, 2, <<-1, -3, -7, -15>>),
    Frm(3, 3, "B", 2, <<1, 3, 11, 19>>, 2, <<-1, -5, -13>>),
    Frm(6, 2, "B", 2, <<2, 6, 14, 22>>, 2, <<-2, -10>>),
    Frm(5, 3, "B", 1, <<1, 5, 13, 21>>, 2, <<-1, -3, -11>>),
    Frm(7, 3, "B", 2, <<1, 3, 7, 15, 23>>, 1, <<-1, -9>>)>>

\* cfg/encoder_randomaccess_vtm_gop16.cfg
Gop16 ==
  <<Frm(16, 0, "B", 2, <<16, 32, 24>>, 2, <<16, 32>>),
    Frm(8, 1, "B", 2, <<8, 16>>, 2, <<-8, 8>>),
    Frm(4, 2, "B", 2, <<4, 12>>, 2, <<-4, -12>>),
    Frm(2, 3, "B", 2, <<2, 10>>, 2, <<-2, -6, -14>>),
    Frm(1, 4, "B", 2, <<1, -1>>, 2, <<-1, -3, -7, -15>>),
    Frm(3, 4, "B", 2, <<1, 3>>, 2, <<-1, -5, -13>>),
    Frm(6, 3, "B", 2, <<2, 6>>, 2, <<-2, -10>>),
    Frm(5, 4, "B", 2, <<1, 5>>, 2, <<-1, -3, -11>>),
    Frm(7, 4, "B", 2, <<1, 3, 7>>, 2, <<-1, -9>>),
    Frm(12, 2, "B", 2, <<4, 12>>, 2, <<-4, 4>>),
    Frm(10, 3, "B", 2, <<2, 10>>, 2, <<-2, -6>>),
    Frm(9, 4, "B", 2, <<1, 9>>, 2, <<-1, -3, -7>>),
    Frm(11, 4, "B", 2, <<1, 3, 11>>, 2, <<-1, -5>>),
    Frm(14, 3, "B", 2, <<2, 6, 14>>, 2, <<-2, 2>>),
    Frm(13, 4, "B", 2, <<1, 5, 13>>, 2, <<-1, -3>>),
    Frm(15, 4, "B", 2, <<1, 3, 7, 15>>, 2, <<-1, 1>>)>>

\* cfg/encoder_randomaccess_vtm.cfg
Gop32 ==
  <<Frm(32, 0, "B", 2, <<32, 64, 48, 40, 36>>, 1, <<32, 48>>),
    Frm(16, 1, "B", 3, <<16, 32, 48, 24, 20>>, 1, <<-16>>),
    Frm(8, 2, "B", 4, <<8, 24, 16, 40, 12>>, 2, <<-8, -24>>),
    Frm(4, 3, "B", 3, <<4, 8, 20>>, 3, <<-4, -12, -28>>),
    Frm(2, 4, "B", 3, <<2, 6, 18>>, 4, <<-2, -6, -14, -30>>),
    Frm(1, 5, "B", 1, <<1>>, 2, <<-1, -3, -7, -15, -31>>),
    Frm(3, 5, "B", 2, <<1, 3>>, 2, <<-1, -5, -13, -29>>),
    Frm(6, 4, "B", 3, <<2, 4, 6>>, 3, <<-2, -10, -26>>),
    Frm(5, 5, "B", 2, <<1, 5>>, 2, <<-1, -3, -11, -27>>),
    Frm(7, 5, "B", 2, <<1, 3, 7>>, 2, <<-1, -9, -25>>),
    Frm(12, 3, "B", 3, <<4, 8, 12, 6>>, 2, <<-4, -20>>),
    Frm(10, 4, "B", 4, <<2, 4, 6, 10>>, 3, <<-2, -6, -22>>),
    Frm(9, 5, "B", 2, <<1, 5, 9>>, 2, <<-1, -3, -7, -23>>),
    Frm(11, 5, "B", 2, <<1, 3, 11>>, 2, <<-1, -5, -21>>),
    Frm(14, 4, "B", 4, <<2, 4, 6, 14>>, 2, <<-2, -18>>),
    Frm(13, 5, "B", 2, <<1, 5, 13>>, 2, <<-1, -3, -19>>),
    Frm(15, 5, "B", 2, <<1, 3, 7, 15>>, 2, <<-1, -17>>),
    Frm(24, 2, "B", 3, <<8, 16, 24>>, 1, <<-8>>),
    Frm(20, 3, "B", 3, <<4, 12, 20>>, 2, <<-4, -12>>),
    Frm(18, 4, "B", 3, <<2, 10, 18>>, 3, <<-2, -6, -14>>),
    Frm(17, 5, "B", 2, <<1, 9, 17>>, 2, <<-1, -3, -7, -15>>),
    Frm(19, 5, "B", 2, <<1, 3, 19>>, 2, <<-1, -5, -13>>),
    Frm(22, 4, "B", 3, <<2, 6, 22>>, 3, <<-2, -10, 4>>),
    Frm(21, 5, "B", 2, <<1, 5, 21>>, 2, <<-1, -3, -11>>),
    Frm(23, 5, "B", 2, <<1, 3, 7, 23>>, 2, <<-1, -9>>),
    Frm(28, 3, "B", 4, <<4, 8, 12, 28>>, 1, <<-4>>),
    Frm(26, 4, "B", 4, <<2, 6, 10, 26>>, 2, <<-2, -6>>),
    Frm(25, 5, "B", 2, <<1, 5, 9, 25>>, 2, <<-1, -3, -7>>),
    Frm(27, 5, "B", 2, <<1, 3, 11, 27>>, 2, <<-1, -5>>),
    Frm(30, 4, "B", 4, <<2, 6, 14, 30>>, 1, <<-2>>),
    Frm(29, 5, "B", 2, <<1, 5, 13, 29>>, 2, <<-1, -3>>),
    Frm(31, 5, "B", 2, <<1, 3, 7, 15, 31>>, 1, <<-1>>)>>

\* cfg/encoder_lowdelay_vtm.cfg
LowDelay8 ==
  <<Frm(1, 0, "B", 4, <<1, 9, 17, 25>>, 4, <<1, 3, 5, 33>>),
    Frm(2, 0, "B", 4, <<1, 2, 10, 18>>, 4, <<1, 2, 4, 26>>),
    Frm(3, 0, "B", 4, <<1, 3, 11, 19>>, 4, <<1, 3, 5, 27>>),
    Frm(4, 0, "B", 4, <<1, 4, 12, 20>>, 4, <<1, 2, 4, 28>>),
    Frm(5, 0, "B", 4, <<1, 5, 13, 21>>, 4, <<1, 3, 5, 29>>),
    Frm(6, 0, "B", 4, <<1, 6, 14, 22>>, 4, <<1, 2, 6, 30>>),
    Frm(7, 0, "B", 4, <<1, 7, 15, 23>>, 4, <<1, 3, 7, 31>>),
    Frm(8, 0, "B", 4, <<1, 8, 16, 24>>, 4, <<1, 2, 4, 32>>)>>

\* cfg/encoder_lowdelay_P_vtm.cfg
LowDelayP ==
  <<Frm(1, 0, "P", 4, <<1, 9, 17, 25>>, 0, <<>>),
    Frm(2, 0, "P", 4, <<1, 2, 10, 18>>, 0, <<>>),
    Frm(3, 0, "P", 4, <<1, 3, 11, 19>>, 0, <<>>),
    Frm(4, 0, "P", 4, <<1, 4, 12, 20>>, 0, <<>>),
    Frm(5, 0, "P", 4, <<1, 5, 13, 21>>, 0, <<>>),
    Frm(6, 0, "P", 4, <<1, 6, 14, 22>>, 0, <<>>),
    Frm(7, 0, "P", 4, <<1, 7, 15, 23>>, 0, <<>>),
    Frm(8, 0, "P", 4, <<1, 8, 16, 24>>, 0, <<>>)>>

-----------------------------------------------------------------------------
(* Small structures, of two layers, of three, and of one. *)

Bframes ==
  <<Frm(2, 0, "B", 1, <<2>>, 1, <<2>>),
    Frm(1, 1, "B", 1, <<1>>, 1, <<-1>>)>>

Pyramid ==
  <<Frm(4, 0, "B", 1, <<4>>, 1, <<4>>),
    Frm(2, 1, "B", 2, <<2, -2>>, 2, <<-2, 2>>),
    Frm(1, 2, "B", 2, <<1, -1>>, 2, <<-1, -3>>),
    Frm(3, 2, "B", 2, <<1, 3>>, 2, <<-1, 1>>)>>

LowDelay ==
  <<Frm(1, 0, "B", 2, <<1, 2>>, 2, <<1, 2>>),
    Frm(2, 0, "P", 2, <<1, 2>>, 0, <<>>)>>

\* Its second frame asks for one the first does not keep.
Forgetful ==
  <<Frm(1, 0, "P", 1, <<1>>, 0, <<>>),
    Frm(2, 0, "P", 1, <<4>>, 0, <<>>)>>

-----------------------------------------------------------------------------
(* The configurations. *)

Run(gop, period, refresh, frames, input) ==
  [gop |-> gop, intraPeriod |-> period, refresh |-> refresh,
   framesToBeEncoded |-> frames, input |-> input]

\* Up to twelve frames, of which the file may hold fewer, in every kind of
\* refresh.  A file that ends where a GOP ends is left to FindEndOfFile.
Short(gop, period, refresh) ==
  {Run(gop, period, refresh, n, n) : n \in 1 .. 12}
    \cup {Run(gop, period, refresh, 12, n) : n \in {k \in 1 .. 11 : (k - 1) % Len(gop) # 0}}

SmallConfigs ==
  UNION {Short(g, 8, r) : g \in {Bframes, Pyramid, LowDelay}, r \in {1, 2, 3}}
    \cup UNION {Short(g, -1, 0) : g \in {Bframes, Pyramid, LowDelay, Forgetful}}

\* The POCs pass the 256 values of their low-order bits.
LongConfigs == {Run(Bframes, 32, r, 262, 262) : r \in {1, 2}}

\* Two GOPs and what is left, or the periods at which encoders refresh.
ShippedConfigs ==
  {Run(Gop8, 32, r, 50, 50) : r \in {1, 2}}
    \cup {Run(Gop16, 32, r, 70, 70) : r \in {1, 2, 3}} \cup {Run(Gop16, -1, 0, 45, 42)}
    \cup {Run(Gop32, p, r, 70, 70) : p \in {32, 64}, r \in {1}}
    \cup {Run(Gop32, 64, 2, 70, 70), Run(Gop32, -1, 0, 70, 70)}
    \cup {Run(LowDelay8, -1, 0, 45, 45), Run(LowDelayP, 32, 1, 45, 45)}

\* Read to its end, the structure of eight frames without an intra period.
Gop8WithoutPeriod == {Run(Gop8, -1, 0, 34, 34)}

\* The file holds fewer frames than were asked for, and ends with a GOP.
EndsWithGop == {Run(Bframes, 8, r, 8, 5) : r \in {1, 2, 3}}

MCConfigs ==
  LET named == [small |-> SmallConfigs, long |-> LongConfigs, shipped |-> ShippedConfigs,
                gop8 |-> Gop8WithoutPeriod, endOfFile |-> EndsWithGop]
  IN  {c \in UNION {named[s] : s \in Structures} : IsConfig(c)}
=============================================================================
