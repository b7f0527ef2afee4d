----------------------------- MODULE PanelProofs -----------------------------
(***************************************************************************)
(* What PanelImage and Rcvbp promise, for every set of panel specs, chip     *)
(* libraries and files: the place of each pixel, the boot image that is      *)
(* built and the packs cut from it; what `config import` says of a file, and *)
(* what `config build` makes of two.                                        *)
(***************************************************************************)
EXTENDS Rcvbp, FiniteSetTheorems, SequenceTheorems, WellFoundedInduction, TLAPS

GSpec == GInit /\ [][GNext]_gvars

-----------------------------------------------------------------------------
(* Largest and smallest numbers of a set.                                   *)
LEMMA LeastNatural ==
  ASSUME NEW S, S \subseteq Nat, S # {}
  PROVE  Min(S) \in S /\ \A y \in S : Min(S) <= y
<1>1. PICK x \in S : \A y \in S : ~(<<y, x>> \in OpToRel(<, Nat))
      BY WFMin, NatLessThanWellFounded
<1>2. ASSUME NEW y \in S PROVE x <= y
  <2>1. x \in Nat /\ y \in Nat
        OBVIOUS
  <2>2. y < x => <<y, x>> \in OpToRel(<, Nat)
        BY <2>1 DEF OpToRel
  <2>3. ~(y < x)
        BY <1>1, <2>2, Zenon
  <2> QED BY <2>1, <2>3
<1> QED BY <1>2 DEF Min

\* A bounded set of natural numbers has a greatest one.
LEMMA GreatestBounded ==
  ASSUME NEW B \in Nat, NEW S, S \subseteq 0 .. B, S # {}
  PROVE  Max(S) \in S /\ \A y \in S : Max(S) >= y
<1> DEFINE T == {B - n : n \in S}
<1>1. T \subseteq Nat /\ T # {}
  <2>1. \A n \in S : B - n \in Nat
        OBVIOUS
  <2> QED BY <2>1
<1>2. Min(T) \in T /\ \A y \in T : Min(T) <= y
      BY <1>1, LeastNatural
<1>3. PICK x \in S : Min(T) = B - x
      BY <1>2
<1>4. ASSUME NEW y \in S PROVE x >= y
  <2>1. B - y \in T
        BY <1>4
  <2>2. B - x <= B - y
        BY <1>2, <1>3, <2>1
  <2> QED BY <1>3, <2>2
<1> QED BY <1>4 DEF Max

\* The greater of two.
LEMMA MaxOfTwo ==
  ASSUME NEW a \in Int, NEW b \in Int
  PROVE  Max({a, b}) = IF a >= b THEN a ELSE b
BY DEF Max

\* The smaller of two.
LEMMA MinOfTwo ==
  ASSUME NEW a \in Int, NEW b \in Int
  PROVE  Min({a, b}) = IF a <= b THEN a ELSE b
BY DEF Min

-----------------------------------------------------------------------------
(* The image. Every piece that can be in one has a rank, the order in which  *)
(* the builder's calls place them.                                          *)
Ranks == 1 .. 15

Laid(s, r) ==
  CASE r \in 1 .. 6 -> Piece("zeros", ZeroRegions[r][1], ZeroRegions[r][2])
    [] r = 7 -> RegionOf("pack")   [] r = 8 -> RegionOf("swap")
    [] r = 9 -> RegionOf("tiles")  [] r = 10 -> RegionOf("anti")
    [] r = 11 -> PhantomColumns(s) [] r = 12 -> RegionOf("map")
    [] r = 13 -> RegionOf("scan")  [] r = 14 -> RegionOf("chip")
    [] r = 15 -> Piece("rcvbp", Offset.rcvbp, \h10000)

\* The pieces that a spec has.
Present(s, r) ==
  /\ r = 11 => s.gate_phantom
  /\ r = 14 => s.arm_at_boot /\ HasRegisters(s)

PiecesTo(s, top) == {Laid(s, r) : r \in {q \in 1 .. top : Present(s, q)}}

\* An image with the pieces up to a rank, each once and in their order.
HasPieces(s, image, top) ==
  /\ top \in 0 .. 15
  /\ image \in Seq(PiecesTo(s, top))
  /\ \A r \in 1 .. top : Present(s, r) => \E i \in DOMAIN image : image[i] = Laid(s, r)
  /\ \A i, j \in DOMAIN image : i < j =>
       \A r, q \in 1 .. top : image[i] = Laid(s, r) /\ image[j] = Laid(s, q) => r < q
  /\ top >= 11 /\ s.gate_phantom => ~ColumnsPanic(s) /\ s.width # 0

\* The pieces as the table they are.
LEMMA Ranges ==
  ASSUME NEW s
  PROVE  /\ Laid(s, 1) = Piece("zeros", 256, 1280)    /\ Laid(s, 2) = Piece("zeros", 2560, 3072)
         /\ Laid(s, 3) = Piece("zeros", 3072, 3328)   /\ Laid(s, 4) = Piece("zeros", 4096, 6144)
         /\ Laid(s, 5) = Piece("zeros", 26624, 28672) /\ Laid(s, 6) = Piece("zeros", 28672, 32768)
         /\ Laid(s, 7) = Piece("pack", 0, 256)        /\ Laid(s, 8) = Piece("swap", 1280, 1536)
         /\ Laid(s, 9) = Piece("tiles", 1536, 2304)   /\ Laid(s, 10) = Piece("anti", 6144, 10240)
         /\ Laid(s, 11) = PhantomColumns(s)           /\ Laid(s, 12) = Piece("map", 12288, 24576)
         /\ Laid(s, 13) = Piece("scan", 24576, 25600) /\ Laid(s, 14) = Piece("chip", 2304, 2560)
         /\ Laid(s, 15) = Piece("rcvbp", 32768, 65536)
<1>1. \A r \in 1 .. 6 : Laid(s, r) = Piece("zeros", ZeroRegions[r][1], ZeroRegions[r][2])
      BY DEF Laid
<1>2. /\ ZeroRegions[1] = <<256, 1280>>    /\ ZeroRegions[2] = <<2560, 3072>>
      /\ ZeroRegions[3] = <<3072, 3328>>   /\ ZeroRegions[4] = <<4096, 6144>>
      /\ ZeroRegions[5] = <<26624, 28672>> /\ ZeroRegions[6] = <<28672, 32768>>
      BY DEF ZeroRegions
<1>3. /\ RegionOf("pack") = Piece("pack", 0, 256) /\ RegionOf("swap") = Piece("swap", 1280, 1536)
      /\ RegionOf("tiles") = Piece("tiles", 1536, 2304) /\ RegionOf("anti") = Piece("anti", 6144, 10240)
      /\ RegionOf("map") = Piece("map", 12288, 24576) /\ RegionOf("scan") = Piece("scan", 24576, 25600)
      /\ RegionOf("chip") = Piece("chip", 2304, 2560) /\ Offset.rcvbp = 32768
      BY DEF RegionOf, Offset, Size
<1>4. /\ Laid(s, 7) = RegionOf("pack") /\ Laid(s, 8) = RegionOf("swap") /\ Laid(s, 9) = RegionOf("tiles")
      /\ Laid(s, 10) = RegionOf("anti") /\ Laid(s, 11) = PhantomColumns(s) /\ Laid(s, 12) = RegionOf("map")
      /\ Laid(s, 13) = RegionOf("scan") /\ Laid(s, 14) = RegionOf("chip")
      /\ Laid(s, 15) = Piece("rcvbp", Offset.rcvbp, 65536)
      BY DEF Laid
<1>5. /\ Laid(s, 1) = Piece("zeros", 256, 1280)    /\ Laid(s, 2) = Piece("zeros", 2560, 3072)
      /\ Laid(s, 3) = Piece("zeros", 3072, 3328)   /\ Laid(s, 4) = Piece("zeros", 4096, 6144)
      /\ Laid(s, 5) = Piece("zeros", 26624, 28672) /\ Laid(s, 6) = Piece("zeros", 28672, 32768)
  <2> HIDE DEF Laid, Piece, ZeroRegions
  <2> QED BY <1>1, <1>2
<1> QED BY <1>3, <1>4, <1>5

\* Each is placed under the name of its region.
LEMMA LaidNames ==
  ASSUME NEW s
  PROVE  /\ Laid(s, 1).by = "zeros"  /\ Laid(s, 2).by = "zeros"  /\ Laid(s, 3).by = "zeros"
         /\ Laid(s, 4).by = "zeros"  /\ Laid(s, 5).by = "zeros"  /\ Laid(s, 6).by = "zeros"
         /\ Laid(s, 7).by = "pack"  /\ Laid(s, 8).by = "swap"  /\ Laid(s, 9).by = "tiles"
         /\ Laid(s, 10).by = "anti"  /\ Laid(s, 11).by = "columns"  /\ Laid(s, 12).by = "map"
         /\ Laid(s, 13).by = "scan"  /\ Laid(s, 14).by = "chip"  /\ Laid(s, 15).by = "rcvbp"
<1>1. Laid(s, 11).by = "columns"
  <2>1. Laid(s, 11) = PhantomColumns(s)
        BY Ranges
  <2>2. PhantomColumns(s).by = "columns"
        BY DEF PhantomColumns, Piece
  <2> QED BY <2>1, <2>2
<1> QED BY <1>1, Ranges DEF Piece

\* No two pieces are the same.
LEMMA PiecesDiffer ==
  ASSUME NEW s, NEW r \in Ranks, NEW q \in Ranks, Laid(s, r) = Laid(s, q)
  PROVE  r = q
<1>1. /\ Laid(s, 1).by = "zeros"  /\ Laid(s, 2).by = "zeros"  /\ Laid(s, 3).by = "zeros"
      /\ Laid(s, 4).by = "zeros"  /\ Laid(s, 5).by = "zeros"  /\ Laid(s, 6).by = "zeros"
      /\ Laid(s, 7).by = "pack"  /\ Laid(s, 8).by = "swap"  /\ Laid(s, 9).by = "tiles"
      /\ Laid(s, 10).by = "anti"  /\ Laid(s, 11).by = "columns"  /\ Laid(s, 12).by = "map"
      /\ Laid(s, 13).by = "scan"  /\ Laid(s, 14).by = "chip"  /\ Laid(s, 15).by = "rcvbp"
      BY LaidNames
<1>2. /\ Laid(s, 1).from = 256  /\ Laid(s, 2).from = 2560  /\ Laid(s, 3).from = 3072
      /\ Laid(s, 4).from = 4096  /\ Laid(s, 5).from = 26624  /\ Laid(s, 6).from = 28672
      BY Ranges DEF Piece
<1> HIDE DEF Laid
<1>3. r \notin 1 .. 6 => r = q
      BY <1>1 DEF Ranks
<1>4. r \in 1 .. 6 => q \in 1 .. 6
      BY <1>1 DEF Ranks
<1> QED BY <1>2, <1>3, <1>4 DEF Ranks

\* The columns aside, no two pieces share a byte.
LEMMA PiecesApart ==
  ASSUME NEW s, NEW r \in Ranks \ {11}, NEW q \in Ranks \ {11}, r # q
  PROVE  Laid(s, r).to <= Laid(s, q).from \/ Laid(s, q).to <= Laid(s, r).from
BY Ranges DEF Ranks, Piece

\* A sequence of pieces with one more at its end.
LEMMA LastIsNew ==
  ASSUME NEW S, NEW T, S \subseteq T, NEW image \in Seq(S), NEW p \in T
  PROVE  /\ image \o <<p>> \in Seq(T)
         /\ DOMAIN (image \o <<p>>) = DOMAIN image \cup {Len(image) + 1}
         /\ \A i \in DOMAIN image : (image \o <<p>>)[i] = image[i] /\ i < Len(image) + 1
         /\ (image \o <<p>>)[Len(image) + 1] = p
<1>1. image \in Seq(T)
      OBVIOUS
<1> QED BY <1>1

\* A call that places one piece more, the next that the spec has.
LEMMA OneMore ==
  ASSUME NEW s, NEW image, NEW top, HasPieces(s, image, top),
         NEW r \in Ranks, top < r, Present(s, r),
         \A q \in top + 1 .. r - 1 : ~Present(s, q),
         r >= 11 /\ s.gate_phantom => ~ColumnsPanic(s) /\ s.width # 0
  PROVE  HasPieces(s, image \o <<Laid(s, r)>>, r)
<1> DEFINE longer == image \o <<Laid(s, r)>>
<1>0. /\ top \in 0 .. 15 /\ image \in Seq(PiecesTo(s, top))
      /\ \A k \in 1 .. top : k \in Ranks /\ k \in 1 .. r /\ k < r
      BY DEF HasPieces, Ranks
<1>1. PiecesTo(s, top) \subseteq PiecesTo(s, r) /\ Laid(s, r) \in PiecesTo(s, r)
      BY <1>0 DEF PiecesTo, Ranks
<1>2. /\ longer \in Seq(PiecesTo(s, r)) /\ DOMAIN longer = DOMAIN image \cup {Len(image) + 1}
      /\ \A i \in DOMAIN image : longer[i] = image[i] /\ i < Len(image) + 1
      /\ longer[Len(image) + 1] = Laid(s, r)
      BY <1>0, <1>1, LastIsNew
<1>3. \A i \in DOMAIN image : \E k \in 1 .. top : image[i] = Laid(s, k)
      BY <1>0 DEF PiecesTo
<1> HIDE DEF longer
<1>4. ASSUME NEW k \in 1 .. r, Present(s, k) PROVE \E i \in DOMAIN longer : longer[i] = Laid(s, k)
  <2>1. CASE k = r
        BY <1>2, <2>1
  <2>2. CASE k # r
    <3>1. k \in 1 .. top
          BY <1>0, <1>4, <2>2 DEF Ranks
    <3> QED BY <1>2, <3>1, <1>4 DEF HasPieces
  <2> QED BY <2>1, <2>2
<1>5. ASSUME NEW i \in DOMAIN longer, NEW j \in DOMAIN longer, i < j,
             NEW k \in 1 .. r, NEW q \in 1 .. r, longer[i] = Laid(s, k), longer[j] = Laid(s, q)
      PROVE  k < q
  <2>1. i \in DOMAIN image
        BY <1>0, <1>2, <1>5
  <2>2. PICK m \in 1 .. top : image[i] = Laid(s, m)
        BY <1>3, <2>1
  <2>6. k \in Ranks /\ q \in Ranks
        BY <1>5 DEF Ranks
  <2>3. k = m
    <3>1. Laid(s, k) = Laid(s, m) /\ m \in Ranks
          BY <1>0, <1>2, <1>5, <2>1, <2>2
    <3> QED BY <2>6, <3>1, PiecesDiffer
  <2>4. CASE j \in DOMAIN image
    <3>1. PICK n \in 1 .. top : image[j] = Laid(s, n)
          BY <1>3, <2>4
    <3>2. q = n
      <4>1. Laid(s, q) = Laid(s, n) /\ n \in Ranks
            BY <1>0, <1>2, <1>5, <2>4, <3>1
      <4> QED BY <2>6, <4>1, PiecesDiffer
    <3> QED BY <1>5, <2>1, <2>2, <2>3, <2>4, <3>1, <3>2 DEF HasPieces
  <2>5. CASE j = Len(image) + 1
    <3>1. q = r
      <4>1. Laid(s, q) = Laid(s, r)
            BY <1>2, <1>5, <2>5
      <4> QED BY <2>6, <4>1, PiecesDiffer
    <3> QED BY <1>0, <2>2, <2>3, <3>1
  <2> QED BY <1>2, <2>4, <2>5
<1> QED BY <1>2, <1>4, <1>5 DEF HasPieces, Ranks, longer

\* A call that places nothing.
LEMMA NoneMore ==
  ASSUME NEW s, NEW image, NEW top, HasPieces(s, image, top), NEW r \in Ranks, top <= r,
         \A q \in top + 1 .. r : ~Present(s, q),
         r >= 11 /\ s.gate_phantom => ~ColumnsPanic(s) /\ s.width # 0
  PROVE  HasPieces(s, image, r)
<1>1. top \in 0 .. 15 /\ \A q \in 1 .. r : Present(s, q) => q \in 1 .. top
      BY DEF HasPieces, Ranks
<1>2. PiecesTo(s, top) = PiecesTo(s, r)
      BY <1>1 DEF PiecesTo, Ranks
<1>3. \A i \in DOMAIN image : \A k \in 1 .. r : image[i] = Laid(s, k) => k \in 1 .. top
  <2> SUFFICES ASSUME NEW i \in DOMAIN image, NEW k \in 1 .. r, image[i] = Laid(s, k)
               PROVE  k \in 1 .. top
      OBVIOUS
  <2>1. PICK m \in 1 .. top : image[i] = Laid(s, m)
        BY DEF HasPieces, PiecesTo
  <2>2. k = m
    <3>1. k \in Ranks /\ m \in Ranks /\ Laid(s, k) = Laid(s, m)
          BY <1>1, <2>1 DEF Ranks
    <3> QED BY <3>1, PiecesDiffer
  <2> QED BY <2>2
<1> QED BY <1>1, <1>2, <1>3 DEF HasPieces, Ranks

\* The first call places the zeros, all six.
LEMMA ZerosFirst ==
  ASSUME NEW s
  PROVE  HasPieces(s, <<>>, 0) /\ HasPieces(s, Placements(s, "zeros"), 6)
<1>1. HasPieces(s, <<>>, 0)
      BY DEF HasPieces
<1> DEFINE zeros == Placements(s, "zeros")
<1>2. DOMAIN ZeroRegions = 1 .. 6
      BY DEF ZeroRegions
<1>3. zeros = [r \in 1 .. 6 |-> Laid(s, r)]
      BY <1>2 DEF Placements, Laid
<1> HIDE DEF zeros
<1>4. zeros \in Seq(PiecesTo(s, 6)) /\ DOMAIN zeros = 1 .. 6
  <2>1. \A r \in 1 .. 6 : Laid(s, r) \in PiecesTo(s, 6)
        BY DEF PiecesTo, Present
  <2> QED BY <1>3, <2>1
<1>5. ASSUME NEW i \in 1 .. 6, NEW j \in 1 .. 6, i < j, NEW r \in 1 .. 6, NEW q \in 1 .. 6,
             zeros[i] = Laid(s, r), zeros[j] = Laid(s, q)
      PROVE  r < q
  <2>1. i = r /\ j = q
        BY <1>3, <1>5, PiecesDiffer DEF Ranks
  <2> QED BY <1>5, <2>1
<1>6. HasPieces(s, zeros, 6)
      BY <1>3, <1>4, <1>5 DEF HasPieces
<1> QED BY <1>1, <1>6 DEF zeros

\* The rank that the builder has come to after its calls.
Done(n) == IF n = 0 THEN 0 ELSE 5 + n

\* The calls, and how many.
LEMMA EightSteps ==
  /\ Len(Steps) = 8
  /\ Steps[1] = "zeros" /\ Steps[2] = "pack" /\ Steps[3] = "swap" /\ Steps[4] = "tiles"
  /\ Steps[5] = "anti" /\ Steps[6] = "columns" /\ Steps[7] = "map" /\ Steps[8] = "scan"
BY DEF Steps

\* Every other call places one region, that of the columns only where they are gated.
LEMMA OnePieceEach ==
  ASSUME NEW s
  PROVE  /\ Placements(s, "pack") = <<Laid(s, 7)>>  /\ Placements(s, "swap") = <<Laid(s, 8)>>
         /\ Placements(s, "tiles") = <<Laid(s, 9)>> /\ Placements(s, "anti") = <<Laid(s, 10)>>
         /\ Placements(s, "map") = <<Laid(s, 12)>>  /\ Placements(s, "scan") = <<Laid(s, 13)>>
         /\ Placements(s, "columns") = IF s.gate_phantom THEN <<Laid(s, 11)>> ELSE <<>>
BY DEF Placements, Laid

\* Which.
LEMMA SixthPlus ==
  ASSUME NEW s, NEW n \in {1, 2, 3, 4, 6, 7}
  PROVE  Placements(s, Steps[n + 1]) = <<Laid(s, 6 + n)>>
<1>1. CASE n = 1
  <2>1. Steps[n + 1] = "pack" /\ 6 + n = 7
        BY <1>1, EightSteps
  <2> QED BY <2>1, OnePieceEach, Zenon
<1>2. CASE n = 2
  <2>1. Steps[n + 1] = "swap" /\ 6 + n = 8
        BY <1>2, EightSteps
  <2> QED BY <2>1, OnePieceEach, Zenon
<1>3. CASE n = 3
  <2>1. Steps[n + 1] = "tiles" /\ 6 + n = 9
        BY <1>3, EightSteps
  <2> QED BY <2>1, OnePieceEach, Zenon
<1>4. CASE n = 4
  <2>1. Steps[n + 1] = "anti" /\ 6 + n = 10
        BY <1>4, EightSteps
  <2> QED BY <2>1, OnePieceEach, Zenon
<1>6. CASE n = 6
  <2>1. Steps[n + 1] = "map" /\ 6 + n = 12
        BY <1>6, EightSteps
  <2> QED BY <2>1, OnePieceEach, Zenon
<1>7. CASE n = 7
  <2>1. Steps[n + 1] = "scan" /\ 6 + n = 13
        BY <1>7, EightSteps
  <2> QED BY <2>1, OnePieceEach, Zenon
<1> QED BY <1>1, <1>2, <1>3, <1>4, <1>6, <1>7

\* Each call of from_generated.
LEMMA CallPlaces ==
  ASSUME NEW s, NEW n \in 0 .. 7, NEW image, HasPieces(s, image, Done(n)),
         ~StepPanics(s, Steps[n + 1]), s.width # 0
  PROVE  HasPieces(s, image \o Placements(s, Steps[n + 1]), Done(n + 1))
<1>0. \A r \in Ranks : r \notin {11, 14} => Present(s, r)
      BY DEF Present
<1>1. CASE n = 0
  <2>1. image \in Seq({})
        BY <1>1 DEF HasPieces, Done, PiecesTo
  <2>2. image = <<>>
        BY <2>1
  <2>3. Placements(s, "zeros") \in Seq(PiecesTo(s, 6))
        BY ZerosFirst DEF HasPieces
  <2>4. image \o Placements(s, "zeros") = Placements(s, "zeros")
        BY <2>2, <2>3
  <2>5. Steps[n + 1] = "zeros" /\ Done(n + 1) = 6
        BY <1>1, EightSteps DEF Done
  <2> QED BY <2>4, <2>5, ZerosFirst, Zenon
<1>2. CASE n \in {1, 2, 3, 4}
  <2>1. Done(n) = 5 + n /\ Done(n + 1) = 6 + n /\ 6 + n \in Ranks /\ Present(s, 6 + n)
        BY <1>0, <1>2 DEF Done, Ranks
  <2>2. Placements(s, Steps[n + 1]) = <<Laid(s, 6 + n)>>
        BY <1>2, SixthPlus
  <2>4. HasPieces(s, image, 5 + n) /\ 5 + n < 6 + n /\ ~(6 + n >= 11)
        /\ \A q \in 5 + n + 1 .. 6 + n - 1 : FALSE
        BY <1>2, <2>1
  <2>3. HasPieces(s, image \o <<Laid(s, 6 + n)>>, 6 + n)
        BY <2>1, <2>4, OneMore
  <2> QED BY <2>1, <2>2, <2>3
<1>3. CASE n = 5
  <2>1. Done(n) = 10 /\ Done(n + 1) = 11 /\ 11 \in Ranks /\ HasPieces(s, image, 10)
        BY <1>3 DEF Done, Ranks
  <2>5. \A q \in 10 + 1 .. 11 - 1 : FALSE
        OBVIOUS
  <2>6. Steps[n + 1] = "columns"
        BY <1>3, EightSteps
  <2>2. ~ColumnsPanic(s)
        BY <1>3, EightSteps DEF StepPanics
  <2>3. CASE s.gate_phantom
    <3>1. Present(s, 11)
          BY <2>3 DEF Present
    <3>2. HasPieces(s, image \o <<Laid(s, 11)>>, 11)
          BY <2>1, <2>2, <2>5, <3>1, OneMore
    <3>3. Placements(s, "columns") = <<Laid(s, 11)>>
          BY <2>3, OnePieceEach
    <3> QED BY <2>1, <2>6, <3>2, <3>3, Zenon
  <2>4. CASE ~s.gate_phantom
    <3>1. ~Present(s, 11)
          BY <2>4 DEF Present
    <3>2. HasPieces(s, image, 11)
      <4>1. \A q \in 10 + 1 .. 11 : ~Present(s, q)
            BY <3>1
      <4> QED BY <2>1, <2>2, <2>4, <4>1, NoneMore
    <3>3. image \o <<>> = image
          BY DEF HasPieces
    <3>4. Placements(s, "columns") = <<>>
          BY <2>4, OnePieceEach
    <3> QED BY <2>1, <2>6, <3>2, <3>3, <3>4, Zenon
  <2> QED BY <2>3, <2>4
<1>4. CASE n \in {6, 7}
  <2>1. Done(n) = 5 + n /\ Done(n + 1) = 6 + n /\ 6 + n \in Ranks /\ Present(s, 6 + n)
        BY <1>0, <1>4 DEF Done, Ranks
  <2>2. Placements(s, Steps[n + 1]) = <<Laid(s, 6 + n)>>
        BY <1>4, SixthPlus
  <2>3. s.gate_phantom => ~ColumnsPanic(s)
        BY <1>4, <2>1 DEF HasPieces
  <2>5. HasPieces(s, image, 5 + n) /\ 5 + n < 6 + n
        /\ \A q \in 5 + n + 1 .. 6 + n - 1 : FALSE
        BY <1>4, <2>1
  <2>4. HasPieces(s, image \o <<Laid(s, 6 + n)>>, 6 + n)
        BY <2>1, <2>3, <2>5, OneMore
  <2> QED BY <2>1, <2>2, <2>4
<1> QED BY <1>1, <1>2, <1>3, <1>4

\* compile: the chip page, and the file.
LEMMA CompilePlaces ==
  ASSUME NEW s, NEW image, HasPieces(s, image, 13)
  PROVE  HasPieces(s, image
           \o (IF s.arm_at_boot /\ HasRegisters(s) THEN <<RegionOf("chip")>> ELSE <<>>)
           \o <<Piece("rcvbp", Offset.rcvbp, \h10000)>>, 15)
<1>0. /\ Laid(s, 14) = RegionOf("chip") /\ Laid(s, 15) = Piece("rcvbp", Offset.rcvbp, \h10000)
      /\ Present(s, 15) /\ 14 \in Ranks /\ 15 \in Ranks
      /\ s.gate_phantom => ~ColumnsPanic(s) /\ s.width # 0
      BY DEF Laid, Present, Ranks, HasPieces
<1> DEFINE chip == IF s.arm_at_boot /\ HasRegisters(s) THEN <<RegionOf("chip")>> ELSE <<>>
<1>1. HasPieces(s, image \o chip, 14)
  <2>1. CASE s.arm_at_boot /\ HasRegisters(s)
    <3>1. Present(s, 14)
          BY <2>1 DEF Present
    <3>2. HasPieces(s, image \o <<Laid(s, 14)>>, 14)
          BY <1>0, <3>1, OneMore
    <3> QED BY <1>0, <2>1, <3>2
  <2>2. CASE ~(s.arm_at_boot /\ HasRegisters(s))
    <3>1. ~Present(s, 14)
          BY <2>2 DEF Present
    <3>2. HasPieces(s, image, 14)
          BY <1>0, <3>1, NoneMore
    <3>3. image \o <<>> = image
          BY DEF HasPieces
    <3> QED BY <2>2, <3>2, <3>3
  <2> QED BY <2>1, <2>2
<1> HIDE DEF chip
<1>2. HasPieces(s, (image \o chip) \o <<Laid(s, 15)>>, 15)
      BY <1>0, <1>1, OneMore
<1> QED BY <1>0, <1>2 DEF chip

-----------------------------------------------------------------------------
(* The inductive invariant of the commands.                                 *)
FieldTypes ==
  /\ gat \in {"spec", "open", "build", "write", "ok", "failed", "panic"}
  /\ gcmd \in {"gen", "push", "chip"} /\ gspec \in Specs
  /\ gstep \in 0 .. Len(Steps) /\ gsent \in 0 .. Len(Packs) /\ gchip \in BOOLEAN
  /\ gfiles \in [Outputs -> 0 .. grun] /\ grun \in 1 .. MaxGens

\* The image at each step has the pieces placed so far; the columns are in one
\* only where they end inside it.
ImageSoFar ==
  /\ \E top \in 0 .. 15 : HasPieces(gspec, gimg, top)
  /\ gat \in {"spec", "open"} => gimg = <<>> /\ gstep = 0
  /\ gat \in {"open", "build"} => Valid(gspec) /\ ~Panics(gspec)
  /\ gat = "open" => gcmd # "gen"
  /\ gat = "build" => HasPieces(gspec, gimg, Done(gstep))
  /\ gat = "write" => gcmd = "gen" /\ (gimg # <<>> => HasPieces(gspec, gimg, 15))
  /\ gat = "ok" /\ gimg # <<>> => \E top \in {13, 15} : HasPieces(gspec, gimg, top)

\* The image's file is of this run only if there is an image.
FilesSoFar ==
  /\ gat \in {"spec", "open", "build"} => \A f \in Outputs : gfiles[f] < grun
  /\ gat \in {"write", "ok"} /\ gfiles["block7"] = grun => gimg # <<>>
  /\ gat = "ok" /\ gcmd = "gen" => \A f \in Outputs : gfiles[f] = grun

PanelInv == FieldTypes /\ ImageSoFar /\ FilesSoFar

\* It holds before the first command.
LEMMA PanelStarts == GInit => PanelInv
<1> SUFFICES ASSUME GInit PROVE PanelInv
    OBVIOUS
<1>0. Len(Packs) \in Nat /\ "block7" \in Outputs
  <2>1. Packs \in Seq([from : Int, to : Int])
        BY DEF Packs, Pack, Offset
  <2> QED BY <2>1 DEF Outputs
<1>1. FieldTypes
  <2>1. gfiles \in [Outputs -> 0 .. grun] /\ grun \in 1 .. MaxGens
        BY MaxGensAssumption DEF GInit
  <2>2. gstep \in 0 .. Len(Steps) /\ gsent \in 0 .. Len(Packs)
        BY <1>0, EightSteps DEF GInit
  <2> QED BY <2>1, <2>2 DEF GInit, FieldTypes
<1>2. ImageSoFar
      BY ZerosFirst DEF GInit, ImageSoFar
<1>3. FilesSoFar
      BY <1>0 DEF GInit, FilesSoFar
<1> QED BY <1>1, <1>2, <1>3 DEF PanelInv

\* Every step keeps it.
LEMMA PanelSteps == PanelInv /\ [GNext]_gvars => PanelInv'
<1> SUFFICES ASSUME PanelInv, [GNext]_gvars PROVE PanelInv'
    OBVIOUS
<1>T. FieldTypes
      BY DEF PanelInv
<1>M. ImageSoFar
      BY DEF PanelInv
<1>F. FilesSoFar
      BY DEF PanelInv
<1> USE DEF GGoes, GFails
<1>1. CASE Generated
  <2>1. FieldTypes'
        BY <1>1, <1>T DEF Generated, FieldTypes
  <2>2. gat = "spec" /\ UNCHANGED <<gcmd, gspec, gstep, gimg, gfiles, grun>>
        BY <1>1 DEF Generated
  <2>3. gat' \in {"open", "build"} => Valid(gspec) /\ ~Panics(gspec)
        BY <1>1 DEF Generated
  <2>4. gat' \in {"open", "build", "panic", "failed"} /\ (gat' = "open" => gcmd # "gen")
        BY <1>1 DEF Generated
  <2>5. HasPieces(gspec, gimg, 0) /\ Done(gstep) = 0 /\ gimg = <<>> /\ gstep = 0
        BY <1>M, <2>2, ZerosFirst DEF ImageSoFar, Done
  <2>6. ImageSoFar'
        BY <2>2, <2>3, <2>4, <2>5 DEF ImageSoFar
  <2>7. FilesSoFar'
        BY <1>F, <2>2, <2>4 DEF FilesSoFar
  <2> QED BY <2>1, <2>6, <2>7 DEF PanelInv
<1>2. CASE SendChip
  <2>1. FieldTypes'
        BY <1>2, <1>T DEF SendChip, FieldTypes, HasRegisters
  <2>2. gat = "open" /\ gat' \in {"ok", "build", "failed"} /\ UNCHANGED <<gcmd, gspec, gstep, gimg, gfiles, grun>>
        BY <1>2 DEF SendChip
  <2>3. HasPieces(gspec, gimg, 0) /\ Done(gstep) = 0 /\ gimg = <<>> /\ gstep = 0
        BY <1>M, <2>2, ZerosFirst DEF ImageSoFar, Done
  <2>4. ImageSoFar'
        BY <1>M, <2>2, <2>3 DEF ImageSoFar
  <2>5. gcmd # "gen" /\ \A f \in Outputs : gfiles[f] < grun
        BY <1>M, <1>F, <2>2 DEF ImageSoFar, FilesSoFar
  <2>6. FilesSoFar'
        BY <1>T, <2>2, <2>5 DEF FilesSoFar, FieldTypes, Outputs
  <2> QED BY <2>1, <2>4, <2>6 DEF PanelInv
<1>3. CASE Build
  <2>1. /\ gat = "build" /\ gat' = "build" /\ gstep' = gstep + 1 /\ gstep \in 0 .. 7
        /\ gimg' = gimg \o Placements(gspec, Steps[gstep + 1])
        /\ ~StepPanics(gspec, Steps[gstep + 1])
        /\ UNCHANGED <<gcmd, gspec, gsent, gchip, gfiles, grun>>
        BY <1>3, <1>T, EightSteps DEF Build, FieldTypes
  <2>2. FieldTypes'
        BY <1>T, <2>1, EightSteps DEF FieldTypes
  <2>3. HasPieces(gspec, gimg, Done(gstep)) /\ gspec.width # 0 /\ Valid(gspec) /\ ~Panics(gspec)
        BY <1>M, <2>1 DEF ImageSoFar, Panics
  <2>4. HasPieces(gspec, gimg', Done(gstep + 1))
        BY <2>1, <2>3, CallPlaces
  <2>5. Done(gstep + 1) \in 0 .. 15
        BY <2>1 DEF Done
  <2>6. ImageSoFar'
        BY <2>1, <2>3, <2>4, <2>5 DEF ImageSoFar
  <2>7. FilesSoFar'
        BY <1>F, <2>1 DEF FilesSoFar
  <2> QED BY <2>2, <2>6, <2>7 DEF PanelInv
<1>4. CASE BuildFails
  <2>1. /\ gat = "build" /\ gat' = (IF gcmd = "gen" THEN "write" ELSE "failed") /\ gimg' = <<>>
        /\ UNCHANGED <<gcmd, gspec, gstep, gsent, gchip, gfiles, grun>>
        BY <1>4 DEF BuildFails
  <2>2. FieldTypes'
        BY <1>T, <2>1 DEF FieldTypes
  <2>3. ImageSoFar'
        BY <2>1, ZerosFirst DEF ImageSoFar
  <2>4. FilesSoFar'
        BY <1>T, <1>F, <2>1 DEF FilesSoFar, FieldTypes, Outputs
  <2> QED BY <2>2, <2>3, <2>4 DEF PanelInv
<1>5. CASE BuildPanics
  <2>1. gat' = "panic" /\ UNCHANGED <<gcmd, gspec, gstep, gimg, gsent, gchip, gfiles, grun>>
        BY <1>5 DEF BuildPanics
  <2>2. FieldTypes'
        BY <1>T, <2>1 DEF FieldTypes
  <2>3. ImageSoFar'
        BY <1>M, <2>1 DEF ImageSoFar
  <2>4. FilesSoFar'
        BY <2>1 DEF FilesSoFar
  <2> QED BY <2>2, <2>3, <2>4 DEF PanelInv
<1>6. CASE Compile
  <2>1. /\ gat = "build" /\ gat' = "write" /\ gcmd = "gen" /\ gstep = 8
        /\ UNCHANGED <<gcmd, gspec, gstep, gsent, gchip, gfiles, grun>>
        BY <1>6, EightSteps DEF Compile
  <2>2. FieldTypes'
        BY <1>T, <2>1 DEF FieldTypes
  <2>3. HasPieces(gspec, gimg, 13)
        BY <1>M, <2>1 DEF ImageSoFar, Done
  <2>4. HasPieces(gspec, gimg', 15)
        BY <1>6, <2>3, CompilePlaces DEF Compile
  <2>5. ImageSoFar'
        BY <2>1, <2>4 DEF ImageSoFar
  <2>6. FilesSoFar'
        BY <1>T, <1>F, <2>1 DEF FilesSoFar, FieldTypes, Outputs
  <2> QED BY <2>2, <2>5, <2>6 DEF PanelInv
<1>7. CASE WriteOutput
  <2>1. PICK f \in Outputs : /\ f = "block7" => gimg # <<>>
                             /\ gfiles' = [gfiles EXCEPT ![f] = grun]
        BY <1>7 DEF WriteOutput
  <2>2. gat = "write" /\ gat' = "write" /\ UNCHANGED <<gcmd, gspec, gstep, gimg, gsent, gchip, grun>>
        BY <1>7 DEF WriteOutput
  <2>3. grun \in 0 .. grun /\ "block7" \in Outputs
        BY <1>T DEF FieldTypes, Outputs
  <2>4. FieldTypes'
        BY <1>T, <2>1, <2>2, <2>3 DEF FieldTypes
  <2>5. ImageSoFar'
        BY <1>M, <2>2 DEF ImageSoFar
  <2>6. gfiles' ["block7"] = grun => gimg # <<>>
        BY <1>T, <1>F, <2>1, <2>2, <2>3 DEF FilesSoFar, FieldTypes
  <2>7. FilesSoFar'
        BY <2>2, <2>6 DEF FilesSoFar
  <2> QED BY <2>4, <2>5, <2>7 DEF PanelInv
<1>8. CASE WritesEnd
  <2>1. /\ gat = "write" /\ gat' \in {"ok", "failed"}
        /\ gat' = "ok" => \A f \in Outputs : gfiles[f] = grun
        /\ UNCHANGED <<gcmd, gspec, gstep, gimg, gsent, gchip, gfiles, grun>>
    <3>1. "block7" \in Outputs
          BY DEF Outputs
    <3> QED BY <1>8, <3>1 DEF WritesEnd
  <2>2. FieldTypes'
        BY <1>T, <2>1 DEF FieldTypes
  <2>3. ImageSoFar'
        BY <1>M, <2>1 DEF ImageSoFar
  <2>4. FilesSoFar'
        BY <1>F, <2>1 DEF FilesSoFar
  <2> QED BY <2>2, <2>3, <2>4 DEF PanelInv
<1>9. CASE SendPack
  <2>1. /\ gat = "build" /\ gat' \in {"build", "ok", "failed"} /\ gcmd = "push" /\ gstep = 8
        /\ gsent' \in {gsent, gsent + 1} /\ (gsent' = gsent + 1 => gsent < Len(Packs))
        /\ UNCHANGED <<gcmd, gspec, gstep, gimg, gchip, gfiles, grun>>
        BY <1>9, EightSteps DEF SendPack
  <2>2. Len(Packs) \in Nat
    <3>1. Packs \in Seq([from : Int, to : Int])
          BY DEF Packs, Pack, Offset
    <3> QED BY <3>1
  <2>3. FieldTypes'
        BY <1>T, <2>1, <2>2 DEF FieldTypes
  <2>4. HasPieces(gspec, gimg, Done(gstep)) /\ Done(gstep) = 13
        BY <1>M, <2>1 DEF ImageSoFar, Done
  <2>5. ImageSoFar'
        BY <1>M, <2>1, <2>4 DEF ImageSoFar
  <2>6. FilesSoFar'
        BY <1>T, <1>F, <2>1 DEF FilesSoFar, FieldTypes, Outputs
  <2> QED BY <2>3, <2>5, <2>6 DEF PanelInv
<1>10. CASE GenerateAgain
  <2>1. /\ gat' = "spec" /\ gspec' \in Specs /\ gstep' = 0 /\ gimg' = <<>> /\ grun' = grun + 1
        /\ grun < MaxGens /\ UNCHANGED <<gcmd, gsent, gchip, gfiles>>
        BY <1>10 DEF GenerateAgain
  <2>2. \A f \in Outputs : gfiles[f] \in 0 .. grun' /\ gfiles[f] < grun'
        BY <1>T, <2>1 DEF FieldTypes
  <2>3. FieldTypes'
        BY <1>T, <2>1, <2>2, MaxGensAssumption, EightSteps DEF FieldTypes
  <2>4. ImageSoFar'
        BY <2>1, ZerosFirst DEF ImageSoFar
  <2>5. FilesSoFar'
        BY <2>1, <2>2 DEF FilesSoFar
  <2> QED BY <2>3, <2>4, <2>5 DEF PanelInv
<1>11. CASE UNCHANGED gvars
  <2>1. FieldTypes'
        BY <1>T, <1>11 DEF FieldTypes, gvars
  <2>2. ImageSoFar'
        BY <1>M, <1>11 DEF ImageSoFar, gvars
  <2>3. FilesSoFar'
        BY <1>F, <1>11 DEF FilesSoFar, gvars
  <2> QED BY <2>1, <2>2, <2>3 DEF PanelInv
<1> QED BY <1>1, <1>2, <1>3, <1>4, <1>5, <1>6, <1>7, <1>8, <1>9, <1>10, <1>11 DEF GNext

-----------------------------------------------------------------------------
(* What the pieces are, and where.                                          *)
LEMMA SpecNumbers ==
  ASSUME NEW s \in Specs
  PROVE  /\ s.width \in Nat /\ s.width < 65536   /\ s.height \in Nat /\ s.height < 65536
         /\ s.sw \in Nat /\ s.sw < 65536         /\ s.sh \in Nat /\ s.sh < 65536
         /\ s.block \in Nat /\ s.block < 65536
         /\ s.scan \in Nat /\ s.scan < 256       /\ s.line_dir \in Nat /\ s.line_dir < 256
BY PanelAssumption DEF PanelSpec, FitsIn

\* A number of seventeen bits in sixteen.
LEMMA U16Is ==
  ASSUME NEW n \in Nat, n < 131072
  PROVE  U16(n) = IF n < 65536 THEN n ELSE n - 65536
BY DEF U16

\* Columns that do not panic lie in the image, after their offset.
LEMMA ColumnsInside ==
  ASSUME NEW s \in Specs, ~ColumnsPanic(s), s.gate_phantom, s.width # 0
  PROVE  LET p == Laid(s, 11) IN
         /\ p.by = "columns" /\ p.from \in Nat /\ p.to \in Nat
         /\ p.from < p.to /\ p.to <= 65536 /\ p.from >= 5120 + s.sw
         /\ Real(s) + s.width <= 1024 => p.from >= 4096 /\ p.to <= 6144
<1> DEFINE real == Real(s)
           end == real + s.width
           wrapped == U16(end)
           p == Laid(s, 11)
<1>1. real = IF s.sw >= s.width THEN s.sw ELSE s.width
      BY SpecNumbers, MaxOfTwo DEF Real
<1>0. Laid(s, 11) = PhantomColumns(s) /\ Offset.columns = 5120
  <2>1. Laid(s, 11) = PhantomColumns(s)
        BY Ranges
  <2>2. Offset.columns = 5120
        BY DEF Offset
  <2> QED BY <2>1, <2>2
<1>2. p.by = "columns" /\ p.from = 5120 + real /\ p.to = 5120 + wrapped
      BY <1>0 DEF PhantomColumns, Piece
<1>3. p.from <= p.to /\ p.to <= 65536
  <2>1. real \in Int /\ U16(end) \in Int
        BY <1>1, SpecNumbers DEF U16
  <2> QED BY <1>0, <1>2, <2>1 DEF ColumnsPanic
<1> HIDE DEF real
<1>4. real \in Nat /\ real < 65536 /\ real >= s.sw /\ s.sw \in Nat /\ s.width \in Nat /\ s.width >= 1 /\ s.width < 65536
      BY <1>1, SpecNumbers
<1>5. end \in Nat /\ end < 131072
      BY <1>4, SpecNumbers
<1>6. end = real + s.width
      OBVIOUS
<1> HIDE DEF end
<1>7. wrapped = IF end < 65536 THEN end ELSE end - 65536
      BY <1>5, U16Is
<1> HIDE DEF wrapped, p
<1>8. p.from \in Nat /\ p.to \in Nat /\ p.from >= 5120 + s.sw
      BY <1>2, <1>4, <1>5, <1>7
<1>9. wrapped = end
      BY <1>2, <1>3, <1>4, <1>5, <1>6, <1>7
<1>10. p.from < p.to
      BY <1>2, <1>4, <1>6, <1>9
<1>11. end <= 1024 => p.from >= 4096 /\ p.to <= 6144
      BY <1>2, <1>4, <1>5, <1>9
<1> QED BY <1>2, <1>3, <1>8, <1>10, <1>11 DEF p, end, real

\* A piece of an image is one of the spec's, in its place.
LEMMA PieceIs ==
  ASSUME NEW s \in Specs, NEW image, NEW top, HasPieces(s, image, top), NEW i \in DOMAIN image
  PROVE  \E r \in 1 .. top : /\ image[i] = Laid(s, r) /\ Present(s, r) /\ r \in Ranks
                             /\ r # 11 => Laid(s, r).by # "columns"
                             /\ Laid(s, r).from \in Nat /\ Laid(s, r).to \in Nat
                             /\ Laid(s, r).from < Laid(s, r).to /\ Laid(s, r).to <= 65536
<1>1. PICK r \in 1 .. top : image[i] = Laid(s, r) /\ Present(s, r)
      BY DEF HasPieces, PiecesTo
<1>2. top \in 0 .. 15 /\ r \in Ranks
      BY DEF HasPieces, Ranks
<1>3. CASE r = 11
  <2>1. s.gate_phantom /\ ~ColumnsPanic(s) /\ s.width # 0
        BY <1>1, <1>2, <1>3 DEF Present, HasPieces
  <2> QED BY <1>1, <1>2, <1>3, <2>1, ColumnsInside
<1>4. CASE r # 11
  <2>1. /\ Laid(s, r).by # "columns"
        /\ Laid(s, r).from \in Nat /\ Laid(s, r).to \in Nat
        /\ Laid(s, r).from < Laid(s, r).to /\ Laid(s, r).to <= 65536
        BY <1>2, <1>4, Ranges DEF Ranks, Piece
  <2> QED BY <1>1, <1>2, <2>1
<1> QED BY <1>3, <1>4

\* The byte's holder is the last piece it is in.
LEMMA HolderIs ==
  ASSUME NEW s \in Specs, NEW image, NEW top, HasPieces(s, image, top), NEW x,
         NEW k \in DOMAIN image, image[k].from <= x, x < image[k].to
  PROVE  \E i \in DOMAIN image : /\ Holder(image, x) = image[i].by
                                 /\ image[i].from <= x /\ x < image[i].to /\ k <= i
<1> DEFINE on == {i \in DOMAIN image : image[i].from <= x /\ x < image[i].to}
<1>1. Len(image) \in Nat /\ DOMAIN image = 1 .. Len(image)
      BY DEF HasPieces
<1>2. on \subseteq 0 .. Len(image) /\ k \in on
      BY <1>1
<1>3. Max(on) \in on /\ \A y \in on : Max(on) >= y
      BY <1>1, <1>2, GreatestBounded
<1>4. Holder(image, x) = image[Max(on)].by
      BY <1>2 DEF Holder
<1> QED BY <1>1, <1>2, <1>3, <1>4

\* What holds a byte is one of the pieces.
LEMMA HeldByAPiece ==
  ASSUME NEW s \in Specs, NEW image, NEW top, HasPieces(s, image, top), NEW x,
         Holder(image, x) # Unset
  PROVE  \E i \in DOMAIN image : Holder(image, x) = image[i].by /\ image[i].from <= x /\ x < image[i].to
<1>1. PICK k \in DOMAIN image : image[k].from <= x /\ x < image[k].to
      BY DEF Holder
<1> QED BY <1>1, HolderIs

\* The types follow.
LEMMA GTypesFollow == PanelInv => GTypeOK
<1> SUFFICES ASSUME PanelInv PROVE GTypeOK
    OBVIOUS
<1>1. gspec \in Specs
      BY DEF PanelInv, FieldTypes
<1>2. PICK top \in 0 .. 15 : HasPieces(gspec, gimg, top)
      BY DEF PanelInv, ImageSoFar
<1>3. \A i \in DOMAIN gimg : gimg[i].from < gimg[i].to /\ gimg[i].to <= 65536
      BY <1>1, <1>2, PieceIs
<1> QED BY <1>3 DEF PanelInv, FieldTypes, GTypeOK

-----------------------------------------------------------------------------
(* The packs.                                                               *)
\* A pack is a slice of a piece that every image has, and that is not only the
\* boot image's.
InPiece(p) ==
  /\ p.from \in Nat /\ p.to \in Nat /\ p.from < p.to
  /\ \E r \in Ranks \ {11, 14, 15} : \A s \in Specs : Laid(s, r).from <= p.from /\ p.to <= Laid(s, r).to

LaidAt(r, lo, hi) ==
  r \in Ranks \ {11, 14, 15} /\ \A s \in Specs : Laid(s, r).from = lo /\ Laid(s, r).to = hi

Slice(r, lo, hi, from, len) ==
  /\ LaidAt(r, lo, hi)
  /\ from \in Nat /\ len \in Nat \ {0} /\ lo <= from /\ from + len <= hi

\* A slice inside a region is in its piece.
LEMMA SlicesOf ==
  ASSUME NEW r, NEW lo, NEW hi, NEW from, NEW len, Slice(r, lo, hi, from, len)
  PROVE  InPiece(Pack(from, len))
<1>1. from \in Nat /\ len \in Nat \ {0} /\ from + len \in Nat /\ from < from + len
      BY DEF Slice
<1>2. Pack(from, len).from = from /\ Pack(from, len).to = from + len
      BY DEF Pack
<1>3. /\ r \in Ranks \ {11, 14, 15}
      /\ \A s \in Specs : Laid(s, r).from <= from /\ from + len <= Laid(s, r).to
      BY DEF Slice, LaidAt
<1> QED BY <1>1, <1>2, <1>3 DEF InPiece

\* Every pack is a slice of one piece.
LEMMA PacksAreSlices == \A k \in DOMAIN Packs : InPiece(Packs[k])
<1> DEFINE Slices == {p \in [from : Nat, to : Nat] : InPiece(p)}
           a == <<Pack(Offset.swap, 256), Pack(Offset.pack, 256), Pack(\h0100, \h400), Pack(Offset.tiles, 768)>>
           b == [k \in 1 .. 16 |-> Pack(Offset.map + (k - 1) * 768, 768)]
           c == [k \in 1 .. 4 |-> Pack(IF k <= 2 THEN Offset.void + (k - 1) * \h400 ELSE \h6800 + (k - 3) * \h400, \h400)]
           d == [k \in 1 .. 8 |-> Pack(IF k <= 4 THEN Offset.anti + (k - 1) * \h400 ELSE \h7000 + (k - 5) * \h400, \h400)]
           e == <<Pack(Offset.scan, \h400)>>
<1>1. ASSUME NEW from \in Nat, NEW len \in Nat, InPiece(Pack(from, len))
      PROVE  Pack(from, len) \in Slices
      BY <1>1 DEF Pack
<1>2. \A s \in Specs :
        /\ Laid(s, 7).from = 0 /\ Laid(s, 7).to = 256 /\ Laid(s, 8).from = 1280 /\ Laid(s, 8).to = 1536
        /\ Laid(s, 1).from = 256 /\ Laid(s, 1).to = 1280 /\ Laid(s, 9).from = 1536 /\ Laid(s, 9).to = 2304
        /\ Laid(s, 12).from = 12288 /\ Laid(s, 12).to = 24576 /\ Laid(s, 4).from = 4096 /\ Laid(s, 4).to = 6144
        /\ Laid(s, 5).from = 26624 /\ Laid(s, 5).to = 28672 /\ Laid(s, 10).from = 6144 /\ Laid(s, 10).to = 10240
        /\ Laid(s, 6).from = 28672 /\ Laid(s, 6).to = 32768 /\ Laid(s, 13).from = 24576 /\ Laid(s, 13).to = 25600
      BY Ranges DEF Piece
<1>3. /\ Offset.swap = 1280 /\ Offset.pack = 0 /\ Offset.tiles = 1536 /\ Offset.map = 12288
      /\ Offset.void = 4096 /\ Offset.anti = 6144 /\ Offset.scan = 24576
      BY DEF Offset
<1>4. /\ LaidAt(7, 0, 256) /\ LaidAt(8, 1280, 1536) /\ LaidAt(1, 256, 1280) /\ LaidAt(9, 1536, 2304)
      /\ LaidAt(12, 12288, 24576) /\ LaidAt(4, 4096, 6144) /\ LaidAt(5, 26624, 28672)
      /\ LaidAt(10, 6144, 10240) /\ LaidAt(6, 28672, 32768) /\ LaidAt(13, 24576, 25600)
  <2>1. {1, 4, 5, 6, 7, 8, 9, 10, 12, 13} \subseteq Ranks \ {11, 14, 15}
        BY DEF Ranks
  <2> QED BY <1>2, <2>1 DEF LaidAt
<1> HIDE DEF Slices
<1>5. a \in Seq(Slices)
  <2>1. InPiece(Pack(1280, 256))
    <3>1. Slice(8, 1280, 1536, 1280, 256)
          BY <1>4 DEF Slice
    <3> QED BY <3>1, SlicesOf
  <2>2. InPiece(Pack(0, 256))
    <3>1. Slice(7, 0, 256, 0, 256)
          BY <1>4 DEF Slice
    <3> QED BY <3>1, SlicesOf
  <2>3. InPiece(Pack(256, 1024))
    <3>1. Slice(1, 256, 1280, 256, 1024)
          BY <1>4 DEF Slice
    <3> QED BY <3>1, SlicesOf
  <2>4. InPiece(Pack(1536, 768))
    <3>1. Slice(9, 1536, 2304, 1536, 768)
          BY <1>4 DEF Slice
    <3> QED BY <3>1, SlicesOf
  <2>5. /\ Pack(1280, 256) \in Slices /\ Pack(0, 256) \in Slices
        /\ Pack(256, 1024) \in Slices /\ Pack(1536, 768) \in Slices
        BY <1>1, <2>1, <2>2, <2>3, <2>4
  <2> QED BY <1>3, <2>5
<1>6. b \in Seq(Slices)
  <2>1. ASSUME NEW k \in 1 .. 16 PROVE Pack(12288 + (k - 1) * 768, 768) \in Slices
    <3>1. /\ 12288 + (k - 1) * 768 \in Nat /\ 12288 <= 12288 + (k - 1) * 768
          /\ 12288 + (k - 1) * 768 + 768 <= 24576
          OBVIOUS
    <3>2. Slice(12, 12288, 24576, 12288 + (k - 1) * 768, 768)
          BY <1>4, <3>1 DEF Slice
    <3>3. InPiece(Pack(12288 + (k - 1) * 768, 768))
          BY <3>2, SlicesOf
    <3> QED BY <1>1, <3>1, <3>3
  <2> QED BY <1>3, <2>1
<1>7. c \in Seq(Slices)
  <2>1. ASSUME NEW k \in 1 .. 2 PROVE Pack(4096 + (k - 1) * 1024, 1024) \in Slices
    <3>1. /\ 4096 + (k - 1) * 1024 \in Nat /\ 4096 <= 4096 + (k - 1) * 1024
          /\ 4096 + (k - 1) * 1024 + 1024 <= 6144
          OBVIOUS
    <3>2. Slice(4, 4096, 6144, 4096 + (k - 1) * 1024, 1024)
          BY <1>4, <3>1 DEF Slice
    <3>3. InPiece(Pack(4096 + (k - 1) * 1024, 1024))
          BY <3>2, SlicesOf
    <3> QED BY <1>1, <3>1, <3>3
  <2>2. ASSUME NEW k \in 3 .. 4 PROVE Pack(26624 + (k - 3) * 1024, 1024) \in Slices
    <3>1. /\ 26624 + (k - 3) * 1024 \in Nat /\ 26624 <= 26624 + (k - 3) * 1024
          /\ 26624 + (k - 3) * 1024 + 1024 <= 28672
          OBVIOUS
    <3>2. Slice(5, 26624, 28672, 26624 + (k - 3) * 1024, 1024)
          BY <1>4, <3>1 DEF Slice
    <3>3. InPiece(Pack(26624 + (k - 3) * 1024, 1024))
          BY <3>2, SlicesOf
    <3> QED BY <1>1, <3>1, <3>3
  <2> QED BY <1>3, <2>1, <2>2
<1>8. d \in Seq(Slices)
  <2>1. ASSUME NEW k \in 1 .. 4 PROVE Pack(6144 + (k - 1) * 1024, 1024) \in Slices
    <3>1. /\ 6144 + (k - 1) * 1024 \in Nat /\ 6144 <= 6144 + (k - 1) * 1024
          /\ 6144 + (k - 1) * 1024 + 1024 <= 10240
          OBVIOUS
    <3>2. Slice(10, 6144, 10240, 6144 + (k - 1) * 1024, 1024)
          BY <1>4, <3>1 DEF Slice
    <3>3. InPiece(Pack(6144 + (k - 1) * 1024, 1024))
          BY <3>2, SlicesOf
    <3> QED BY <1>1, <3>1, <3>3
  <2>2. ASSUME NEW k \in 5 .. 8 PROVE Pack(28672 + (k - 5) * 1024, 1024) \in Slices
    <3>1. /\ 28672 + (k - 5) * 1024 \in Nat /\ 28672 <= 28672 + (k - 5) * 1024
          /\ 28672 + (k - 5) * 1024 + 1024 <= 32768
          OBVIOUS
    <3>2. Slice(6, 28672, 32768, 28672 + (k - 5) * 1024, 1024)
          BY <1>4, <3>1 DEF Slice
    <3>3. InPiece(Pack(28672 + (k - 5) * 1024, 1024))
          BY <3>2, SlicesOf
    <3> QED BY <1>1, <3>1, <3>3
  <2> QED BY <1>3, <2>1, <2>2
<1>9. e \in Seq(Slices)
  <2>1. InPiece(Pack(24576, 1024))
    <3>1. Slice(13, 24576, 25600, 24576, 1024)
          BY <1>4 DEF Slice
    <3> QED BY <3>1, SlicesOf
  <2> QED BY <1>1, <1>3, <2>1
<1>10. Packs = a \o b \o c \o d \o e
      BY DEF Packs
<1> HIDE DEF a, b, c, d, e
<1>11. a \o b \o c \o d \o e \in Seq(Slices)
      BY <1>5, <1>6, <1>7, <1>8, <1>9
<1>12. \A p \in Slices : InPiece(p)
      BY DEF Slices
<1> QED BY <1>10, <1>11, <1>12, SMTT(30)


-----------------------------------------------------------------------------
(* What the card gets.                                                      *)
\* In an image that is built, the columns alone are over another piece.
LEMMA PiecesShareNothing ==
  ASSUME NEW s \in Specs, NEW image, NEW top \in {13, 15}, HasPieces(s, image, top),
         NEW i \in DOMAIN image, NEW j \in DOMAIN image, i < j,
         image[i].from < image[j].to, image[j].from < image[i].to
  PROVE  \/ image[i].by = "zeros" /\ image[j].by = "columns"
         \/ "columns" \in {image[i].by, image[j].by} /\ Real(s) + s.width > \h400
<1>1. PICK r \in 1 .. top : /\ image[i] = Laid(s, r) /\ Present(s, r) /\ r \in Ranks
                            /\ Laid(s, r).from \in Nat /\ Laid(s, r).to \in Nat
      BY PieceIs
<1>2. PICK q \in 1 .. top : /\ image[j] = Laid(s, q) /\ Present(s, q) /\ q \in Ranks
                            /\ Laid(s, q).from \in Nat /\ Laid(s, q).to \in Nat
      BY PieceIs
<1>3. r < q
      BY <1>1, <1>2 DEF HasPieces
<1>4. r = 11 \/ q = 11
  <2>1. SUFFICES ASSUME r # 11, q # 11 PROVE FALSE
        OBVIOUS
  <2>2. Laid(s, r).to <= Laid(s, q).from \/ Laid(s, q).to <= Laid(s, r).from
        BY <1>1, <1>2, <1>3, <2>1, PiecesApart
  <2> QED BY <1>1, <1>2, <2>2
<1>5. s.gate_phantom /\ ~ColumnsPanic(s) /\ s.width # 0
      BY <1>1, <1>2, <1>4 DEF Present, HasPieces
<1>6. "columns" \in {image[i].by, image[j].by}
      BY <1>1, <1>2, <1>4, <1>5, ColumnsInside
<1>7. Real(s) + s.width <= 1024 => r = 4 /\ q = 11
  <2>1. SUFFICES ASSUME Real(s) + s.width <= 1024 PROVE r = 4 /\ q = 11
        OBVIOUS
  <2>2. /\ Laid(s, 11).from \in Nat /\ Laid(s, 11).to \in Nat
        /\ Laid(s, 11).from >= 4096 /\ Laid(s, 11).to <= 6144
        BY <1>5, <2>1, ColumnsInside
  <2>3. Laid(s, 4).from = 4096 /\ Laid(s, 4).to = 6144
        BY Ranges DEF Piece
  <2>4. ASSUME NEW o \in Ranks \ {4, 11}
        PROVE  Laid(s, o).to <= 4096 \/ 6144 <= Laid(s, o).from
    <3>1. 4 \in Ranks \ {11} /\ o \in Ranks \ {11} /\ o # 4
          BY DEF Ranks
    <3> QED BY <2>3, <3>1, PiecesApart
  <2>5. CASE q = 11
    <3>1. r # 11 /\ (r # 4 => Laid(s, r).to <= 4096 \/ 6144 <= Laid(s, r).from)
          BY <1>1, <1>3, <2>4, <2>5
    <3> QED BY <1>1, <1>2, <2>2, <2>5, <3>1
  <2>6. CASE r = 11
    <3>1. q # 11 /\ q # 4 /\ (Laid(s, q).to <= 4096 \/ 6144 <= Laid(s, q).from)
          BY <1>2, <1>3, <2>4, <2>6
    <3> QED BY <1>1, <1>2, <2>2, <2>6, <3>1
  <2> QED BY <1>4, <2>5, <2>6
<1>8. Laid(s, 4).by = "zeros" /\ Laid(s, 11).by = "columns"
      BY LaidNames
<1>9. Real(s) \in Int /\ s.width \in Int
  <2>1. Real(s) = IF s.sw >= s.width THEN s.sw ELSE s.width
        BY SpecNumbers, MaxOfTwo DEF Real
  <2> QED BY <2>1, SpecNumbers
<1> HIDE DEF Laid, Real
<1> QED BY <1>1, <1>2, <1>6, <1>7, <1>8, <1>9

\* A byte that the columns hold is of a position past the screen.
LEMMA ColumnsPastTheScreen ==
  ASSUME NEW s \in Specs, NEW image, NEW top \in {13, 15}, HasPieces(s, image, top),
         NEW x \in Edges(image), Holder(image, x) = "columns"
  PROVE  x - Offset.columns >= s.sw
<1>1. x \in Nat
  <2>1. PICK i \in DOMAIN image : x \in {image[i].from, image[i].to}
        BY DEF Edges
  <2> QED BY <2>1, PieceIs
<1>2. Holder(image, x) # Unset
      BY DEF Unset
<1>3. PICK i \in DOMAIN image : image[i].by = "columns" /\ image[i].from <= x
      BY <1>2, HeldByAPiece
<1>4. PICK r \in 1 .. top : /\ image[i] = Laid(s, r) /\ Present(s, r)
                            /\ r # 11 => Laid(s, r).by # "columns"
      BY PieceIs
<1>5. r = 11
      BY <1>3, <1>4
<1>6. s.gate_phantom /\ ~ColumnsPanic(s) /\ s.width # 0
      BY <1>4, <1>5 DEF Present, HasPieces
<1>7. Laid(s, 11).from \in Nat /\ Laid(s, 11).from >= 5120 + s.sw
      BY <1>6, ColumnsInside
<1>8. Offset.columns = 5120 /\ s.sw \in Nat
      BY SpecNumbers DEF Offset
<1> HIDE DEF Laid
<1> QED BY <1>1, <1>3, <1>4, <1>5, <1>7, <1>8

\* A byte of a slice of a piece is held by that piece or by the columns.
LEMMA SliceIsHeld ==
  ASSUME NEW s \in Specs, NEW image, NEW top \in {13, 15}, HasPieces(s, image, top),
         NEW p, InPiece(p), NEW x \in Nat, p.from <= x, x < p.to
  PROVE  Holder(image, x) \notin {Unset, "chip", "rcvbp"}
<1>1. PICK r \in Ranks \ {11, 14, 15} : Laid(s, r).from <= p.from /\ p.to <= Laid(s, r).to
      BY DEF InPiece
<1>2. Present(s, r) /\ r \in 1 .. top
      BY <1>1 DEF Present, Ranks
<1>3. PICK k \in DOMAIN image : image[k] = Laid(s, r)
      BY <1>2 DEF HasPieces
<1>4. Laid(s, r).from \in Nat /\ Laid(s, r).to \in Nat /\ Laid(s, r).from <= x /\ x < Laid(s, r).to
  <2>1. Laid(s, r).from \in Nat /\ Laid(s, r).to \in Nat
        BY <1>1, Ranges DEF Ranks, Piece
  <2> QED BY <1>1, <2>1 DEF InPiece
<1>5. PICK i \in DOMAIN image : /\ Holder(image, x) = image[i].by
                                /\ image[i].from <= x /\ x < image[i].to
      BY <1>3, <1>4, HolderIs
<1>6. PICK q \in 1 .. top : /\ image[i] = Laid(s, q) /\ q \in Ranks
                            /\ Laid(s, q).from \in Nat /\ Laid(s, q).to \in Nat
      BY PieceIs
<1>7. q \in {r, 11}
  <2>1. SUFFICES ASSUME q # r, q # 11 PROVE FALSE
        OBVIOUS
  <2>2. Laid(s, r).to <= Laid(s, q).from \/ Laid(s, q).to <= Laid(s, r).from
        BY <1>1, <1>6, <2>1, PiecesApart
  <2> QED BY <1>4, <1>5, <1>6, <2>2
<1>8. \A o \in Ranks \ {14, 15} : Laid(s, o).by \notin {"erased", "chip", "rcvbp"}
  <2>1. /\ Laid(s, 1).by = "zeros"  /\ Laid(s, 2).by = "zeros"  /\ Laid(s, 3).by = "zeros"
        /\ Laid(s, 4).by = "zeros"  /\ Laid(s, 5).by = "zeros"  /\ Laid(s, 6).by = "zeros"
        /\ Laid(s, 7).by = "pack"  /\ Laid(s, 8).by = "swap"  /\ Laid(s, 9).by = "tiles"
        /\ Laid(s, 10).by = "anti"  /\ Laid(s, 11).by = "columns"  /\ Laid(s, 12).by = "map"
        /\ Laid(s, 13).by = "scan"
        BY LaidNames
  <2> HIDE DEF Laid
  <2> QED BY <2>1 DEF Ranks
<1>9. q \in Ranks \ {14, 15}
      BY <1>6, <1>7 DEF Ranks
<1> HIDE DEF Laid
<1> QED BY <1>5, <1>6, <1>8, <1>9 DEF Unset

\* So the property follows from the invariant.
LEMMA TheImageFollows == PanelInv => CardGetsTheImage
<1> SUFFICES ASSUME PanelInv PROVE CardGetsTheImage
    OBVIOUS
<1>1. gspec \in Specs
      BY DEF PanelInv, FieldTypes
<1>2. gat = "ok" /\ gcmd = "gen" => gimg # <<>> /\ \A f \in Outputs : gfiles[f] = grun
  <2>1. "block7" \in Outputs
        BY DEF Outputs
  <2> QED BY <2>1 DEF PanelInv, FilesSoFar
<1>3. ASSUME Made, gimg # <<>> PROVE \E top \in {13, 15} : HasPieces(gspec, gimg, top)
  <2>1. Done(8) = 13 /\ Len(Steps) = 8
        BY EightSteps DEF Done
  <2>2. CASE gat = "ok"
        BY <1>3, <2>2 DEF PanelInv, ImageSoFar
  <2>3. CASE gat = "build" /\ gstep = Len(Steps)
        BY <2>1, <2>3 DEF PanelInv, ImageSoFar
  <2> QED BY <1>3, <2>2, <2>3 DEF Made
<1>4. ASSUME NEW top \in {13, 15}, HasPieces(gspec, gimg, top),
             NEW k \in DOMAIN Packs,
             NEW x \in {Packs[k].from} \cup {e \in Edges(gimg) : Packs[k].from < e /\ e < Packs[k].to}
      PROVE  Holder(gimg, x) \notin {Unset, "chip", "rcvbp"}
  <2>1. InPiece(Packs[k])
        BY PacksAreSlices
  <2>2. Packs[k].from \in Nat /\ Packs[k].to \in Nat /\ Packs[k].from < Packs[k].to
        BY <2>1 DEF InPiece
  <2>3. x \in Nat
    <3>1. CASE x = Packs[k].from
          BY <2>2, <3>1
    <3>2. CASE x \in Edges(gimg)
      <4>1. PICK i \in DOMAIN gimg : x \in {gimg[i].from, gimg[i].to}
            BY <3>2 DEF Edges
      <4> QED BY <1>1, <1>4, <4>1, PieceIs
    <3> QED BY <3>1, <3>2
  <2>4. Packs[k].from <= x /\ x < Packs[k].to
        BY <2>2, <2>3
  <2> QED BY <1>1, <1>4, <2>1, <2>3, <2>4, SliceIsHeld
<1>5. ASSUME Made, gimg # <<>>, NEW i \in DOMAIN gimg, NEW j \in DOMAIN gimg,
             i < j, gimg[i].from < gimg[j].to, gimg[j].from < gimg[i].to
      PROVE  \/ gimg[i].by = "zeros" /\ gimg[j].by = "columns"
             \/ "columns" \in {gimg[i].by, gimg[j].by} /\ Real(gspec) + gspec.width > \h400
      BY <1>1, <1>3, <1>5, PiecesShareNothing
<1>6. ASSUME Made, gimg # <<>>, NEW x \in Edges(gimg), Holder(gimg, x) = "columns"
      PROVE  x - Offset.columns >= gspec.sw
      BY <1>1, <1>3, <1>6, ColumnsPastTheScreen
<1> QED BY <1>2, <1>3, <1>4, <1>5, <1>6 DEF CardGetsTheImage

-----------------------------------------------------------------------------
(* Division, and numbers of two digits of which the lower is under m.       *)
LEMMA DivMod ==
  ASSUME NEW a \in Nat, NEW m \in Nat \ {0}
  PROVE  /\ a \div m \in Nat /\ a % m \in 0 .. m - 1
         /\ a = m * (a \div m) + (a % m)
OBVIOUS

\* A product grows with its factors.
LEMMA Grows ==
  ASSUME NEW x \in Nat, NEW y \in Nat, NEW m \in Nat, x <= y
  PROVE  m * x \in Nat /\ m * y \in Nat /\ m * x <= m * y
OBVIOUS

\* A product of natural numbers is one, either way around.
LEMMA ProductNat ==
  ASSUME NEW x \in Nat, NEW y \in Nat
  PROVE  x * y \in Nat /\ x * y = y * x
OBVIOUS

\* One more is one m more.
LEMMA Spread ==
  ASSUME NEW x \in Nat, NEW m \in Nat
  PROVE  m * (x + 1) = m * x + m
OBVIOUS

\* A number has its two digits in one way.
LEMMA DigitsApart ==
  ASSUME NEW m \in Nat \ {0}, NEW a \in Nat, NEW c \in Nat, NEW b \in 0 .. m - 1, NEW d \in 0 .. m - 1,
         m * a + b = m * c + d
  PROVE  a = c /\ b = d
<1>1. ~(a < c)
  <2>1. SUFFICES ASSUME a + 1 <= c PROVE FALSE
        OBVIOUS
  <2>2. m * (a + 1) <= m * c /\ m * (a + 1) = m * a + m
        BY <2>1, Grows, Spread
  <2> QED BY <2>2
<1>2. ~(c < a)
  <2>1. SUFFICES ASSUME c + 1 <= a PROVE FALSE
        OBVIOUS
  <2>2. m * (c + 1) <= m * a /\ m * (c + 1) = m * c + m
        BY <2>1, Grows, Spread
  <2> QED BY <2>2
<1> QED BY <1>1, <1>2

\* The higher digit of a number under m * n.
LEMMA DivBound ==
  ASSUME NEW m \in Nat \ {0}, NEW n \in Nat, NEW a \in Nat, a < m * n
  PROVE  a \div m \in 0 .. n - 1
<1>1. /\ a \div m \in Nat /\ a = m * (a \div m) + (a % m) /\ a % m >= 0
      BY DivMod
<1>2. ~(n <= a \div m)
  <2>1. SUFFICES ASSUME n <= a \div m PROVE FALSE
        OBVIOUS
  <2>2. m * n <= m * (a \div m) /\ m * (a \div m) \in Nat
        BY <1>1, <2>1, Grows
  <2> QED BY <1>1, <2>2
<1> QED BY <1>1, <1>2

\* And back.
LEMMA DigitsBound ==
  ASSUME NEW m \in Nat \ {0}, NEW n \in Nat, NEW a \in 0 .. n - 1, NEW b \in 0 .. m - 1
  PROVE  m * a + b \in Nat /\ m * a + b < m * n
<1>1. m * (a + 1) <= m * n /\ m * (a + 1) = m * a + m /\ m * a \in Nat
      BY Grows, Spread, SMTT(30)
<1> QED BY <1>1

\* What the checks of a spec say of its numbers.
LEMMA SpecShape ==
  ASSUME NEW s \in Specs, Valid(s), s.width # 0
  PROVE  /\ s.width \in 1 .. 255 /\ StoredHeight(s) \in 1 .. 255 /\ s.height = 2 * StoredHeight(s)
         /\ s.scan \in Nat \ {0} /\ Groups(s) \in Nat \ {0} /\ StoredHeight(s) = s.scan * Groups(s)
         /\ RunOf(s) \in 1 .. s.width
<1>1. /\ s.width \in 1 .. 255 /\ StoredHeight(s) <= 255 /\ s.scan \in 1 .. s.height /\ s.height \in Nat
      /\ s.height % 2 = 0 /\ StoredHeight(s) % s.scan = 0 /\ StoredHeight(s) = s.height \div 2
  <2>1. s.width \in Nat /\ s.height \in Nat /\ s.scan \in Nat
        BY SpecNumbers
  <2>2. s.width <= 255 /\ StoredHeight(s) <= 255 /\ s.scan \in 1 .. s.height
        BY DEF Valid
  <2>3. s.height % 2 = 0 /\ StoredHeight(s) % s.scan = 0
        BY <2>1, <2>2 DEF Valid, Divides
  <2> QED BY <2>1, <2>2, <2>3 DEF StoredHeight
<1>2. s.height = 2 * StoredHeight(s) /\ StoredHeight(s) \in Nat
      BY <1>1
<1>3. StoredHeight(s) >= 1
      BY <1>1, <1>2
<1>4. /\ Groups(s) \in Nat
      /\ StoredHeight(s) = s.scan * Groups(s) + (StoredHeight(s) % s.scan)
  <2>1. s.scan \in Nat \ {0}
        BY <1>1
  <2> QED BY <1>2, <2>1, DivMod DEF Groups
<1>5. StoredHeight(s) = s.scan * Groups(s)
      BY <1>1, <1>4
<1>6. Groups(s) # 0
      BY <1>1, <1>3, <1>5
<1>7. RunOf(s) \in 1 .. s.width
  <2>1. CASE s.block = 0
        BY <1>1, <2>1 DEF RunOf
  <2>2. CASE s.block # 0
    <3>1. s.block \in Nat /\ s.width \in Nat
          BY SpecNumbers
    <3>2. RunOf(s) = IF s.block <= s.width THEN s.block ELSE s.width
          BY <2>2, <3>1, MinOfTwo DEF RunOf
    <3> QED BY <1>1, <2>2, <3>1, <3>2
  <2> QED BY <2>1, <2>2
<1>8. StoredHeight(s) \in 1 .. 255 /\ s.scan \in Nat \ {0} /\ Groups(s) \in Nat \ {0}
  <2>1. StoredHeight(s) \in 1 .. 255
        BY <1>1, <1>2, <1>3, SMTT(30)
  <2>2. s.scan \in Nat \ {0}
        BY <1>1
  <2> QED BY <1>4, <1>6, <2>1, <2>2
<1> QED BY <1>1, <1>2, <1>5, <1>7, <1>8

\* A pixel's place, by its column's run and place in it and its row's group
\* and line.
LEMMA SlotIs ==
  ASSUME NEW s \in Specs, Valid(s), s.width # 0, NEW row \in Rows(s), NEW col \in Columns(s)
  PROVE  LET R == RunOf(s)  G == Groups(s)
             g == Group(s, row)  a == col \div R  b == col % R IN
         /\ g \in 0 .. G - 1 /\ a \in Nat /\ b \in 0 .. R - 1 /\ col = R * a + b
         /\ R * g + b \in 0 .. R * G - 1
         /\ Slot(s, row, col) = (R * G) * a + (R * g + b)
         /\ R * G \in Nat \ {0}
         /\ row = s.scan * (row \div s.scan) + (row % s.scan)
         /\ row \div s.scan \in 0 .. G - 1 /\ row % s.scan \in 0 .. s.scan - 1
<1> DEFINE R == RunOf(s)
           G == Groups(s)
           g == Group(s, row)
           a == col \div R
           b == col % R
<1>1. /\ R \in Nat \ {0} /\ G \in Nat \ {0} /\ s.scan \in Nat \ {0} /\ s.width \in Nat
      /\ StoredHeight(s) = s.scan * G /\ StoredHeight(s) \in Nat
      BY SpecShape
<1>2. row \in Nat /\ row < s.scan * G /\ col \in Nat
      BY <1>1 DEF Rows, Columns
<1>3. /\ row = s.scan * (row \div s.scan) + (row % s.scan)
      /\ row \div s.scan \in 0 .. G - 1 /\ row % s.scan \in 0 .. s.scan - 1
      BY <1>1, <1>2, DivMod, DivBound
<1>4. g \in 0 .. G - 1
      BY <1>1, <1>3 DEF Group
<1>5. a \in Nat /\ b \in 0 .. R - 1 /\ col = R * a + b
      BY <1>1, <1>2, DivMod
<1>6. Slot(s, row, col) = a * (G * R) + g * R + b
      BY DEF Slot
<1> HIDE DEF R, G, g, a, b
<1>7. R * g + b \in Nat /\ R * g + b < R * G
      BY <1>1, <1>4, <1>5, DigitsBound
<1>8. R * G \in Nat \ {0} /\ R * G = G * R /\ g * R = R * g /\ a * (G * R) = (R * G) * a
      BY <1>1, <1>4, <1>5
<1>9. (R * G) * a \in Nat /\ R * g \in Nat
  <2>1. R \in Nat /\ g \in Nat /\ R * G \in Nat /\ a \in Nat
        BY <1>1, <1>4, <1>5, <1>8
  <2> QED BY <2>1, ProductNat
<1>10. Slot(s, row, col) = (R * G) * a + (R * g + b)
      BY <1>5, <1>6, <1>7, <1>8, <1>9
<1>11. R * g + b \in 0 .. R * G - 1
      BY <1>7, <1>8
<1> QED BY <1>3, <1>4, <1>5, <1>8, <1>10, <1>11 DEF R, G, g, a, b

\* Sets of as many members.
LEMMA UpTo ==
  ASSUME NEW n \in Nat
  PROVE  IsFiniteSet(0 .. n - 1) /\ Cardinality(0 .. n - 1) = n
<1>1. IsFiniteSet(0 .. n - 1) /\ Cardinality(0 .. n - 1) = IF 0 > n - 1 THEN 0 ELSE (n - 1) - 0 + 1
      BY FS_Interval
<1> QED BY <1>1

\* Sets that are matched one to one have as many members.
LEMMA SameNumber ==
  ASSUME NEW S, IsFiniteSet(S), NEW T, NEW f \in [S -> T],
         \A x, y \in S : f[x] = f[y] => x = y,
         \A t \in T : \E x \in S : f[x] = t
  PROVE  IsFiniteSet(T) /\ Cardinality(T) = Cardinality(S)
<1>1. f \in Bijection(S, T)
      BY DEF Bijection, Injection, Surjection, IsInjective
<1> QED BY <1>1, FS_Bijection DEF ExistsBijection

\* Two pixels of a module with one place are one pixel.
LEMMA OnePixelAPlace ==
  ASSUME NEW s \in Specs, Valid(s), s.width # 0,
         NEW row \in Rows(s), NEW col \in Columns(s), NEW row2 \in Rows(s), NEW col2 \in Columns(s),
         Line(s, row) = Line(s, row2), Slot(s, row, col) = Slot(s, row2, col2)
  PROVE  row = row2 /\ col = col2
<1> DEFINE R == RunOf(s)
           G == Groups(s)
           g == Group(s, row)
           h == Group(s, row2)
           a == col \div R
           c == col2 \div R
           b == col % R
           d == col2 % R
<1>1. /\ g \in 0 .. G - 1 /\ a \in Nat /\ b \in 0 .. R - 1 /\ col = R * a + b
      /\ R * g + b \in 0 .. R * G - 1 /\ Slot(s, row, col) = (R * G) * a + (R * g + b)
      /\ R * G \in Nat \ {0} /\ row = s.scan * (row \div s.scan) + (row % s.scan)
      /\ row \div s.scan \in 0 .. G - 1 /\ row % s.scan \in 0 .. s.scan - 1
      BY SlotIs
<1>2. /\ h \in 0 .. G - 1 /\ c \in Nat /\ d \in 0 .. R - 1 /\ col2 = R * c + d
      /\ R * h + d \in 0 .. R * G - 1 /\ Slot(s, row2, col2) = (R * G) * c + (R * h + d)
      /\ row2 = s.scan * (row2 \div s.scan) + (row2 % s.scan)
      /\ row2 \div s.scan \in 0 .. G - 1 /\ row2 % s.scan \in 0 .. s.scan - 1
      BY SlotIs
<1>3. R \in Nat \ {0} /\ G \in Nat \ {0} /\ s.scan \in Nat \ {0}
      BY SpecShape
<1>4. row % s.scan = row2 % s.scan
  <2> DEFINE n == s.scan
             i == row % n
             j == row2 % n
  <2>1. n \in Int /\ i \in Int /\ j \in Int
        BY <1>1, <1>2, <1>3
  <2>2. /\ Line(s, row) = IF s.reversed_lines THEN n - 1 - i ELSE i
        /\ Line(s, row2) = IF s.reversed_lines THEN n - 1 - j ELSE j
        BY DEF Line
  <2> HIDE DEF n, i, j
  <2>3. i = j
    <3>1. CASE s.reversed_lines
      <4>1. n - 1 - i = n - 1 - j
            BY <2>2, <3>1
      <4> QED BY <2>1, <4>1
    <3>2. CASE ~s.reversed_lines
          BY <2>2, <3>2
    <3> QED BY <3>1, <3>2
  <2> QED BY <2>3 DEF i, j, n
<1> HIDE DEF R, a, b, c, d
<1>5. a = c /\ R * g + b = R * h + d
  <2>1. (R * G) * a + (R * g + b) = (R * G) * c + (R * h + d)
        BY <1>1, <1>2
  <2> HIDE DEF g, h
  <2> DEFINE m == R * G
             e == R * g + b
             f == R * h + d
  <2>2. m \in Nat \ {0} /\ e \in 0 .. m - 1 /\ f \in 0 .. m - 1 /\ m * a + e = m * c + f
        BY <1>1, <1>2, <2>1
  <2> HIDE DEF m, e, f
  <2>3. a = c /\ e = f
        BY <1>1, <1>2, <2>2, DigitsApart
  <2> QED BY <2>3 DEF e, f
<1>6. g = h /\ b = d
  <2>1. g \in Nat /\ h \in Nat
        BY <1>1, <1>2, <1>3
  <2> HIDE DEF g, h
  <2>2. R \in Nat \ {0} /\ b \in 0 .. R - 1 /\ d \in 0 .. R - 1 /\ R * g + b = R * h + d
        BY <1>1, <1>2, <1>3, <1>5
  <2> QED BY <2>1, <2>2, DigitsApart
<1>7. row \div s.scan = row2 \div s.scan
      BY <1>1, <1>2, <1>3, <1>6 DEF Group
<1> QED BY <1>1, <1>2, <1>4, <1>5, <1>6, <1>7

\* A product divides again.
LEMMA ExactDiv ==
  ASSUME NEW m \in Nat \ {0}, NEW n \in Nat
  PROVE  (m * n) \div m = n
<1>1. m * n \in Nat
      BY ProductNat
<1> DEFINE a == m * n
<1>2. a = m * n + 0 /\ 0 \in 0 .. m - 1
      BY <1>1
<1> HIDE DEF a
<1>3. a \div m \in Nat /\ a % m \in 0 .. m - 1 /\ a = m * (a \div m) + (a % m)
      BY <1>1, DivMod DEF a
<1> DEFINE q == a \div m
           r == a % m
<1> HIDE DEF q, r
<1>4. q \in Nat /\ r \in 0 .. m - 1 /\ m * q + r = m * n + 0
      BY <1>2, <1>3 DEF q, r
<1>5. q = n
      BY <1>2, <1>4, DigitsApart
<1> QED BY <1>5 DEF q, a

\* The length of a scan line.
LEMMA LineLength ==
  ASSUME NEW s \in Specs, Valid(s), s.width # 0
  PROVE  OneScanLen(s) = s.width * Groups(s) /\ s.width * Groups(s) \in Nat /\ s.width * Groups(s) < 65536
<1> DEFINE w == s.width
           n == s.scan
           G == Groups(s)
<1>1. /\ w \in 1 .. 255 /\ StoredHeight(s) \in 1 .. 255 /\ n \in Nat \ {0} /\ G \in Nat \ {0}
      /\ StoredHeight(s) = n * G
      BY SpecShape
<1>2. OneScanLen(s) = U16(Max({1, (w * StoredHeight(s)) \div n}))
      BY DEF OneScanLen
<1> HIDE DEF w, n, G
<1>3. G <= 255
  <2>1. 1 * G <= n * G
        BY <1>1, Grows, ProductNat
  <2> QED BY <1>1, <2>1
<1>4. w * G \in Nat /\ w * G <= 65025 /\ w * G >= 1
  <2>1. w * G <= w * 255 /\ w * 1 <= w * G /\ w * G \in Nat
        BY <1>1, <1>3, Grows
  <2> QED BY <1>1, <2>1
<1>5. (w * StoredHeight(s)) \div n = w * G
  <2>1. w * StoredHeight(s) = n * (w * G)
        BY <1>1, <1>4
  <2> QED BY <1>1, <1>4, <2>1, ExactDiv
<1>6. Max({1, w * G}) = w * G
      BY <1>4, MaxOfTwo
<1>7. U16(w * G) = w * G
  <2> DEFINE p == w * G
  <2>1. p \in Nat /\ p < 65536 /\ p < 131072
        BY <1>4
  <2> HIDE DEF p
  <2>2. U16(p) = p
        BY <2>1, U16Is
  <2> QED BY <2>2 DEF p
<1>8. OneScanLen(s) = w * G /\ w * G < 65536
      BY <1>2, <1>4, <1>5, <1>6, <1>7
<1> QED BY <1>4, <1>8 DEF w, G

\* Within the line where the run divides the width.
LEMMA SlotInLine ==
  ASSUME NEW s \in Specs, Valid(s), s.width # 0, Divides(RunOf(s), s.width),
         NEW row \in Rows(s), NEW col \in Columns(s)
  PROVE  Slot(s, row, col) < OneScanLen(s)
<1> DEFINE w == s.width
           R == RunOf(s)
           G == Groups(s)
           k == w \div R
           m == R * G
           a == col \div R
           e == R * Group(s, row) + (col % R)
<1>1. w \in Nat /\ R \in Nat \ {0} /\ G \in Nat \ {0}
      BY SpecShape
<1>2. w % R = 0
      BY <1>1 DEF Divides
<1>3. k \in Nat /\ w = R * k + (w % R)
      BY <1>1, DivMod
<1>4. /\ a \in Nat /\ m \in Nat \ {0} /\ e \in 0 .. m - 1
      /\ Slot(s, row, col) = m * a + e
      BY SlotIs
<1>5. col \in Nat /\ col < w
      BY <1>1 DEF Columns
<1>6. OneScanLen(s) = w * G
      BY LineLength
<1> HIDE DEF w, R, G, k
<1>7. w = R * k
  <2>1. R * k \in Nat
        BY <1>1, <1>3, ProductNat
  <2> QED BY <1>2, <1>3, <2>1
<1>8. a \in 0 .. k - 1
      BY <1>1, <1>3, <1>5, <1>7, DivBound
<1>9. w * G = m * k
      BY <1>1, <1>3, <1>7
<1> HIDE DEF m, a, e
<1>10. m * a + e < m * k
      BY <1>3, <1>4, <1>8, DigitsBound
<1> QED BY <1>4, <1>6, <1>9, <1>10

\* So the pixels of a module are apart.
LEMMA PixelsHavePlaces ==
  ASSUME NEW s \in Specs, Valid(s), s.width # 0
  PROVE  PixelsApart(s)
<1> DEFINE place == {<<Line(s, row), Slot(s, row, col)>> : row \in Rows(s), col \in Columns(s)}
           pixels == Rows(s) \X Columns(s)
           f == [p \in pixels |-> <<Line(s, p[1]), Slot(s, p[1], p[2])>>]
<1>1. s.width \in 1 .. 255 /\ StoredHeight(s) \in 1 .. 255 /\ s.scan \in Nat \ {0}
      BY SpecShape
<1>2. IsFiniteSet(pixels) /\ Cardinality(pixels) = StoredHeight(s) * s.width
  <2>1. IsFiniteSet(Rows(s)) /\ Cardinality(Rows(s)) = StoredHeight(s)
    <3>1. StoredHeight(s) \in Nat /\ Rows(s) = 0 .. StoredHeight(s) - 1
          BY <1>1 DEF Rows
    <3> QED BY <3>1, UpTo
  <2>2. IsFiniteSet(Columns(s)) /\ Cardinality(Columns(s)) = s.width
    <3>1. s.width \in Nat /\ Columns(s) = 0 .. s.width - 1
          BY <1>1 DEF Columns
    <3> QED BY <3>1, UpTo
  <2> QED BY <2>1, <2>2, FS_Product
<1>3. f \in [pixels -> place]
      OBVIOUS
<1>4. \A x, y \in pixels : f[x] = f[y] => x = y
  <2> SUFFICES ASSUME NEW x \in pixels, NEW y \in pixels, f[x] = f[y] PROVE x = y
      OBVIOUS
  <2>1. Line(s, x[1]) = Line(s, y[1]) /\ Slot(s, x[1], x[2]) = Slot(s, y[1], y[2])
        OBVIOUS
  <2>2. x[1] \in Rows(s) /\ x[2] \in Columns(s) /\ y[1] \in Rows(s) /\ y[2] \in Columns(s)
        OBVIOUS
  <2>3. x[1] = y[1] /\ x[2] = y[2]
        BY <2>1, <2>2, OnePixelAPlace
  <2> QED BY <2>3
<1>5. \A t \in place : \E x \in pixels : f[x] = t
  <2> SUFFICES ASSUME NEW t \in place PROVE \E x \in pixels : f[x] = t
      OBVIOUS
  <2>1. PICK row \in Rows(s), col \in Columns(s) : t = <<Line(s, row), Slot(s, row, col)>>
        OBVIOUS
  <2>2. <<row, col>> \in pixels /\ f[<<row, col>>] = <<Line(s, row), Slot(s, row, col)>>
        OBVIOUS
  <2> QED BY <2>1, <2>2
<1>6. Cardinality(place) = Entries(s)
  <2> HIDE DEF place, pixels, f
  <2>1. IsFiniteSet(place) /\ Cardinality(place) = Cardinality(pixels)
        BY <1>2, <1>3, <1>4, <1>5, SameNumber, Zenon
  <2>2. s.width \in Nat /\ StoredHeight(s) \in Nat
        BY <1>1
  <2> QED BY <1>2, <2>1, <2>2, ProductNat DEF Entries
<1>7. \A p \in place : p[1] \in 0 .. s.scan - 1
  <2> SUFFICES ASSUME NEW row \in Rows(s), NEW col \in Columns(s)
               PROVE  Line(s, row) \in 0 .. s.scan - 1
      OBVIOUS
  <2> DEFINE n == s.scan
             i == row % n
  <2>1. n \in Nat /\ i \in 0 .. n - 1
        BY <1>1, SlotIs
  <2>2. Line(s, row) = IF s.reversed_lines THEN n - 1 - i ELSE i
        BY DEF Line
  <2> HIDE DEF i
  <2> QED BY <2>1, <2>2
<1>8. Divides(RunOf(s), s.width) => \A p \in place : p[2] < OneScanLen(s)
      BY SlotInLine
<1> QED BY <1>6, <1>7, <1>8 DEF PixelsApart

-----------------------------------------------------------------------------
(* The module table.                                                        *)
RecordNumbers(rec) ==
  /\ rec.grid_w \in Nat /\ rec.grid_h \in Nat /\ rec.max_w \in Nat /\ rec.max_h \in Nat
  /\ rec.line_dir \in Nat

TableWritten(rec) == RecordNumbers(rec) /\ ~TableGated(rec) /\ CoversAll(rec)

\* The bounds of a table that is written.
LEMMA TableShape ==
  ASSUME NEW rec, TableWritten(rec)
  PROVE  /\ TilesX(rec) \in Nat /\ TilesY(rec) \in Nat /\ rec.line_dir \in 0 .. 3
         /\ rec.grid_w \in Nat /\ rec.grid_h \in Nat
         /\ rec.line_dir < 2 => TilesY(rec) <= 32 /\ TilesX(rec) <= 8
         /\ rec.line_dir >= 2 => TilesX(rec) <= 32 /\ TilesY(rec) <= 8
         /\ TilesY(rec) * TilesX(rec) \in Nat /\ TilesY(rec) * TilesX(rec) <= 64
<1>1. /\ rec.grid_w \in Nat \ {0} /\ rec.grid_h \in Nat \ {0} /\ rec.max_w \in Nat /\ rec.max_h \in Nat
      /\ rec.line_dir \in 0 .. 3 /\ ~(U16(TilesX(rec) * TilesY(rec)) > 64)
      BY DEF TableWritten, RecordNumbers, TableGated
<1>2. TilesX(rec) \in Nat /\ TilesY(rec) \in Nat
      BY <1>1, DivMod DEF TilesX, TilesY
<1>3. /\ rec.line_dir < 2 => TilesY(rec) <= 32 /\ TilesX(rec) <= 8
      /\ rec.line_dir >= 2 => TilesX(rec) <= 32 /\ TilesY(rec) <= 8
      BY <1>1 DEF TableWritten, CoversAll
<1> DEFINE a == TilesX(rec)
           b == TilesY(rec)
           n == a * b
<1> HIDE DEF a, b
<1>4. n \in Nat /\ n <= 256
  <2>1. a \in Nat /\ b \in Nat /\ ((a <= 8 /\ b <= 32) \/ (a <= 32 /\ b <= 8))
        BY <1>1, <1>2, <1>3 DEF a, b
  <2>2. a * b <= a * 32 /\ a * b \in Nat /\ (b <= 8 => a * b <= a * 8)
        BY <2>1, Grows
  <2> QED BY <2>1, <2>2
<1>5. n <= 64
  <2>1. ~(U16(n) > 64)
        BY <1>1 DEF a, b
  <2> HIDE DEF n
  <2>2. n < 131072 /\ n < 65536
        BY <1>4
  <2>3. U16(n) = n
        BY <1>4, <2>2, U16Is
  <2> QED BY <1>4, <2>1, <2>3
<1>6. n = TilesY(rec) * TilesX(rec)
      BY <1>2, ProductNat DEF a, b
<1> QED BY <1>1, <1>2, <1>3, <1>4, <1>5, <1>6

\* A table that is written keeps every tile.
LEMMA TilesKept ==
  ASSUME NEW rec, TableWritten(rec), NEW t \in Tiles(rec)
  PROVE  Keep(rec, t)
<1>1. /\ t[1] \in 0 .. TilesY(rec) - 1 /\ t[2] \in 0 .. TilesX(rec) - 1
      BY DEF Tiles
<1>2. TileIndex(rec, t)[2] = CASE rec.line_dir = 0 -> TilesX(rec) - 1 - t[2]
                               [] rec.line_dir = 1 -> t[2]
                               [] rec.line_dir = 2 -> t[1]
                               [] rec.line_dir = 3 -> TilesY(rec) - 1 - t[1]
      BY TableShape DEF TileIndex
<1>3. rec.line_dir < 2 => t[1] < 32 /\ TileIndex(rec, t)[2] < 8
      BY <1>1, <1>2, TableShape
<1>4. ~(rec.line_dir < 2) => TileIndex(rec, t)[2] < 8 /\ t[2] < 32
      BY <1>1, <1>2, TableShape
<1> QED BY <1>3, <1>4 DEF Keep

Rank(rec, t) == t[1] * TilesX(rec) + t[2]

\* The tiles in the order of the table.
LEMMA TilesRanked ==
  ASSUME NEW rec, TableWritten(rec)
  PROVE  /\ IsFiniteSet(Tiles(rec)) /\ Cardinality(Tiles(rec)) = TilesY(rec) * TilesX(rec)
         /\ \A t \in Tiles(rec) : Rank(rec, t) \in 0 .. TilesY(rec) * TilesX(rec) - 1
         /\ \A t, u \in Tiles(rec) : Rank(rec, t) = Rank(rec, u) => t = u
         /\ \A n \in 0 .. TilesY(rec) * TilesX(rec) - 1 : \E t \in Tiles(rec) : Rank(rec, t) = n
<1> DEFINE a == TilesX(rec)
           b == TilesY(rec)
<1>1. a \in Nat /\ b \in Nat /\ b * a \in Nat /\ a * b = b * a
      BY TableShape, ProductNat
<1>2. Tiles(rec) = (0 .. b - 1) \X (0 .. a - 1)
      BY DEF Tiles
<1>3. \A t : Rank(rec, t) = t[1] * a + t[2]
      BY DEF Rank
<1> HIDE DEF a, b
<1>4. IsFiniteSet(Tiles(rec)) /\ Cardinality(Tiles(rec)) = b * a
  <2>1. /\ IsFiniteSet(0 .. b - 1) /\ Cardinality(0 .. b - 1) = b
        /\ IsFiniteSet(0 .. a - 1) /\ Cardinality(0 .. a - 1) = a
        BY <1>1, UpTo
  <2> DEFINE P == 0 .. b - 1
             Q == 0 .. a - 1
  <2> HIDE DEF P, Q
  <2>2. IsFiniteSet(P \X Q) /\ Cardinality(P \X Q) = Cardinality(P) * Cardinality(Q)
    <3>1. IsFiniteSet(P) /\ IsFiniteSet(Q)
          BY <2>1 DEF P, Q
    <3> QED BY <3>1, FS_Product
  <2> QED BY <1>2, <2>1, <2>2 DEF P, Q
<1>5. ASSUME NEW t \in Tiles(rec)
      PROVE  /\ t[1] \in 0 .. b - 1 /\ t[2] \in 0 .. a - 1 /\ a \in Nat \ {0}
             /\ Rank(rec, t) = a * t[1] + t[2] /\ t = <<t[1], t[2]>>
  <2>1. t[1] \in 0 .. b - 1 /\ t[2] \in 0 .. a - 1 /\ t = <<t[1], t[2]>>
        BY <1>2
  <2>2. t[1] * a = a * t[1]
        BY <1>1, <2>1
  <2>3. a # 0
        BY <1>1, <2>1
  <2> QED BY <1>1, <1>3, <2>1, <2>2, <2>3
<1>6. ASSUME NEW t \in Tiles(rec) PROVE Rank(rec, t) \in 0 .. b * a - 1
  <2> DEFINE x == t[1]
             y == t[2]
  <2>1. x \in 0 .. b - 1 /\ y \in 0 .. a - 1 /\ a \in Nat \ {0} /\ Rank(rec, t) = a * x + y
        BY <1>5
  <2> HIDE DEF x, y
  <2>2. a * x + y \in Nat /\ a * x + y < a * b
        BY <1>1, <2>1, DigitsBound
  <2> DEFINE m == b * a
             r == Rank(rec, t)
  <2>3. r \in Nat /\ r < m
        BY <1>1, <2>1, <2>2
  <2>4. m \in Nat
        BY <1>1
  <2> HIDE DEF m, r
  <2>5. r \in 0 .. m - 1
        BY <2>3, <2>4
  <2> QED BY <2>5 DEF m, r
<1>7. ASSUME NEW t \in Tiles(rec), NEW u \in Tiles(rec), Rank(rec, t) = Rank(rec, u)
      PROVE  t = u
  <2>1. /\ t[1] \in Nat /\ u[1] \in Nat /\ t[2] \in 0 .. a - 1 /\ u[2] \in 0 .. a - 1 /\ a \in Nat \ {0}
        /\ a * t[1] + t[2] = a * u[1] + u[2]
        BY <1>1, <1>5, <1>7
  <2>2. t[1] = u[1] /\ t[2] = u[2]
    <3> DEFINE x == t[1]
               y == t[2]
               v == u[1]
               w == u[2]
    <3>1. x \in Nat /\ v \in Nat /\ y \in 0 .. a - 1 /\ w \in 0 .. a - 1 /\ a * x + y = a * v + w
          BY <2>1
    <3> HIDE DEF x, y, v, w
    <3>2. a \in Nat \ {0}
          BY <2>1
    <3>3. x = v /\ y = w
          BY <3>1, <3>2, DigitsApart
    <3> QED BY <3>3 DEF x, y, v, w
  <2>3. t = <<t[1], t[2]>> /\ u = <<u[1], u[2]>>
        BY <1>5
  <2> QED BY <2>2, <2>3, Zenon
<1>8. ASSUME NEW n \in 0 .. b * a - 1 PROVE \E t \in Tiles(rec) : Rank(rec, t) = n
  <2>1. n \in Nat /\ n < a * b /\ a \in Nat \ {0}
    <3>1. a # 0
      <4>1. b * a > 0
            BY <1>1, <1>8
      <4> QED BY <1>1, <4>1
    <3> QED BY <1>1, <1>8, <3>1
  <2> DEFINE t == <<n \div a, n % a>>
  <2>2. n \div a \in 0 .. b - 1 /\ n % a \in 0 .. a - 1 /\ n = a * (n \div a) + (n % a)
        BY <1>1, <2>1, DivBound, DivMod
  <2>3. t \in Tiles(rec)
        BY <1>2, <2>2
  <2>4. Rank(rec, t) = a * t[1] + t[2] /\ t[1] = n \div a /\ t[2] = n % a
        BY <1>5, <2>3
  <2> QED BY <2>2, <2>3, <2>4
<1> QED BY <1>4, <1>6, <1>7, <1>8 DEF a, b

\* A tile's slot is its rank: no tile before it was dropped.
LEMMA SlotIsRank ==
  ASSUME NEW rec, TableWritten(rec), NEW t \in Tiles(rec)
  PROVE  TileSlot(rec, t) = Rank(rec, t)
<1> DEFINE N == TilesY(rec) * TilesX(rec)
           r == Rank(rec, t)
           lower == {u \in Tiles(rec) : Rank(rec, u) < r}
           f == [u \in lower |-> Rank(rec, u)]
<1>1. N \in Nat
      BY TableShape
<1> HIDE DEF N
<1>2. /\ IsFiniteSet(Tiles(rec)) /\ \A u \in Tiles(rec) : Rank(rec, u) \in 0 .. N - 1
      /\ \A u, v \in Tiles(rec) : Rank(rec, u) = Rank(rec, v) => u = v
      /\ \A n \in 0 .. N - 1 : \E u \in Tiles(rec) : Rank(rec, u) = n
      BY TilesRanked DEF N
<1>3. r \in Nat /\ r \in 0 .. N - 1
      BY <1>1, <1>2
<1>4. IsFiniteSet(lower)
      BY <1>2, FS_Subset
<1>5. f \in [lower -> 0 .. r - 1]
  <2>1. \A u \in lower : Rank(rec, u) \in 0 .. r - 1
        BY <1>1, <1>2, <1>3
  <2> QED BY <2>1
<1>6. \A u, v \in lower : f[u] = f[v] => u = v
      BY <1>2
<1>7. \A n \in 0 .. r - 1 : \E u \in lower : f[u] = n
  <2> SUFFICES ASSUME NEW n \in 0 .. r - 1 PROVE \E u \in lower : f[u] = n
      OBVIOUS
  <2>1. n \in 0 .. N - 1 /\ n < r
        BY <1>1, <1>3
  <2>2. PICK u \in Tiles(rec) : Rank(rec, u) = n
        BY <1>2, <2>1
  <2> QED BY <2>1, <2>2
<1>8. Cardinality(lower) = r
  <2> HIDE DEF lower, f, r
  <2>1. Cardinality(0 .. r - 1) = Cardinality(lower)
        BY <1>4, <1>5, <1>6, <1>7, SameNumber, Zenon
  <2>2. Cardinality(0 .. r - 1) = r
        BY <1>3, UpTo
  <2> QED BY <2>1, <2>2
<1>9. CASE rec.line_dir < 2
  <2>1. TileSlot(rec, t) =
          Cardinality({u \in Tiles(rec) : Keep(rec, u) /\ u[1] * TilesX(rec) + u[2] < t[1] * TilesX(rec) + t[2]})
        BY <1>9 DEF TileSlot
  <2>2. {u \in Tiles(rec) : Keep(rec, u) /\ u[1] * TilesX(rec) + u[2] < t[1] * TilesX(rec) + t[2]} = lower
        BY TilesKept DEF Rank
  <2> QED BY <1>8, <2>1, <2>2
<1>10. CASE ~(rec.line_dir < 2)
      BY <1>10 DEF TileSlot, Rank
<1> QED BY <1>9, <1>10

\* Two tiles of one chain position are one.
LEMMA IndexApart ==
  ASSUME NEW rec, TableWritten(rec), NEW t \in Tiles(rec), NEW u \in Tiles(rec),
         TileIndex(rec, t) = TileIndex(rec, u)
  PROVE  t = u
<1> DEFINE X == TilesX(rec)
           Y == TilesY(rec)
<1>1. X \in Nat /\ Y \in Nat /\ rec.line_dir \in 0 .. 3
      BY TableShape
<1>2. /\ t[1] \in Nat /\ t[2] \in Nat /\ u[1] \in Nat /\ u[2] \in Nat
      /\ t = <<t[1], t[2]>> /\ u = <<u[1], u[2]>>
  <2>1. t \in (0 .. Y - 1) \X (0 .. X - 1) /\ u \in (0 .. Y - 1) \X (0 .. X - 1)
        BY DEF Tiles
  <2> QED BY <1>1, <2>1
<1>3. t[1] = u[1] /\ t[2] = u[2]
  <2>0. rec.line_dir = 0 \/ rec.line_dir = 1 \/ rec.line_dir = 2 \/ rec.line_dir = 3
        BY <1>1
  <2>1. CASE rec.line_dir = 0
    <3>1. <<t[1], X - 1 - t[2]>> = <<u[1], X - 1 - u[2]>>
          BY <2>1 DEF TileIndex
    <3> HIDE DEF X
    <3>2. t[1] = u[1] /\ X - 1 - t[2] = X - 1 - u[2]
          BY <3>1
    <3> QED BY <1>1, <1>2, <3>2
  <2>2. CASE rec.line_dir = 1
    <3>1. <<t[1], t[2]>> = <<u[1], u[2]>>
          BY <2>2 DEF TileIndex
    <3> QED BY <3>1
  <2>3. CASE rec.line_dir = 2
    <3>1. <<t[2], t[1]>> = <<u[2], u[1]>>
          BY <2>3 DEF TileIndex
    <3> QED BY <3>1
  <2>4. CASE rec.line_dir = 3
    <3>1. <<X - 1 - t[2], Y - 1 - t[1]>> = <<X - 1 - u[2], Y - 1 - u[1]>>
          BY <2>4 DEF TileIndex
    <3> HIDE DEF X, Y
    <3>2. X - 1 - t[2] = X - 1 - u[2] /\ Y - 1 - t[1] = Y - 1 - u[1]
          BY <3>1
    <3> QED BY <1>1, <1>2, <3>2
  <2> QED BY <2>0, <2>1, <2>2, <2>3, <2>4
<1> QED BY <1>2, <1>3, Zenon

\* So the table, if it is written, describes the screen.
LEMMA TilesHavePlaces ==
  ASSUME NEW rec, RecordNumbers(rec) PROVE TilesWhole(rec)
<1> DEFINE table == ModulePositions(rec)
<1>1. CASE TableGated(rec) \/ ~CoversAll(rec)
      BY <1>1 DEF TilesWhole, ModulePositions
<1>2. CASE TableWritten(rec)
  <2> DEFINE Entry(t) == [slot |-> TileSlot(rec, t), index |-> TileIndex(rec, t),
                          x |-> rec.grid_w * t[2], y |-> rec.grid_h * t[1]]
             tiles == Tiles(rec)
             N == TilesY(rec) * TilesX(rec)
  <2>1. table = {Entry(t) : t \in tiles}
        BY <1>2, TilesKept DEF TableWritten, ModulePositions
  <2>2. /\ IsFiniteSet(tiles) /\ Cardinality(tiles) = N /\ N \in Nat /\ N <= 64
        /\ \A t \in tiles : Rank(rec, t) \in 0 .. N - 1
        /\ \A t, u \in tiles : Rank(rec, t) = Rank(rec, u) => t = u
        /\ \A n \in 0 .. N - 1 : \E t \in tiles : Rank(rec, t) = n
        BY <1>2, TilesRanked, TableShape
  <2>3. \A t \in tiles : TileSlot(rec, t) = Rank(rec, t)
        BY <1>2, SlotIsRank
  <2>4. \A t \in tiles : Entry(t).slot = Rank(rec, t) /\ Entry(t).index = TileIndex(rec, t)
                         /\ Entry(t).x = rec.grid_w * t[2] /\ Entry(t).y = rec.grid_h * t[1]
        BY <2>3
  <2>5. \A t, u \in tiles : TileIndex(rec, t) = TileIndex(rec, u) => t = u
        BY <1>2, IndexApart
  <2> HIDE DEF Entry, tiles, N, table
  <2>6. {<<e.x, e.y>> : e \in table} = {<<rec.grid_w * t[2], rec.grid_h * t[1]>> : t \in tiles}
        BY <2>1, <2>4
  <2>7. {e.slot : e \in table} = 0 .. N - 1
        BY <2>1, <2>2, <2>4
  <2>8. IsFiniteSet(table) /\ Cardinality(table) = N
    <3> DEFINE f == [t \in tiles |-> Entry(t)]
    <3>1. f \in [tiles -> table]
          BY <2>1
    <3>2. \A t, u \in tiles : f[t] = f[u] => t = u
          BY <2>2, <2>4
    <3>3. \A e \in table : \E t \in tiles : f[t] = e
          BY <2>1
    <3> HIDE DEF f
    <3> QED BY <2>2, <3>1, <3>2, <3>3, SameNumber
  <2>9. Cardinality({e.index : e \in table}) = Cardinality(table)
    <3> DEFINE all == {e.index : e \in table}
               f == [e \in table |-> e.index]
    <3>1. f \in [table -> all]
          OBVIOUS
    <3>2. \A e, g \in table : f[e] = f[g] => e = g
          BY <2>1, <2>4, <2>5
    <3>3. \A i \in all : \E e \in table : f[e] = i
          OBVIOUS
    <3> HIDE DEF f, all
    <3>4. Cardinality(all) = Cardinality(table)
          BY <2>8, <3>1, <3>2, <3>3, SameNumber
    <3> QED BY <3>4 DEF all
  <2>10. 22 + 10 * Cardinality(table) <= Size.tiles
        BY <2>2, <2>8 DEF Size
  <2> QED BY <2>2, <2>6, <2>7, <2>9, <2>10 DEF TilesWhole, table, tiles
<1> QED BY <1>1, <1>2 DEF TableWritten

-----------------------------------------------------------------------------
(* The record and the pack.                                                 *)

\* An override is a number too.
LEMMA FieldIsNumber ==
  ASSUME NEW s, PanelSpec(s), NEW f \in DOMAIN Own(s), Own(s)[f] \in Nat
  PROVE  Record01(s)[f] \in Nat
<1>1. Record01(s)[f] = IF f \in DOMAIN s.over THEN s.over[f]
                       ELSE IF f \in DOMAIN s.chip_over THEN s.chip_over[f] ELSE Own(s)[f]
      BY DEF Record01
<1>2. f \in DOMAIN s.over => s.over[f] \in Nat
      BY DEF PanelSpec, FitsIn
<1>3. f \in DOMAIN s.chip_over => s.chip_over[f] \in Nat
      BY DEF PanelSpec, FitsIn
<1> QED BY <1>1, <1>2, <1>3

\* So record 0x01 is made of numbers.
LEMMA RecordIsNumbers ==
  ASSUME NEW s \in Specs
  PROVE  RecordNumbers(Record01(s)) /\ Record01(s).scan \in Nat
<1>1. /\ s.scan \in Nat /\ s.line_dir \in Nat /\ s.sw \in Nat /\ s.sh \in Nat
  <2>1. PanelSpec(s)
        BY PanelAssumption
  <2> QED BY <2>1 DEF PanelSpec, FitsIn
<1>2. {"grid_w", "grid_h", "max_w", "max_h", "line_dir", "scan"} \subseteq DOMAIN Own(s)
      BY DEF Own
<1>3. /\ Own(s)["grid_w"] = 16 /\ Own(s)["grid_h"] = 16 /\ Own(s)["max_w"] = s.sw
      /\ Own(s)["max_h"] = s.sh /\ Own(s)["line_dir"] = s.line_dir /\ Own(s)["scan"] = s.scan
      BY DEF Own
<1>4. \A f \in {"grid_w", "grid_h", "max_w", "max_h", "line_dir", "scan"} : Own(s)[f] \in Nat
      BY <1>1, <1>3
<1>5. \A f \in {"grid_w", "grid_h", "max_w", "max_h", "line_dir", "scan"} : Record01(s)[f] \in Nat
  <2>1. PanelSpec(s)
        BY PanelAssumption
  <2> QED BY <1>2, <1>4, <2>1, FieldIsNumber
<1> QED BY <1>5 DEF RecordNumbers

\* A length that its parts divide is as many parts.
LEMMA CeilIsExact ==
  ASSUME NEW m \in Nat \ {0}, NEW a \in Nat, Divides(m, a)
  PROVE  CeilDiv(a, m) \in Nat /\ a = m * CeilDiv(a, m)
<1> DEFINE k == a \div m
           top == a + m - 1
           c == top \div m
<1>1. k \in Nat /\ a = m * k + (a % m) /\ a % m = 0
      BY DivMod DEF Divides
<1>2. top \in Nat /\ top = a + (m - 1)
      OBVIOUS
<1> HIDE DEF k
<1>3. m * k \in Nat /\ m * k + (m - 1) = top /\ m - 1 \in 0 .. m - 1
      BY <1>1
<1>4. CeilDiv(a, m) = c
      BY DEF CeilDiv
<1> HIDE DEF top
<1>5. c \in Nat /\ top % m \in 0 .. m - 1 /\ top = m * c + (top % m)
      BY <1>2, DivMod
<1> DEFINE r == top % m
<1> HIDE DEF c, r
<1>6. c \in Nat /\ r \in 0 .. m - 1 /\ m * c + r = m * k + (m - 1)
      BY <1>3, <1>5 DEF r
<1>7. c = k
      BY <1>1, <1>3, <1>6, DigitsApart
<1> QED BY <1>1, <1>3, <1>4, <1>7

\* The pack, field by field.
LEMMA PackFields ==
  ASSUME NEW s, NEW rec
  PROVE  LET pack == BasicPack(s, rec) IN
         /\ pack.module = IF Horizontal(s) THEN <<s.width, StoredHeight(s)>> ELSE <<StoredHeight(s), s.width>>
         /\ pack.modules = ModulesInLineDir(s) % 256 /\ pack.dir = rec.line_dir
         /\ pack.one_scan_len = OneScanLen(s) /\ pack.card_scan_len = CardScanLen(s)
         /\ pack.extent = ExtentInLineDir(s)
BY DEF BasicPack

\* The pack agrees with the screen.
LEMMA PackIsRight ==
  ASSUME NEW s \in Specs, Valid(s), s.width # 0
  PROVE  PackAgrees(s, BasicPack(s, Record01(s)))
<1> DEFINE pack == BasicPack(s, Record01(s))
           n == ModulesInLineDir(s)
<1>1. SUFFICES ASSUME pack.dir >= 2 <=> Horizontal(s), n < 256
               PROVE  /\ pack.extent = pack.modules * pack.module[2] * (IF pack.dir >= 2 THEN 2 ELSE 1)
                      /\ OneScanLen(s) * n < 65536 => pack.card_scan_len = pack.modules * pack.one_scan_len
      BY DEF PackAgrees
<1>2. /\ pack.module = IF Horizontal(s) THEN <<s.width, StoredHeight(s)>> ELSE <<StoredHeight(s), s.width>>
      /\ pack.modules = n % 256 /\ pack.one_scan_len = OneScanLen(s)
      /\ pack.card_scan_len = U16(OneScanLen(s) * n) /\ pack.extent = ExtentInLineDir(s)
      BY PackFields DEF CardScanLen
<1> HIDE DEF pack
<1>3. /\ s.width \in Nat \ {0} /\ s.height \in Nat \ {0} /\ StoredHeight(s) \in Nat
      /\ s.height = 2 * StoredHeight(s)
      BY SpecShape
<1>4. s.sw \in Nat /\ s.sh \in Nat /\ Divides(s.width, s.sw) /\ Divides(s.height, s.sh)
      BY SpecNumbers DEF Valid
<1>5. n \in Nat /\ ExtentInLineDir(s) = (IF Horizontal(s) THEN s.height ELSE s.width) * n
  <2>1. CeilDiv(s.sw, s.width) \in Nat /\ s.sw = s.width * CeilDiv(s.sw, s.width)
        BY <1>3, <1>4, CeilIsExact
  <2>2. CeilDiv(s.sh, s.height) \in Nat /\ s.sh = s.height * CeilDiv(s.sh, s.height)
        BY <1>3, <1>4, CeilIsExact
  <2> QED BY <2>1, <2>2 DEF ModulesInLineDir, ExtentInLineDir
<1> HIDE DEF n
<1>6. pack.modules = n
  <2>1. n % 256 = n
        BY <1>1, <1>5
  <2> QED BY <1>2, <2>1
<1>7. pack.extent = pack.modules * pack.module[2] * (IF pack.dir >= 2 THEN 2 ELSE 1)
  <2>1. CASE Horizontal(s)
    <3>1. pack.module[2] = StoredHeight(s) /\ pack.dir >= 2
          BY <1>1, <1>2, <2>1
    <3>2. pack.extent = (2 * StoredHeight(s)) * n
          BY <1>2, <1>3, <1>5, <2>1
    <3>3. (2 * StoredHeight(s)) * n = n * StoredHeight(s) * 2
          BY <1>3, <1>5
    <3> QED BY <1>6, <3>1, <3>2, <3>3
  <2>2. CASE ~Horizontal(s)
    <3>1. pack.module[2] = s.width /\ ~(pack.dir >= 2)
          BY <1>1, <1>2, <2>2
    <3>2. pack.extent = s.width * n
          BY <1>2, <1>5, <2>2
    <3>3. s.width * n = n * s.width * 1
          BY <1>3, <1>5
    <3> QED BY <1>6, <3>1, <3>2, <3>3
  <2> QED BY <2>1, <2>2
<1>8. OneScanLen(s) * n < 65536 => pack.card_scan_len = pack.modules * pack.one_scan_len
  <2> DEFINE L == OneScanLen(s)
  <2>1. L \in Nat
        BY LineLength
  <2> HIDE DEF L
  <2>2. L * n \in Nat /\ L * n = n * L
        BY <1>5, <2>1, ProductNat
  <2>3. L * n < 65536 => U16(L * n) = L * n
        BY <2>2 DEF U16
  <2> QED BY <1>2, <1>6, <2>2, <2>3 DEF L
<1> QED BY <1>7, <1>8

-----------------------------------------------------------------------------
(* The gray levels.                                                         *)
LEMMA OneElement ==
  ASSUME NEW a PROVE IsFiniteSet({a}) /\ Cardinality({a}) = 1
BY FS_Singleton

LEMMA TwoElements ==
  ASSUME NEW a, NEW b, a # b PROVE IsFiniteSet({a, b}) /\ Cardinality({a, b}) = 2
<1>1. IsFiniteSet({a}) /\ Cardinality({a}) = 1 /\ b \notin {a}
      BY OneElement
<1>2. {a, b} = {a} \cup {b}
      OBVIOUS
<1>3. IsFiniteSet({a} \cup {b}) /\ Cardinality({a} \cup {b}) = Cardinality({a}) + 1
      BY <1>1, FS_AddElement
<1> QED BY <1>1, <1>2, <1>3

LEMMA ThreeElements ==
  ASSUME NEW a, NEW b, NEW c, a # b, a # c, b # c
  PROVE  IsFiniteSet({a, b, c}) /\ Cardinality({a, b, c}) = 3
<1>1. IsFiniteSet({a, b}) /\ Cardinality({a, b}) = 2 /\ c \notin {a, b}
      BY TwoElements
<1>2. {a, b, c} = {a, b} \cup {c}
      OBVIOUS
<1>3. Cardinality({a, b} \cup {c}) = Cardinality({a, b}) + 1 /\ IsFiniteSet({a, b} \cup {c})
      BY <1>1, FS_AddElement
<1> QED BY <1>1, <1>2, <1>3

LEMMA FourElements ==
  ASSUME NEW a, NEW b, NEW c, NEW d, a # b, a # c, b # c, d # a, d # b, d # c
  PROVE  Cardinality({a, b, c, d}) = 4
<1>1. IsFiniteSet({a, b, c}) /\ Cardinality({a, b, c}) = 3 /\ d \notin {a, b, c}
      BY ThreeElements
<1>2. {a, b, c, d} = {a, b, c} \cup {d}
      OBVIOUS
<1>3. Cardinality({a, b, c} \cup {d}) = Cardinality({a, b, c}) + 1
      BY <1>1, FS_AddElement
<1> QED BY <1>1, <1>2, <1>3

\* The fields of each level, level by level.
LEMMA EnabledIs ==
  /\ Enabled(0) = {1} /\ Enabled(1) = {2} /\ Enabled(2) = {6} /\ Enabled(3) = {7}
  /\ Enabled(4) = {9} /\ Enabled(5) = {10} /\ Enabled(6) = {14} /\ Enabled(7) = {15}
  /\ Enabled(8) = {5, 13} /\ Enabled(9) = {3, 11} /\ Enabled(10) = {0, 4, 8, 12}
  /\ Enabled(11) = {n \in 0 .. 15 : n % 2 = 0} /\ Enabled(12) = {n \in 0 .. 15 : n % 2 = 1}
  /\ Enabled(13) = 16 .. 31
BY DEF Enabled

\* The segments of each level.
LEMMA SegmentIs ==
  /\ Segment[1] = 1 /\ Segment[2] = 1 /\ Segment[3] = 1 /\ Segment[4] = 1
  /\ Segment[5] = 1 /\ Segment[6] = 1 /\ Segment[7] = 1 /\ Segment[8] = 1
  /\ Segment[9] = 2 /\ Segment[10] = 2 /\ Segment[11] = 4
  /\ Segment[12] = 8 /\ Segment[13] = 8 /\ Segment[14] = 16
BY DEF Segment

\* Eight of sixteen are even, and eight odd.
LEMMA HalfOfSixteen ==
  ASSUME NEW r \in {0, 1} PROVE Cardinality({n \in 0 .. 15 : n % 2 = r}) = 8
<1> DEFINE T == {n \in 0 .. 15 : n % 2 = r}
           f == [k \in 0 .. 7 |-> 2 * k + r]
<1>1. IsFiniteSet(0 .. 7) /\ Cardinality(0 .. 7) = 8
  <2>1. 8 - 1 = 7 /\ 8 \in Nat
        OBVIOUS
  <2> QED BY <2>1, UpTo
<1>2. f \in [0 .. 7 -> T]
      OBVIOUS
<1>3. \A x, y \in 0 .. 7 : f[x] = f[y] => x = y
      OBVIOUS
<1>4. \A t \in T : \E x \in 0 .. 7 : f[x] = t
  <2> TAKE t \in T
  <2>1. t \div 2 \in 0 .. 7 /\ t = 2 * (t \div 2) + r
        OBVIOUS
  <2> QED BY <2>1
<1> HIDE DEF f
<1>5. Cardinality(T) = Cardinality(0 .. 7)
      BY <1>1, <1>2, <1>3, <1>4, SameNumber
<1> QED BY <1>1, <1>5

\* So every level has as many fields as segments.
LEMMA EnoughFields ==
  ASSUME NEW level \in Level PROVE Cardinality(Enabled(level)) = Segment[level + 1]
<1>1. CASE level \in 0 .. 7
  <2>1. \A n : Cardinality({n}) = 1
        BY OneElement
  <2>2. /\ Cardinality(Enabled(0)) = 1 /\ Cardinality(Enabled(1)) = 1 /\ Cardinality(Enabled(2)) = 1
        /\ Cardinality(Enabled(3)) = 1 /\ Cardinality(Enabled(4)) = 1 /\ Cardinality(Enabled(5)) = 1
        /\ Cardinality(Enabled(6)) = 1 /\ Cardinality(Enabled(7)) = 1
        BY <2>1, EnabledIs, ZenonT(30)
  <2> QED BY <1>1, <2>2, SegmentIs
<1>2. CASE level = 8
  <2> DEFINE a == 5
             b == 13
  <2>1. Enabled(8) = {a, b} /\ a # b
        BY EnabledIs
  <2> HIDE DEF a, b
  <2>2. Cardinality({a, b}) = 2
        BY <2>1, TwoElements
  <2>3. Cardinality(Enabled(8)) = 2
        BY <2>1, <2>2
  <2> QED BY <1>2, <2>3, SegmentIs
<1>3. CASE level = 9
  <2> DEFINE a == 3
             b == 11
  <2>1. Enabled(9) = {a, b} /\ a # b
        BY EnabledIs
  <2> HIDE DEF a, b
  <2>2. Cardinality({a, b}) = 2
        BY <2>1, TwoElements
  <2>3. Cardinality(Enabled(9)) = 2
        BY <2>1, <2>2
  <2> QED BY <1>3, <2>3, SegmentIs
<1>4. CASE level = 10
  <2> DEFINE a == 0
             b == 4
             c == 8
             d == 12
  <2>1. Enabled(10) = {a, b, c, d} /\ a # b /\ a # c /\ b # c /\ d # a /\ d # b /\ d # c
        BY EnabledIs
  <2> HIDE DEF a, b, c, d
  <2>2. Cardinality({a, b, c, d}) = 4
        BY <2>1, FourElements
  <2>3. Cardinality(Enabled(10)) = 4
        BY <2>1, <2>2
  <2> QED BY <1>4, <2>3, SegmentIs
<1>5. CASE level \in {11, 12}
  <2>1. Cardinality({n \in 0 .. 15 : n % 2 = 0}) = 8 /\ Cardinality({n \in 0 .. 15 : n % 2 = 1}) = 8
        BY HalfOfSixteen
  <2>2. Cardinality(Enabled(11)) = 8 /\ Cardinality(Enabled(12)) = 8
        BY <2>1, EnabledIs
  <2> QED BY <1>5, <2>2, SegmentIs
<1>6. CASE level = 13
  <2> DEFINE a == 16
             b == 31
  <2>1. Enabled(13) = a .. b /\ a \in Int /\ b \in Int /\ ~(a > b) /\ b - a + 1 = 16
        BY EnabledIs
  <2> HIDE DEF a, b
  <2>2. Cardinality(a .. b) = IF a > b THEN 0 ELSE b - a + 1
        BY <2>1, FS_Interval, Zenon
  <2> QED BY <1>6, <2>1, <2>2, SegmentIs
<1> QED BY <1>1, <1>2, <1>3, <1>4, <1>5, <1>6 DEF Level

\* The level below the eleventh that has a field.
Low == <<10, 0, 1, 9, 10, 8, 2, 3, 10, 4, 5, 9, 10, 8, 6, 7>>

\* Every bucket holds three levels: one of the short ones, one of the two that
\* take turns, and the highest.
LEMMA ThreeLevels ==
  ASSUME NEW i \in 0 .. 15
  PROVE  /\ Bucket(i) = {Low[i + 1], IF i % 2 = 0 THEN 11 ELSE 12, 13}
         /\ Cardinality(Bucket(i)) = 3
<1> DEFINE middle == IF i % 2 = 0 THEN 11 ELSE 12
           low == Low[i + 1]
           In(level) == \E n \in Enabled(level) : n % 16 = i
<1>1. low \in 0 .. 10
      BY DEF Low
<1>2. \A level \in 0 .. 10 : In(level) <=> i \in Enabled(level)
  <2>1. \A level \in 0 .. 10 : Enabled(level) \subseteq 0 .. 15
        BY EnabledIs
  <2>2. \A n \in 0 .. 15 : n % 16 = n
        OBVIOUS
  <2> QED BY <2>1, <2>2
<1>3. \A level \in 0 .. 10 : i \in Enabled(level) <=> level = low
  <2>1. \A level \in 0 .. 10 : i \in Enabled(level) => level = low
        BY EnabledIs DEF Low
  <2>2. i \in Enabled(low)
        BY EnabledIs DEF Low
  <2> QED BY <2>1, <2>2
<1>4. (In(11) <=> i % 2 = 0) /\ (In(12) <=> i % 2 = 1)
  <2>1. \A n \in 0 .. 15 : n % 16 = n
        OBVIOUS
  <2>2. \A level \in {11, 12} : In(level) <=> i \in Enabled(level)
        BY <2>1, EnabledIs
  <2>3. (i \in Enabled(11) <=> i % 2 = 0) /\ (i \in Enabled(12) <=> i % 2 = 1)
        BY EnabledIs
  <2> HIDE DEF In
  <2> QED BY <2>2, <2>3
<1>5. In(13)
  <2>1. 16 + i \in 16 .. 31 /\ (16 + i) % 16 = i
        OBVIOUS
  <2> QED BY <2>1, EnabledIs
<1>6. i % 2 = 0 \/ i % 2 = 1
      OBVIOUS
<1>7. Bucket(i) = {level \in Level : In(level)}
      BY DEF Bucket
<1> HIDE DEF In, low
<1>8. \A level \in Level : level \in 0 .. 10 \/ level = 11 \/ level = 12 \/ level = 13
      BY DEF Level
<1>9. 0 .. 10 \subseteq Level /\ 11 \in Level /\ 12 \in Level /\ 13 \in Level
      BY DEF Level
<1>10. Bucket(i) = {low, middle, 13}
      BY <1>1, <1>2, <1>3, <1>4, <1>5, <1>6, <1>7, <1>8, <1>9
<1>11. low # middle /\ low # 13 /\ middle # 13
      BY <1>1
<1> DEFINE top == 13
<1> HIDE DEF middle, top
<1>12. Cardinality({low, middle, top}) = 3
  <2>1. low # middle /\ low # top /\ middle # top
        BY <1>11 DEF top
  <2> QED BY <2>1, ThreeElements, Zenon
<1> QED BY <1>10, <1>12 DEF low, middle, top

\* So the table before a bucket has three slots for each bucket before it.
LEMMA BeforeIs ==
  ASSUME NEW i \in 0 .. 15 PROVE Before[i] = 3 * i
<1> DEFINE F(h) == [j \in 0 .. 15 |-> IF j = 0 THEN 0 ELSE h[j - 1] + Cardinality(Bucket(j - 1))]
           g == [j \in 0 .. 15 |-> 3 * j]
<1>1. \A j \in 0 .. 15 : j # 0 => j - 1 \in 0 .. 15 /\ Cardinality(Bucket(j - 1)) = 3
      BY ThreeLevels
<1>2. g = F(g)
      BY <1>1
<1>3. Before = F(Before)
  <2>1. Before = CHOOSE h : h = F(h)
        BY DEF Before
  <2> HIDE DEF g, F
  <2> QED BY <1>2, <2>1
<1>4. /\ Before[0] = 0
      /\ \A j \in 1 .. 15 : Before[j] = Before[j - 1] + 3
  <2> DEFINE b == Before
  <2>1. b = F(b)
        BY <1>3
  <2> HIDE DEF b
  <2>2. b[0] = 0
        BY <2>1
  <2>3. ASSUME NEW j \in 1 .. 15 PROVE b[j] = b[j - 1] + Cardinality(Bucket(j - 1))
        BY <2>1
  <2>4. \A j \in 1 .. 15 : j # 0 /\ j \in 0 .. 15
        OBVIOUS
  <2> QED BY <1>1, <2>2, <2>3, <2>4 DEF b
<1> QED BY <1>4

\* So the buckets lie one after the other, three slots each.
LEMMA BucketsLieInARow ==
  ASSUME NEW i \in 0 .. 15
  PROVE  BucketRange(i) = <<3 * i, 3 * i + 2>>
<1>1. Before[i] = 3 * i /\ Cardinality(Bucket(i)) = 3
      BY BeforeIs, ThreeLevels
<1> QED BY <1>1 DEF BucketRange

\* So the scan table is whole.
LEMMA LevelsHavePlaces ==
  ASSUME NEW rec, rec.scan \in Nat PROVE LevelsWhole(rec)
<1>1. \A i \in 0 .. 15 : Bucket(i) # {}
      BY ThreeLevels
<1>2. \A i \in 1 .. 15 : BucketRange(i)[1] = BucketRange(i - 1)[2] + 1
  <2> TAKE i \in 1 .. 15
  <2>1. BucketRange(i) = <<3 * i, 3 * i + 2>> /\ BucketRange(i - 1) = <<3 * (i - 1), 3 * (i - 1) + 2>>
        BY BucketsLieInARow
  <2> QED BY <2>1
<1>3. BucketRange(15)[2] < \hE7
      BY BucketsLieInARow
<1>4. ASSUME rec.scan <= 32, NEW i \in 0 .. 15 PROVE RangeIn(rec, i) = BucketRange(i)
  <2>1. BucketRange(i) = <<3 * i, 3 * i + 2>>
        BY BucketsLieInARow
  <2>2. \A k \in {1, 2} : ~(RangesAt + 2 * i - LineOrderAt + k - 1 < rec.scan)
        BY <1>4 DEF RangesAt, LineOrderAt
  <2>3. RangeIn(rec, i) = [k \in {1, 2} |-> BucketRange(i)[k]]
        BY <2>2 DEF RangeIn
  <2> QED BY <2>1, <2>3
<1> QED BY <1>1, <1>2, <1>3, <1>4, EnoughFields DEF LevelsWhole

-----------------------------------------------------------------------------
(* An image that is done is of a spec that was accepted.                    *)
LEMMA EveryPixelFollows == PanelInv => EveryPixelHasItsPlace
<1> SUFFICES ASSUME PanelInv, gstep = 8, gat = "build"
             PROVE  /\ PixelsApart(gspec) /\ TilesWhole(Record01(gspec)) /\ LevelsWhole(Record01(gspec))
                    /\ PackAgrees(gspec, BasicPack(gspec, Record01(gspec)))
    BY DEF EveryPixelHasItsPlace
<1>1. gspec \in Specs /\ Valid(gspec) /\ gspec.width # 0
      BY DEF PanelInv, FieldTypes, ImageSoFar, Panics
<1>2. PixelsApart(gspec)
      BY <1>1, PixelsHavePlaces
<1>3. TilesWhole(Record01(gspec)) /\ LevelsWhole(Record01(gspec))
      BY <1>1, RecordIsNumbers, TilesHavePlaces, LevelsHavePlaces
<1>4. PackAgrees(gspec, BasicPack(gspec, Record01(gspec)))
      BY <1>1, PackIsRight
<1> QED BY <1>2, <1>3, <1>4

-----------------------------------------------------------------------------
\* Type correctness of the configuration commands, for every set of specs.
THEOREM PanelTypes == GSpec => []GTypeOK
<1> QED BY PanelStarts, PanelSteps, GTypesFollow, PTL DEF GSpec

\* Every region of an image that is done is its own, the columns are past the
\* screen, the packs of a push are slices of what was placed, and a generation
\* that says ok has all its files of one spec (from_generated, send_generated
\* and gen_config), for every set of specs and any number of generations.
THEOREM TheCardGetsTheImage == GSpec => []CardGetsTheImage
<1> QED BY PanelStarts, PanelSteps, TheImageFollows, PTL DEF GSpec

\* Every pixel of an accepted spec has a place of its own on the card, the
\* module table has every tile once or is zero, the gray levels have their slots
\* in buckets that follow one another, and the pack has the screen's extent
\* (mapping.rs, module_pos.rs, scan_table.rs and basic_pack.rs), for every spec.
THEOREM EveryPixelPlaced == GSpec => []EveryPixelHasItsPlace
<1> QED BY PanelStarts, PanelSteps, EveryPixelFollows, PTL DEF GSpec

-----------------------------------------------------------------------------
(***************************************************************************)
(* Import (Rcvbp): what differs is named.  The candidates of fit_mapping    *)
(* are a sequence that is tried in order, and the one that is taken gives   *)
(* the table exactly if any of them does; an override changes the carried   *)
(* bytes and nothing else, so the file that the spec generates again        *)
(* differs where the first one did, less the bytes that were carried.       *)
(***************************************************************************)
\* A spec of which nothing is overridden yet, and that has a width.
IsPlain(s) == DOMAIN s = SpecFields /\ s.over = NoOverrides /\ s.width \in Nat \ {0}

\* The table of a spec depends on its geometry and its wiring.
LEMMA SameMap ==
  ASSUME NEW s, NEW r, r.width = s.width, r.height = s.height, r.scan = s.scan, RunOf(r) = RunOf(s),
         r.reversed_groups = s.reversed_groups, r.reversed_lines = s.reversed_lines
  PROVE  MapTable(r) = MapTable(s)
<1>1. Rows(r) = Rows(s) /\ Columns(r) = Columns(s) /\ Groups(r) = Groups(s)
      BY DEF Rows, Columns, Groups, StoredHeight
<1>2. ASSUME NEW row PROVE Line(r, row) = Line(s, row) /\ Group(r, row) = Group(s, row)
      BY <1>1 DEF Line, Group
<1>3. ASSUME NEW row, NEW col PROVE Slot(r, row, col) = Slot(s, row, col)
      BY <1>1, <1>2 DEF Slot
<1> QED BY <1>1, <1>2, <1>3 DEF MapTable

\* The fields that a mapping leaves, and those it sets.
LEMMA WithMappingIs ==
  ASSUME NEW s, DOMAIN s = SpecFields, NEW m
  PROVE  LET r == WithMapping(s, m) IN
         /\ DOMAIN r = SpecFields
         /\ r.width = s.width /\ r.height = s.height /\ r.scan = s.scan /\ r.chip = s.chip /\ r.over = s.over
         /\ r.block = m.block /\ r.reversed_groups = m.groups /\ r.reversed_lines = m.lines
BY DEF WithMapping, SpecFields

\* Clearing the block of a spec leaves its other fields.
LEMMA UnblockedIs ==
  ASSUME NEW s, DOMAIN s = SpecFields
  PROVE  LET r == [s EXCEPT !.block = 0] IN
         /\ DOMAIN r = SpecFields
         /\ r.width = s.width /\ r.height = s.height /\ r.scan = s.scan /\ r.chip = s.chip /\ r.over = s.over
         /\ r.block = 0 /\ r.reversed_groups = s.reversed_groups /\ r.reversed_lines = s.reversed_lines
BY DEF SpecFields

\* There is something to try.
LEMMA CandidatesAre ==
  ASSUME NEW w \in Nat \ {0}
  PROVE  LET all == Candidates(w) IN
         /\ Len(all) \in Nat \ {0} /\ DOMAIN all = 1 .. Len(all) /\ all # <<>>
<1> DEFINE n == 4 * Cardinality(RunsOf(w))
<1>1. IsFiniteSet(RunsOf(w)) /\ RunsOf(w) # {}
  <2> DEFINE top == 3
  <2>1. RunsOf(w) \subseteq 0 .. top /\ top \in Int
        BY DEF RunsOf
  <2> HIDE DEF top
  <2>3. IsFiniteSet(0 .. top)
        BY <2>1, FS_Interval
  <2>2. 0 \in RunsOf(w)
        BY DEF RunsOf
  <2> QED BY <2>1, <2>2, <2>3, FS_Subset
<1>2. Cardinality(RunsOf(w)) \in Nat /\ Cardinality(RunsOf(w)) # 0
      BY <1>1, FS_CardinalityType, FS_EmptySet
<1>3. n \in Nat \ {0}
      BY <1>2
<1> DEFINE all == Candidates(w)
<1>4. DOMAIN all = 1 .. n /\ all = [i \in 1 .. n |-> all[i]]
      BY DEF Candidates
<1> HIDE DEF n, all
<1>5. Len(all) = n /\ all # <<>>
      BY <1>3, <1>4
<1> QED BY <1>3, <1>4, <1>5 DEF all

\* What the specs that differ in their wiring only have in common.
SameButMapping(s, r) ==
  /\ DOMAIN r = SpecFields
  /\ r.width = s.width /\ r.height = s.height /\ r.scan = s.scan /\ r.chip = s.chip /\ r.over = s.over

\* The fit has the table exactly if one of the candidates has.
LEMMA FitIsRight ==
  ASSUME NEW s, IsPlain(s), NEW table
  PROVE  LET fit == FitMapping(s, table) IN
         SameButMapping(s, fit) /\ (MapTable(fit) = table <=> Fits(s, table))
<1> DEFINE all == Candidates(s.width)
           fits == Fitting(s, table)
           m == all[IF Fits(s, table) THEN Min(fits) ELSE Len(all)]
           tried == WithMapping(s, m)
           open == [tried EXCEPT !.block = 0]
           fit == FitMapping(s, table)
<1>1. /\ Len(all) \in Nat \ {0} /\ DOMAIN all = 1 .. Len(all) /\ all # <<>>
      BY CandidatesAre DEF IsPlain
<1>2. fit = IF Fits(s, table) /\ m.block = s.width THEN open ELSE tried
      BY <1>1 DEF FitMapping
<1>3. /\ SameButMapping(s, tried) /\ tried.block = m.block /\ tried.reversed_groups = m.groups
      /\ tried.reversed_lines = m.lines
  <2>1. DOMAIN s = SpecFields
        BY DEF IsPlain
  <2> HIDE DEF m
  <2> QED BY <2>1, WithMappingIs, ZenonT(30) DEF SameButMapping
<1>4. MapTable(tried) = table <=> Fits(s, table)
  <2>1. \A i \in DOMAIN all : i \in fits <=> MapTable(WithMapping(s, all[i])) = table
        BY DEF Fitting
  <2>2. CASE Fits(s, table)
    <3>1. fits # {} /\ fits \subseteq Nat
          BY <1>1, <2>2 DEF Fits, Fitting
    <3>2. Min(fits) \in fits
          BY <3>1, LeastNatural
    <3>3. fits \subseteq DOMAIN all /\ m = all[Min(fits)]
          BY <2>2 DEF Fitting
    <3> QED BY <2>1, <2>2, <3>2, <3>3
  <2>3. CASE ~Fits(s, table)
    <3>1. fits = {} /\ m = all[Len(all)] /\ Len(all) \in DOMAIN all
          BY <1>1, <2>3 DEF Fits
    <3> QED BY <2>1, <2>3, <3>1
  <2> QED BY <2>2, <2>3
<1> HIDE DEF all, fits, m, tried, fit
<1>5. CASE ~(Fits(s, table) /\ m.block = s.width)
      BY <1>2, <1>3, <1>4, <1>5 DEF fit
<1>6. CASE Fits(s, table) /\ m.block = s.width
  <2>1. /\ SameButMapping(s, open) /\ open.block = 0 /\ open.reversed_groups = tried.reversed_groups
        /\ open.reversed_lines = tried.reversed_lines
        BY <1>3, UnblockedIs DEF SameButMapping
  <2> HIDE DEF open
  <2>2. RunOf(open) = s.width
        BY <2>1 DEF RunOf, SameButMapping
  <2>3. RunOf(tried) = s.width
    <3>1. tried.block = s.width /\ tried.width = s.width /\ s.width \in Nat \ {0}
          BY <1>3, <1>6 DEF SameButMapping, IsPlain
    <3>2. Min({s.width, s.width}) = s.width
          BY <3>1, MinOfTwo
    <3> QED BY <3>1, <3>2 DEF RunOf
  <2>4. MapTable(open) = MapTable(tried)
        BY <1>3, <2>1, <2>2, <2>3, SameMap DEF SameButMapping
  <2> QED BY <1>2, <1>4, <1>6, <2>1, <2>4 DEF fit
<1> QED BY <1>5, <1>6

\* An override of carried bytes changes those and nothing else.
LEMMA OverriddenIs ==
  ASSUME NEW s, DOMAIN s = SpecFields, s.over = NoOverrides, NEW off, off \subseteq Carried, NEW v
  PROVE  LET r == [s EXCEPT !.over = [f \in off |-> v[f]]] IN
         /\ \A f \in DOMAIN Own(s) : Record01(r)[f] = IF f \in off THEN v[f] ELSE Record01(s)[f]
         /\ DOMAIN Own(r) = DOMAIN Own(s) /\ r.chip = s.chip /\ r.scan = s.scan
         /\ r.width = s.width /\ r.height = s.height /\ MapTable(r) = MapTable(s)
<1> DEFINE o == [f \in off |-> v[f]]
           r == [s EXCEPT !.over = o]
<1>1. DOMAIN o = off /\ \A f \in off : o[f] = v[f]
      OBVIOUS
<1> HIDE DEF o
<1>2. /\ r.over = o /\ \A f \in SpecFields \ {"over"} : r[f] = s[f]
      OBVIOUS
<1> HIDE DEF r
<1>3. /\ r.width = s.width /\ r.height = s.height /\ r.scan = s.scan /\ r.line_dir = s.line_dir
      /\ r.sw = s.sw /\ r.sh = s.sh /\ r.block = s.block /\ r.reversed_groups = s.reversed_groups
      /\ r.reversed_lines = s.reversed_lines /\ r.chip = s.chip /\ r.min_oe = s.min_oe /\ r.sck = s.sck
      /\ r.chip_over = s.chip_over
      BY <1>2 DEF SpecFields
<1>4. Own(r) = Own(s)
      BY <1>3 DEF Own, StoredHeight
<1>5. MapTable(r) = MapTable(s)
  <2>1. RunOf(r) = RunOf(s)
        BY <1>3 DEF RunOf
  <2> QED BY <1>3, <2>1, SameMap
<1>6. ASSUME NEW f \in DOMAIN Own(s)
      PROVE  Record01(r)[f] = IF f \in off THEN v[f] ELSE Record01(s)[f]
  <2> DEFINE base == IF f \in DOMAIN s.chip_over THEN s.chip_over[f] ELSE Own(s)[f]
  <2>1. Record01(r)[f] = IF f \in DOMAIN r.over THEN r.over[f] ELSE base
        BY <1>3, <1>4 DEF Record01
  <2>2. Record01(s)[f] = base
        BY DEF Record01, NoOverrides
  <2> HIDE DEF base
  <2> QED BY <1>1, <1>2, <2>1, <2>2
<1> QED BY <1>3, <1>4, <1>5, <1>6 DEF r, o

\* The spec of a file's record 0x01.
LEMMA SpecOfIs ==
  ASSUME NEW file
  PROVE  LET s == SpecOf(file) IN
         /\ DOMAIN s = SpecFields /\ s.over = NoOverrides
         /\ s.width = file.main.module_w /\ s.chip = file.main.chip
BY DEF SpecOf, SpecFields

\* What import says is what differs.
LEMMA ImportIsHonest ==
  ASSUME NEW file, file.main.module_w \in Nat, ~ImportPanics(file), Imported(file).generated
  PROVE  LET got == Imported(file)
             again == Generate1(got.spec) IN
         /\ got.named \ {"mapping"} =
              {f \in DOMAIN again.main : again.main[f] # file.main[f]}
              \cup {r \in DOMAIN again \ {"main"} : again[r] # file[r]}
         /\ "mapping" \in got.named <=> "map" \in got.named
<1> DEFINE plain == SpecOf(file)
           fitted == IF Valid(plain) THEN FitMapping(plain, file.map) ELSE plain
           lost == IF ~Valid(plain) THEN {"module", "mapping", "over"}
                   ELSE (IF Fits(plain, file.map) THEN {} ELSE {"mapping"})
                        \cup (IF file.main.chip \notin DOMAIN Library THEN {"library", "over"}
                              ELSE IF ChipFails(fitted) THEN {"over"} ELSE {})
           spec == Reconciled(fitted, file)
           named == lost \cup Named(fitted, file)
           got == Imported(file)
<1>1. got = IF lost \subseteq {"mapping"} THEN [spec |-> spec, named |-> named, generated |-> TRUE]
            ELSE [spec |-> fitted, named |-> lost, generated |-> FALSE]
      BY DEF Imported
<1>2. lost \subseteq {"mapping"} /\ got.spec = spec /\ got.named = named
  <2> HIDE DEF lost, spec, named, fitted, got
  <2>1. got.generated
        BY DEF got
  <2> QED BY <1>1, <2>1
<1>3. /\ Valid(plain) /\ file.main.chip \in DOMAIN Library
      /\ lost = IF Fits(plain, file.map) THEN {} ELSE {"mapping"}
  <2>1. Valid(plain)
        BY <1>2
  <2>2. file.main.chip \in DOMAIN Library
        BY <1>2, <2>1
  <2>3. "over" \notin lost
        BY <1>2
  <2>4. ~ChipFails(fitted)
        BY <2>1, <2>2, <2>3
  <2> QED BY <2>1, <2>2, <2>4
<1>4. IsPlain(plain)
  <2>1. ~Panics(plain)
        BY <1>3 DEF ImportPanics
  <2> QED BY <2>1, SpecOfIs DEF IsPlain, Panics
<1>5. /\ SameButMapping(plain, fitted) /\ (MapTable(fitted) = file.map <=> Fits(plain, file.map))
  <2>1. fitted = FitMapping(plain, file.map)
        BY <1>3
  <2> HIDE DEF fitted, plain
  <2> QED BY <1>4, <2>1, FitIsRight
<1>6. "mapping" \in lost <=> MapTable(fitted) # file.map
      BY <1>3, <1>5
<1> HIDE DEF plain, lost, fitted
<1> DEFINE ours == Generate1(fitted)
           again == Generate1(spec)
           off == {f \in Carried : ours.main[f] # file.main[f]}
<1>7. /\ DOMAIN fitted = SpecFields /\ fitted.over = NoOverrides
      /\ spec = [fitted EXCEPT !.over = [f \in off |-> file.main[f]]]
      BY <1>4, <1>5 DEF SameButMapping, IsPlain, Reconciled
<1>8. /\ ours.main = [f \in DOMAIN Own(fitted) \cup {"chip"} |-> IF f = "chip" THEN fitted.chip ELSE Record01(fitted)[f]]
      /\ ours.map = MapTable(fitted) /\ ours.geometry = <<fitted.width, StoredHeight(fitted)>>
      /\ ours.constant = 0 /\ ours.regs = IF HasRegisters(fitted) THEN <<fitted.scan - 1>> ELSE <<>>
      BY DEF Generate1
<1>9. /\ again.main = [f \in DOMAIN Own(spec) \cup {"chip"} |-> IF f = "chip" THEN spec.chip ELSE Record01(spec)[f]]
      /\ again.map = MapTable(spec) /\ again.geometry = <<spec.width, StoredHeight(spec)>>
      /\ again.constant = 0 /\ again.regs = IF HasRegisters(spec) THEN <<spec.scan - 1>> ELSE <<>>
      /\ DOMAIN again = {"main", "map", "regs", "geometry", "constant"}
      BY DEF Generate1
<1>10. Named(fitted, file) =
         {f \in DOMAIN ours.main \ Carried : ours.main[f] # file.main[f]}
         \cup {r \in {"map", "regs", "geometry", "constant"} : ours[r] # file[r]}
      BY DEF Named
<1> HIDE DEF ours, again
<1>11. off \subseteq Carried
      OBVIOUS
<1> HIDE DEF off, spec
<1>12. /\ \A f \in DOMAIN Own(fitted) : Record01(spec)[f] = IF f \in off THEN file.main[f] ELSE Record01(fitted)[f]
       /\ DOMAIN Own(spec) = DOMAIN Own(fitted) /\ spec.chip = fitted.chip /\ spec.scan = fitted.scan
       /\ spec.width = fitted.width /\ spec.height = fitted.height /\ MapTable(spec) = MapTable(fitted)
      BY <1>7, <1>11, OverriddenIs
<1>13. again.map = ours.map /\ again.regs = ours.regs /\ again.geometry = ours.geometry /\ again.constant = ours.constant
      BY <1>8, <1>9, <1>12 DEF HasRegisters, StoredHeight
<1>14. /\ DOMAIN ours.main = DOMAIN Own(fitted) \cup {"chip"} /\ DOMAIN again.main = DOMAIN ours.main
       /\ \A f \in DOMAIN ours.main : again.main[f] = IF f \in off THEN file.main[f] ELSE ours.main[f]
  <2>1. "chip" \notin Carried /\ "chip" \notin DOMAIN Own(fitted)
        BY DEF Carried, Own
  <2> QED BY <1>8, <1>9, <1>11, <1>12, <2>1
<1>15. {f \in DOMAIN again.main : again.main[f] # file.main[f]}
         = {f \in DOMAIN ours.main \ Carried : ours.main[f] # file.main[f]}
  <2>1. \A f \in Carried : f \in off <=> ours.main[f] # file.main[f]
        BY DEF off
  <2> QED BY <1>11, <1>14, <2>1
<1>16. {r \in DOMAIN again \ {"main"} : again[r] # file[r]}
         = {r \in {"map", "regs", "geometry", "constant"} : ours[r] # file[r]}
  <2>1. DOMAIN again \ {"main"} = {"map", "regs", "geometry", "constant"}
        BY <1>9
  <2>2. \A r \in {"map", "regs", "geometry", "constant"} : again[r] = ours[r]
        BY <1>13
  <2> QED BY <2>1, <2>2
<1>17. "mapping" \notin Named(fitted, file) /\ ("map" \in Named(fitted, file) <=> ours.map # file.map)
  <2>1. "mapping" \notin DOMAIN ours.main /\ "map" \notin DOMAIN ours.main
        BY <1>14 DEF Own
  <2> QED BY <1>10, <2>1
<1>18. lost \subseteq {"mapping"} /\ named = lost \cup Named(fitted, file)
      BY <1>2
<1> HIDE DEF named
<1>19. named \ {"mapping"} = Named(fitted, file)
      BY <1>17, <1>18
<1>20. "mapping" \in named <=> "map" \in named
      BY <1>6, <1>8, <1>17, <1>18
<1> QED BY <1>2, <1>10, <1>15, <1>16, <1>19, <1>20 DEF again

\* `config build` and `config import`, as the flash run composes them.
FileSpec == FileInit /\ [][FileNext]_filevars

\* What has been imported is the file that was given, and its width a number.
ImportInv ==
  /\ bat \in {"import", "imported"} => bin.main.module_w \in Nat
  /\ bat = "imported" => ~ImportPanics(bin) /\ bspec = Imported(bin)

\* The width of a file's module is a number, in those of other tools too.
LEMMA WidthIsNumber ==
  ASSUME NEW file \in ImportFiles PROVE file.main.module_w \in Nat
<1>1. PICK s \in Sources : file \in FilesOf(s)
      BY DEF ImportFiles
<1> DEFINE own == Generate1(s)
           main == [f \in DOMAIN Own(s) \cup {"chip"} |-> IF f = "chip" THEN s.chip ELSE Record01(s)[f]]
<1>2. own.main = main /\ "main" \in DOMAIN own
      BY DEF Generate1
<1>3. "module_w" \in DOMAIN main /\ main["module_w"] = Record01(s)["module_w"] /\ DOMAIN main = DOMAIN Own(s) \cup {"chip"}
      BY DEF Own
<1>4. Record01(s)["module_w"] \in Nat
  <2>1. PanelSpec(s)
        BY SourcesAssumption
  <2>2. Own(s)["module_w"] \in Nat /\ "module_w" \in DOMAIN Own(s)
        BY <2>1 DEF Own, PanelSpec, FitsIn
  <2> QED BY <2>1, <2>2, FieldIsNumber
<1> HIDE DEF main
<1>5. own.main.module_w \in Nat /\ "module_w" \in DOMAIN own.main
      BY <1>2, <1>3, <1>4
<1> HIDE DEF own
<1>6. \/ file = own
      \/ \E v : file = [own EXCEPT !.regs = v]
      \/ file = [own EXCEPT !.main.grid_w = 32, !.main.x02f = 1]
      \/ file = [own EXCEPT !.main.x043 = 1, !.geometry = <<1, 1>>]
      \/ file = [own EXCEPT !.map[<<0, 0>>] = <<0, 0>>, !.constant = 1]
      \/ \E v : file = [own EXCEPT !.main.chip = v]
      \/ file = [own EXCEPT !.main.module_w = 0, !.main.max_w = 0]
      BY <1>1 DEF FilesOf, own
<1>7. CASE file = own
      BY <1>5, <1>7
<1>8. CASE \E v : file = [own EXCEPT !.regs = v]
      BY <1>2, <1>5, <1>8
<1>9. CASE file = [own EXCEPT !.main.grid_w = 32, !.main.x02f = 1]
      BY <1>2, <1>5, <1>9
<1>10. CASE file = [own EXCEPT !.main.x043 = 1, !.geometry = <<1, 1>>]
      BY <1>2, <1>5, <1>10
<1>11. CASE file = [own EXCEPT !.map[<<0, 0>>] = <<0, 0>>, !.constant = 1]
      BY <1>2, <1>5, <1>11
<1>12. CASE \E v : file = [own EXCEPT !.main.chip = v]
      BY <1>2, <1>5, <1>12
<1>13. CASE file = [own EXCEPT !.main.module_w = 0, !.main.max_w = 0]
      BY <1>2, <1>5, <1>13
<1> QED BY <1>6, <1>7, <1>8, <1>9, <1>10, <1>11, <1>12, <1>13

\* No file has been imported at the start.
LEMMA FilesStart == FileInit => ImportInv
BY WidthIsNumber DEF FileInit, ImportInv

\* Import reads its file as it is, and no other step comes to the end of one.
LEMMA FilesStep == ImportInv /\ [FileNext]_filevars => ImportInv'
<1> SUFFICES ASSUME ImportInv, [FileNext]_filevars PROVE ImportInv'
    OBVIOUS
<1>1. CASE Import
      BY <1>1 DEF Import, ImportInv, BGoes, bfixed
<1>2. CASE UNCHANGED filevars
      BY <1>2 DEF ImportInv, filevars, ImportPanics
<1>3. CASE bat' \notin {"import", "imported"}
      BY <1>3 DEF ImportInv
<1>4. CASE LoadBase \/ LoadSource \/ CopyRecord \/ Copied \/ RemoveRecord \/ Save \/ ReadBack
  <2>1. bat' \notin {"import", "imported"}
        BY <1>4 DEF LoadBase, LoadSource, CopyRecord, Copied, RemoveRecord, Save, ReadBack, BGoes
  <2> QED BY <1>3, <2>1
<1> QED BY <1>1, <1>2, <1>4 DEF FileNext

\* What the invariant says of an imported file is the property.
LEMMA ImportFollows == ImportInv => ImportNamesTheRest
BY ImportIsHonest DEF ImportInv, ImportNamesTheRest

\* Import names every record, and every byte of record 0x01, in which the file
\* regenerated from its spec differs from the one that was read, and no other
\* ("reported by name rather than guessed", spec/import.rs), for every set of
\* specs and every chip library.
THEOREM ImportNamesWhatDiffers == FileSpec => []ImportNamesTheRest
<1> QED BY FilesStart, FilesStep, ImportFollows, PTL DEF FileSpec

-----------------------------------------------------------------------------
(* Lists of records: what a composition copies, removes and replaces.        *)
Records == [type : Nat, payload : Seq(Nat)]

\* What holds of 0 and of a number's successor holds of every number.
LEMMA SetInduction ==
  ASSUME NEW T, 0 \in T, \A n \in Nat : n \in T => n + 1 \in T
  PROVE  Nat \subseteq T
<1> DEFINE C == {n \in Nat : n \notin T}
<1> SUFFICES ASSUME C # {} PROVE FALSE
    OBVIOUS
<1>1. Min(C) \in C /\ \A y \in C : Min(C) <= y
      BY LeastNatural
<1> DEFINE m == Min(C)
<1>2. m \in Nat /\ m \notin T /\ m # 0
      BY <1>1
<1> HIDE DEF m
<1>3. m - 1 \in Nat /\ m - 1 \in T
  <2>1. m - 1 \in Nat /\ ~(m <= m - 1)
        BY <1>2
  <2>2. m - 1 \notin C
        BY <1>1, <2>1 DEF m
  <2> QED BY <2>1, <2>2
<1>4. (m - 1) + 1 \in T
      BY <1>3
<1> QED BY <1>2, <1>4

\* What holds of the empty list and of a list with one more element holds of
\* every list.
LEMMA ListInduction ==
  ASSUME NEW R, NEW T, <<>> \in T, \A l \in Seq(R), e \in R : l \in T => Append(l, e) \in T
  PROVE  Seq(R) \subseteq T
<1> DEFINE N == {n \in Nat : \A l \in Seq(R) : Len(l) = n => l \in T}
<1>1. 0 \in N
      BY EmptySeq
<1>2. ASSUME NEW n \in Nat, n \in N PROVE n + 1 \in N
  <2> SUFFICES ASSUME NEW l \in Seq(R), Len(l) = n + 1 PROVE l \in T
      BY <1>2
  <2> DEFINE f == SubSeq(l, 1, n)
  <2>1. f \in Seq(R) /\ Len(f) = n /\ l[n + 1] \in R
        BY ElementOfSeq, SubSeqProperties
  <2>2. l = Append(f, l[n + 1])
        BY <2>1, AppendProperties, SeqEqual
  <2> QED BY <1>2, <2>1, <2>2
<1>3. Nat \subseteq N
  <2> HIDE DEF N
  <2> QED BY <1>1, <1>2, SetInduction
<1> QED BY <1>3

\* Functions with the same values are the same.
LEMMA SameFunction ==
  ASSUME NEW D, NEW e, NEW f, e = [n \in D |-> e[n]], f = [n \in D |-> f[n]], \A n \in D : e[n] = f[n]
  PROVE  e = f
OBVIOUS

\* A function may be defined step by step, each value from the one before.
Stepwise(lo, hi, V, a, F) ==
  \E f \in [lo .. hi -> V] : \A n \in lo .. hi : f[n] = IF n = lo THEN a ELSE F[<<n, f[n - 1]>>]

\* There is one, from any first value and any step that stays among the values.
LEMMA StepByStep ==
  ASSUME NEW lo \in Int, NEW hi \in Int, lo <= hi, NEW V, NEW a \in V, NEW F,
         \A n \in lo + 1 .. hi, v \in V : F[<<n, v>>] \in V
  PROVE  Stepwise(lo, hi, V, a, F)
<1> DEFINE T == {d \in Nat : lo + d <= hi =>
                   \E f \in [lo .. lo + d -> V] :
                     \A n \in lo .. lo + d : f[n] = IF n = lo THEN a ELSE F[<<n, f[n - 1]>>]}
<1>1. 0 \in T
  <2> DEFINE f == [n \in lo .. lo + 0 |-> a]
  <2>1. f \in [lo .. lo + 0 -> V] /\ \A n \in lo .. lo + 0 : f[n] = IF n = lo THEN a ELSE F[<<n, f[n - 1]>>]
        OBVIOUS
  <2> HIDE DEF f
  <2> QED BY <2>1
<1>2. ASSUME NEW d \in Nat, d \in T PROVE d + 1 \in T
  <2> SUFFICES ASSUME lo + (d + 1) <= hi
               PROVE  \E f \in [lo .. lo + (d + 1) -> V] :
                        \A n \in lo .. lo + (d + 1) : f[n] = IF n = lo THEN a ELSE F[<<n, f[n - 1]>>]
      OBVIOUS
  <2>1. PICK f \in [lo .. lo + d -> V] : \A n \in lo .. lo + d : f[n] = IF n = lo THEN a ELSE F[<<n, f[n - 1]>>]
        BY <1>2
  <2> DEFINE m == lo + d + 1
             g == [n \in lo .. m |-> IF n = m THEN F[<<m, f[m - 1]>>] ELSE f[n]]
  <2>2. m \in lo + 1 .. hi /\ m - 1 \in lo .. lo + d /\ f[m - 1] \in V /\ m = lo + (d + 1)
        BY <2>1
  <2>3. F[<<m, f[m - 1]>>] \in V
        BY <2>2
  <2>4. g \in [lo .. m -> V]
        BY <2>1, <2>2, <2>3
  <2>5. ASSUME NEW n \in lo .. m PROVE g[n] = IF n = lo THEN a ELSE F[<<n, g[n - 1]>>]
    <3>1. CASE n = m
      <4>1. g[m] = F[<<m, f[m - 1]>>] /\ g[m - 1] = f[m - 1] /\ m # lo
            BY <2>2
      <4> QED BY <3>1, <4>1
    <3>2. CASE n # m
      <4>1. n \in lo .. lo + d /\ g[n] = f[n] /\ (n # lo => g[n - 1] = f[n - 1])
            BY <2>2, <3>2, SMTT(30)
      <4> QED BY <2>1, <4>1
    <3> QED BY <3>1, <3>2
  <2> HIDE DEF g, m
  <2> QED BY <2>2, <2>4, <2>5
<1>3. Nat \subseteq T
  <2> HIDE DEF T
  <2> QED BY <1>1, <1>2, SetInduction
<1> DEFINE d == hi - lo
<1>4. d \in Nat /\ lo + d = hi
      OBVIOUS
<1> HIDE DEF d, T
<1>5. d \in T /\ lo + d <= hi
      BY <1>3, <1>4
<1>6. lo + d = hi /\ \E f \in [lo .. lo + d -> V] : \A n \in lo .. lo + d : f[n] = IF n = lo THEN a ELSE F[<<n, f[n - 1]>>]
      BY <1>4, <1>5 DEF T
<1> QED BY <1>6 DEF Stepwise

-----------------------------------------------------------------------------
(* The records of some types.                                               *)

\* k holds what is kept of the first n elements, for every n.
IsKept(k, l, S) ==
  /\ k \in [0 .. Len(l) -> Seq(Records)]
  /\ k[0] = <<>> /\ Kept(l, S) = k[Len(l)]
  /\ \A n \in 1 .. Len(l) : k[n] = IF l[n].type \in S THEN Append(k[n - 1], l[n]) ELSE k[n - 1]

\* Kept, by its equations.
LEMMA KeptIs ==
  ASSUME NEW l \in Seq(Records), NEW S
  PROVE  \E k : IsKept(k, l, S)
<1> DEFINE N == Len(l)
           V == Seq(Records)
           F == [p \in (1 .. N) \X V |-> IF l[p[1]].type \in S THEN Append(p[2], l[p[1]]) ELSE p[2]]
           Is(k) == k = [n \in 0 .. N |->
                      IF n = 0 THEN <<>> ELSE IF l[n].type \in S THEN Append(k[n - 1], l[n]) ELSE k[n - 1]]
           k == CHOOSE k : Is(k)
<1>1. N \in Nat /\ <<>> \in V /\ \A n \in 1 .. N : l[n] \in Records
      BY EmptySeq, LenProperties, ElementOfSeq
<1> HIDE DEF N
<1>2. \A n \in 1 .. N, v \in V : F[<<n, v>>] = IF l[n].type \in S THEN Append(v, l[n]) ELSE v
      OBVIOUS
<1>3. \A n \in 1 .. N, v \in V : F[<<n, v>>] \in V
      BY <1>1, <1>2, AppendProperties
<1> HIDE DEF F, V
<1>4. PICK f \in [0 .. N -> V] : \A n \in 0 .. N : f[n] = IF n = 0 THEN <<>> ELSE F[<<n, f[n - 1]>>]
  <2>1. 0 \in Int /\ N \in Int /\ 0 <= N /\ \A n \in 0 + 1 .. N, v \in V : F[<<n, v>>] \in V
        BY <1>1, <1>3
  <2> QED
    <3>1. Stepwise(0, N, V, <<>>, F)
          BY <1>1, <2>1, StepByStep
    <3> QED BY <3>1 DEF Stepwise
<1>5. Is(f)
  <2>1. ASSUME NEW n \in 0 .. N, n # 0
        PROVE  F[<<n, f[n - 1]>>] = IF l[n].type \in S THEN Append(f[n - 1], l[n]) ELSE f[n - 1]
    <3>1. n \in 1 .. N /\ f[n - 1] \in V
          BY <1>1, <1>4, <2>1
    <3> QED BY <1>2, <3>1
  <2>2. \A n \in 0 .. N :
          f[n] = IF n = 0 THEN <<>> ELSE IF l[n].type \in S THEN Append(f[n - 1], l[n]) ELSE f[n - 1]
        BY <1>4, <2>1
  <2> DEFINE e == [n \in 0 .. N |-> IF n = 0 THEN <<>> ELSE IF l[n].type \in S THEN Append(f[n - 1], l[n]) ELSE f[n - 1]]
  <2>3. DOMAIN e = 0 .. N /\ \A n \in 0 .. N : e[n] = f[n]
        BY <2>2
  <2>4. e = [n \in 0 .. N |-> e[n]] /\ f = [n \in 0 .. N |-> f[n]]
        BY <1>4
  <2> HIDE DEF e
  <2>5. e = f
        BY <2>3, <2>4, SameFunction, Zenon
  <2> QED BY <2>5, Zenon DEF e
<1>6. Is(k)
      BY <1>5, Zenon
<1>7. Kept(l, S) = k[N]
      BY DEF Kept, N
<1> HIDE DEF k
<1>8. k[0] = <<>> /\ \A n \in 1 .. N : k[n] = IF l[n].type \in S THEN Append(k[n - 1], l[n]) ELSE k[n - 1]
  <2>1. ASSUME NEW n \in 0 .. N
        PROVE  k[n] = IF n = 0 THEN <<>> ELSE IF l[n].type \in S THEN Append(k[n - 1], l[n]) ELSE k[n - 1]
        BY <1>6, Zenon
  <2> QED BY <1>1, <2>1
<1>9. \A n \in 0 .. N : k[n] \in V
  <2> DEFINE T == {n \in Nat : n <= N => k[n] \in V}
  <2>1. 0 \in T
        BY <1>1, <1>8
  <2>2. ASSUME NEW n \in Nat, n \in T PROVE n + 1 \in T
    <3> SUFFICES ASSUME n + 1 <= N PROVE k[n + 1] \in V
        OBVIOUS
    <3>1. k[n] \in V /\ n + 1 \in 1 .. N /\ (n + 1) - 1 = n
          BY <1>1, <2>2
    <3>2. k[n + 1] = IF l[n + 1].type \in S THEN Append(k[n], l[n + 1]) ELSE k[n]
          BY <1>8, <3>1
    <3> QED BY <1>1, <3>1, <3>2, AppendProperties DEF V
  <2> HIDE DEF T
  <2>3. Nat \subseteq T
        BY <2>1, <2>2, SetInduction
  <2> QED BY <1>1, <2>3 DEF T
<1>10. k \in [0 .. N -> V]
      BY <1>6, <1>9
<1>11. IsKept(k, l, S)
      BY <1>7, <1>8, <1>10 DEF N, V, IsKept
<1> QED BY <1>11

\* Of the empty list nothing is kept.
LEMMA KeptOfNone ==
  ASSUME NEW S PROVE Kept(<<>>, S) = <<>>
<1>1. <<>> \in Seq(Records) /\ Len(<<>>) = 0
      BY EmptySeq
<1>2. PICK k : IsKept(k, <<>>, S)
      BY <1>1, KeptIs
<1> QED BY <1>1, <1>2 DEF IsKept

\* An element at the end is kept or not, whatever comes before it.
LEMMA KeptOfMore ==
  ASSUME NEW l \in Seq(Records), NEW e \in Records, NEW S
  PROVE  /\ Kept(l, S) \in Seq(Records)
         /\ Kept(Append(l, e), S) = IF e.type \in S THEN Append(Kept(l, S), e) ELSE Kept(l, S)
<1> DEFINE m == Append(l, e)
           N == Len(l)
<1>1. N \in Nat /\ m \in Seq(Records) /\ Len(m) = N + 1 /\ m[N + 1] = e /\ \A i \in 1 .. N : m[i] = l[i]
      BY LenProperties, AppendProperties
<1> HIDE DEF m
<1>0. PICK k, h : IsKept(k, l, S) /\ IsKept(h, m, S)
      BY <1>1, KeptIs
<1>2. /\ k \in [0 .. N -> Seq(Records)] /\ k[0] = <<>> /\ Kept(l, S) = k[N]
      /\ \A n \in 1 .. N : k[n] = IF l[n].type \in S THEN Append(k[n - 1], l[n]) ELSE k[n - 1]
      BY <1>0 DEF IsKept
<1>3. /\ h \in [0 .. N + 1 -> Seq(Records)] /\ h[0] = <<>> /\ Kept(m, S) = h[N + 1]
      /\ \A n \in 1 .. N + 1 : h[n] = IF m[n].type \in S THEN Append(h[n - 1], m[n]) ELSE h[n - 1]
      BY <1>0, <1>1 DEF IsKept
<1> HIDE DEF N
<1> DEFINE T == {n \in Nat : n <= N => h[n] = k[n]}
<1>4. 0 \in T
      BY <1>2, <1>3
<1>5. ASSUME NEW n \in Nat, n \in T PROVE n + 1 \in T
  <2> SUFFICES ASSUME n + 1 <= N PROVE h[n + 1] = k[n + 1]
      OBVIOUS
  <2>1. n + 1 \in 1 .. N /\ n + 1 \in 1 .. N + 1 /\ (n + 1) - 1 = n /\ h[n] = k[n]
        BY <1>1, <1>5
  <2>2. k[n + 1] = IF l[n + 1].type \in S THEN Append(k[n], l[n + 1]) ELSE k[n]
        BY <1>2, <2>1
  <2>3. h[n + 1] = IF m[n + 1].type \in S THEN Append(h[n], m[n + 1]) ELSE h[n]
        BY <1>3, <2>1
  <2> QED BY <1>1, <2>1, <2>2, <2>3
<1>6. Nat \subseteq T
  <2> HIDE DEF T
  <2> QED BY <1>4, <1>5, SetInduction
<1>7. h[N] = k[N] /\ k[N] \in Seq(Records)
      BY <1>1, <1>2, <1>6
<1>8. h[N + 1] = IF e.type \in S THEN Append(h[N], e) ELSE h[N]
  <2>1. N + 1 \in 1 .. N + 1 /\ (N + 1) - 1 = N
        BY <1>1
  <2> QED BY <1>1, <1>3, <2>1
<1> QED BY <1>2, <1>3, <1>7, <1>8 DEF m

\* Records of some types of the records of others are those of both.
LEMMA KeptOfKept ==
  ASSUME NEW A, NEW B, NEW l \in Seq(Records)
  PROVE  Kept(Kept(l, A), B) = Kept(l, A \cap B)
<1> DEFINE T == {x \in Seq(Records) : Kept(Kept(x, A), B) = Kept(x, A \cap B)}
<1>1. <<>> \in T
      BY EmptySeq, KeptOfNone
<1>2. ASSUME NEW x \in Seq(Records), NEW e \in Records, x \in T PROVE Append(x, e) \in T
  <2>1. Append(x, e) \in Seq(Records)
        BY AppendProperties
  <2>2. /\ Kept(x, A) \in Seq(Records)
        /\ Kept(Append(x, e), A) = IF e.type \in A THEN Append(Kept(x, A), e) ELSE Kept(x, A)
        BY KeptOfMore
  <2>3. Kept(Append(x, e), A \cap B) = IF e.type \in A \cap B THEN Append(Kept(x, A \cap B), e) ELSE Kept(x, A \cap B)
        BY KeptOfMore
  <2>4. Kept(Append(Kept(x, A), e), B)
          = IF e.type \in B THEN Append(Kept(Kept(x, A), B), e) ELSE Kept(Kept(x, A), B)
        BY <2>2, KeptOfMore
  <2>5. Kept(Kept(x, A), B) = Kept(x, A \cap B)
        BY <1>2
  <2>6. Kept(Kept(Append(x, e), A), B) = Kept(Append(x, e), A \cap B)
    <3>1. CASE e.type \in A /\ e.type \in B
          BY <2>2, <2>3, <2>4, <2>5, <3>1
    <3>2. CASE e.type \in A /\ e.type \notin B
          BY <2>2, <2>3, <2>4, <2>5, <3>2
    <3>3. CASE e.type \notin A
          BY <2>2, <2>3, <2>5, <3>3
    <3> QED BY <3>1, <3>2, <3>3
  <2> QED BY <2>1, <2>6
<1>3. Seq(Records) \subseteq T
  <2> HIDE DEF T
  <2> QED BY <1>1, <1>2, ListInduction
<1> QED BY <1>3

\* What is kept of a list is a list of no more elements.
LEMMA KeptIsList ==
  ASSUME NEW S, NEW l \in Seq(Records) PROVE Kept(l, S) \in Seq(Records)
<1>1. PICK k : IsKept(k, l, S)
      BY KeptIs
<1> QED BY <1>1, LenProperties DEF IsKept

\* A function on 1 .. n is a sequence.
LEMMA FunctionIsSeq ==
  ASSUME NEW n \in Nat, NEW R, NEW f \in [1 .. n -> R]
  PROVE  f \in Seq(R) /\ Len(f) = n
<1>1. f \in Seq(R)
      BY SeqDef
<1> QED BY <1>1, LenProperties

\* The types of a list are those of its elements.
LEMMA TypesOfIs ==
  ASSUME NEW l \in Seq(Records)
  PROVE  /\ TypesOf(l) \in Seq(Nat) /\ Len(TypesOf(l)) = Len(l)
         /\ \A i \in 1 .. Len(l) : TypesOf(l)[i] = l[i].type
<1>1. Len(l) \in Nat /\ DOMAIN l = 1 .. Len(l) /\ \A i \in 1 .. Len(l) : l[i] \in Records
      BY LenProperties, ElementOfSeq
<1>2. \A i \in 1 .. Len(l) : l[i].type \in Nat
      BY <1>1 DEF Records
<1>3. TypesOf(l) \in [1 .. Len(l) -> Nat]
      BY <1>1, <1>2 DEF TypesOf
<1> QED BY <1>1, <1>3, FunctionIsSeq DEF TypesOf

\* An element at the end adds its type.
LEMMA TypesOfMore ==
  ASSUME NEW l \in Seq(Records), NEW e \in Records
  PROVE  Types(Append(l, e)) = Types(l) \cup {e.type} /\ TypesOf(Append(l, e)) = Append(TypesOf(l), e.type)
<1>1. /\ Len(l) \in Nat /\ Len(Append(l, e)) = Len(l) + 1 /\ Append(l, e) \in Seq(Records)
      /\ DOMAIN l = 1 .. Len(l) /\ DOMAIN Append(l, e) = 1 .. Len(l) + 1
      /\ Append(l, e)[Len(l) + 1] = e /\ \A i \in 1 .. Len(l) : Append(l, e)[i] = l[i]
      BY LenProperties, AppendProperties
<1> DEFINE m == Append(l, e)
<1> HIDE DEF m
<1>2. Types(m) = Types(l) \cup {e.type}
      BY <1>1 DEF Types, m
<1>3. TypesOf(m) = Append(TypesOf(l), e.type)
  <2>1. TypesOf(l) \in Seq(Nat) /\ Len(TypesOf(l)) = Len(l)
        BY TypesOfIs
  <2> QED BY <1>1, <2>1 DEF TypesOf, m
<1> QED BY <1>2, <1>3 DEF m

\* The types of what is kept are those of the list that are kept.
LEMMA TypesOfKept ==
  ASSUME NEW S, NEW l \in Seq(Records)
  PROVE  Types(Kept(l, S)) = Types(l) \cap S
<1> DEFINE T == {x \in Seq(Records) : Types(Kept(x, S)) = Types(x) \cap S}
<1>1. <<>> \in T
      BY EmptySeq, KeptOfNone DEF Types
<1>2. ASSUME NEW x \in Seq(Records), NEW e \in Records, x \in T PROVE Append(x, e) \in T
  <2>1. Append(x, e) \in Seq(Records)
        BY AppendProperties
  <2>2. /\ Kept(x, S) \in Seq(Records)
        /\ Kept(Append(x, e), S) = IF e.type \in S THEN Append(Kept(x, S), e) ELSE Kept(x, S)
        BY KeptOfMore
  <2>3. Types(Append(x, e)) = Types(x) \cup {e.type} /\ Types(Append(Kept(x, S), e)) = Types(Kept(x, S)) \cup {e.type}
        BY <2>2, TypesOfMore
  <2> QED BY <1>2, <2>1, <2>2, <2>3
<1>3. Seq(Records) \subseteq T
  <2> HIDE DEF T
  <2> QED BY <1>1, <1>2, ListInduction
<1> QED BY <1>3

\* Which records are kept is a matter of the types only.
LEMMA KeptByType ==
  ASSUME NEW S, NEW l \in Seq(Records), NEW m \in Seq(Records), TypesOf(l) = TypesOf(m)
  PROVE  TypesOf(Kept(l, S)) = TypesOf(Kept(m, S))
<1> DEFINE T == {x \in Seq(Records) :
                   \A y \in Seq(Records) : TypesOf(x) = TypesOf(y) => TypesOf(Kept(x, S)) = TypesOf(Kept(y, S))}
<1>0. \A x \in Seq(Records) : /\ Len(TypesOf(x)) = Len(x) /\ TypesOf(x) \in Seq(Nat)
                              /\ \A i \in 1 .. Len(x) : TypesOf(x)[i] = x[i].type
      BY TypesOfIs
<1>1. <<>> \in T
  <2>1. \A y \in Seq(Records) : TypesOf(<<>>) = TypesOf(y) => y = <<>>
        BY <1>0, EmptySeq
  <2> QED BY <2>1, EmptySeq
<1>2. ASSUME NEW x \in Seq(Records), NEW e \in Records, x \in T PROVE Append(x, e) \in T
  <2> SUFFICES ASSUME NEW y \in Seq(Records), TypesOf(Append(x, e)) = TypesOf(y)
               PROVE  TypesOf(Kept(Append(x, e), S)) = TypesOf(Kept(y, S))
      BY AppendProperties
  <2> DEFINE n == Len(x)
             w == Append(x, e)
             z == SubSeq(y, 1, n)
             v == y[n + 1]
  <2>1. n \in Nat /\ w \in Seq(Records) /\ Len(w) = n + 1 /\ w[n + 1] = e /\ \A i \in 1 .. n : w[i] = x[i]
        BY LenProperties, AppendProperties
  <2>2. Len(y) = n + 1 /\ \A i \in 1 .. n + 1 : y[i].type = w[i].type
    <3>1. Len(TypesOf(w)) = n + 1 /\ \A i \in 1 .. n + 1 : TypesOf(w)[i] = w[i].type
      <4> HIDE DEF w
      <4> QED BY <1>0, <2>1
    <3>2. Len(TypesOf(y)) = Len(y) /\ \A i \in 1 .. Len(y) : TypesOf(y)[i] = y[i].type
          BY <1>0
    <3> HIDE DEF w, n
    <3> QED BY <3>1, <3>2 DEF w
  <2>3. z \in Seq(Records) /\ Len(z) = n /\ v \in Records /\ \A i \in 1 .. n : z[i] = y[i]
        BY <2>1, <2>2, SubSeqProperties, ElementOfSeq
  <2>4. y = Append(z, v)
        BY <2>1, <2>2, <2>3, AppendProperties, SeqEqual
  <2>5. TypesOf(x) = TypesOf(z)
    <3> HIDE DEF z
    <3>1. /\ Len(TypesOf(x)) = n /\ TypesOf(x) \in Seq(Nat) /\ \A i \in 1 .. n : TypesOf(x)[i] = x[i].type
          /\ Len(TypesOf(z)) = n /\ TypesOf(z) \in Seq(Nat) /\ \A i \in 1 .. n : TypesOf(z)[i] = z[i].type
          BY <1>0, <2>3
    <3>2. \A i \in 1 .. n : TypesOf(x)[i] = TypesOf(z)[i]
      <4> SUFFICES ASSUME NEW i \in 1 .. n PROVE TypesOf(x)[i] = TypesOf(z)[i]
          OBVIOUS
      <4>1. i \in 1 .. n + 1
            BY <2>1
      <4>2. y[i].type = w[i].type /\ w[i] = x[i] /\ z[i] = y[i]
            BY <2>1, <2>2, <2>3, <4>1
      <4> QED BY <3>1, <4>2
    <3> QED BY <3>1, <3>2, SeqEqual
  <2>6. TypesOf(Kept(x, S)) = TypesOf(Kept(z, S))
        BY <1>2, <2>3, <2>5
  <2>7. v.type = e.type
        BY <2>1, <2>2, SMTT(30)
  <2> HIDE DEF z, v
  <2>8. /\ Kept(y, S) = IF v.type \in S THEN Append(Kept(z, S), v) ELSE Kept(z, S)
        /\ Kept(z, S) \in Seq(Records)
        BY <2>3, <2>4, KeptOfMore
  <2>9. /\ Kept(w, S) = IF e.type \in S THEN Append(Kept(x, S), e) ELSE Kept(x, S)
        /\ Kept(x, S) \in Seq(Records)
        BY KeptOfMore
  <2>10. /\ TypesOf(Append(Kept(x, S), e)) = Append(TypesOf(Kept(x, S)), e.type)
         /\ TypesOf(Append(Kept(z, S), v)) = Append(TypesOf(Kept(z, S)), v.type)
        BY <2>3, <2>8, <2>9, TypesOfMore
  <2> QED BY <2>6, <2>7, <2>8, <2>9, <2>10
<1>3. Seq(Records) \subseteq T
  <2> HIDE DEF T
  <2> QED BY <1>1, <1>2, ListInduction
<1> QED BY <1>3

\* An element at the end of a joined list is at the end of its second part.
LEMMA AppendToConcat ==
  ASSUME NEW R, NEW l \in Seq(R), NEW m \in Seq(R), NEW e \in R
  PROVE  l \o Append(m, e) = Append(l \o m, e)
<1>1. <<e>> \in Seq(R) /\ l \o m \in Seq(R)
      BY ConcatProperties
<1>2. Append(m, e) = m \o <<e>> /\ Append(l \o m, e) = (l \o m) \o <<e>>
      BY <1>1, AppendIsConcat
<1> QED BY <1>1, <1>2, ConcatAssociative

\* What is kept of a joined list is what is kept of its parts, joined.
LEMMA KeptOfConcat ==
  ASSUME NEW S, NEW l \in Seq(Records), NEW m \in Seq(Records)
  PROVE  Kept(l \o m, S) = Kept(l, S) \o Kept(m, S)
<1> DEFINE T == {x \in Seq(Records) : Kept(l \o x, S) = Kept(l, S) \o Kept(x, S)}
<1>1. <<>> \in T
  <2>1. l \o <<>> = l /\ Kept(l, S) \o <<>> = Kept(l, S)
        BY KeptIsList, ConcatEmptySeq
  <2> QED BY <2>1, EmptySeq, KeptOfNone
<1>2. ASSUME NEW x \in Seq(Records), NEW e \in Records, x \in T PROVE Append(x, e) \in T
  <2>1. Append(x, e) \in Seq(Records) /\ l \o x \in Seq(Records)
        BY AppendProperties, ConcatProperties
  <2>2. l \o Append(x, e) = Append(l \o x, e)
        BY AppendToConcat
  <2>3. /\ Kept(x, S) \in Seq(Records)
        /\ Kept(Append(x, e), S) = IF e.type \in S THEN Append(Kept(x, S), e) ELSE Kept(x, S)
        BY KeptOfMore
  <2>4. Kept(Append(l \o x, e), S) = IF e.type \in S THEN Append(Kept(l \o x, S), e) ELSE Kept(l \o x, S)
        BY <2>1, KeptOfMore
  <2>5. Kept(l, S) \o Append(Kept(x, S), e) = Append(Kept(l, S) \o Kept(x, S), e)
        BY <2>3, KeptIsList, AppendToConcat
  <2>6. Kept(l \o x, S) = Kept(l, S) \o Kept(x, S)
        BY <1>2
  <2>7. Kept(l \o Append(x, e), S) = Kept(l, S) \o Kept(Append(x, e), S)
    <3>1. CASE e.type \in S
          BY <2>2, <2>3, <2>4, <2>5, <2>6, <3>1, Zenon
    <3>2. CASE e.type \notin S
          BY <2>2, <2>3, <2>4, <2>6, <3>2, Zenon
    <3> QED BY <3>1, <3>2
  <2> QED BY <2>1, <2>7
<1>3. Seq(Records) \subseteq T
  <2> HIDE DEF T
  <2> QED BY <1>1, <1>2, ListInduction
<1> QED BY <1>3

-----------------------------------------------------------------------------
(* The first record of a type.                                              *)
LEMMA FirstIs ==
  ASSUME NEW l \in Seq(Records), NEW t
  PROVE  LET i == FirstOf(l, t) IN
         IF t \in Types(l) THEN i \in 1 .. Len(l) /\ l[i].type = t /\ \A j \in 1 .. i - 1 : l[j].type # t
         ELSE i = 0
<1> DEFINE of == {i \in DOMAIN l : l[i].type = t}
<1>1. DOMAIN l = 1 .. Len(l) /\ Len(l) \in Nat
      BY LenProperties
<1>2. t \in Types(l) <=> of # {}
      BY DEF Types
<1>3. FirstOf(l, t) = IF of = {} THEN 0 ELSE Min(of)
      BY DEF FirstOf
<1>4. ASSUME of # {} PROVE Min(of) \in of /\ \A j \in of : Min(of) <= j
      BY <1>1, <1>4, LeastNatural, SMTT(30)
<1> DEFINE i == Min(of)
<1>5. ASSUME of # {} PROVE i \in 1 .. Len(l) /\ l[i].type = t /\ \A j \in 1 .. i - 1 : l[j].type # t
  <2>1. i \in of /\ \A j \in of : i <= j
        BY <1>4, <1>5
  <2> HIDE DEF i
  <2>2. i \in 1 .. Len(l) /\ l[i].type = t
        BY <1>1, <2>1
  <2>3. \A j \in 1 .. i - 1 : j \in DOMAIN l /\ ~(i <= j)
        BY <1>1, <2>2
  <2> QED BY <2>1, <2>2, <2>3
<1> QED BY <1>2, <1>3, <1>5

\* First is the place of an element that matches.
LEMMA FirstIsOne ==
  ASSUME NEW l \in Seq(Records), NEW t, NEW i \in 1 .. Len(l), l[i].type = t, \A j \in 1 .. i - 1 : l[j].type # t
  PROVE  FirstOf(l, t) = i /\ t \in Types(l)
<1>1. DOMAIN l = 1 .. Len(l) /\ Len(l) \in Nat
      BY LenProperties
<1>2. t \in Types(l)
      BY <1>1 DEF Types
<1> DEFINE k == FirstOf(l, t)
<1>3. k \in 1 .. Len(l) /\ l[k].type = t /\ \A j \in 1 .. k - 1 : l[j].type # t
      BY <1>2, FirstIs
<1> HIDE DEF k
<1>4. ~(k \in 1 .. i - 1) /\ ~(i \in 1 .. k - 1)
      BY <1>3
<1>5. k = i
      BY <1>1, <1>3, <1>4
<1> QED BY <1>2, <1>5 DEF k

\* An element at the end changes First only where nothing matched before.
LEMMA FirstOfMore ==
  ASSUME NEW l \in Seq(Records), NEW e \in Records, NEW t \in Types(l) \cup {e.type}
  PROVE  FirstPayload(Append(l, e), t) = IF t \in Types(l) THEN FirstPayload(l, t) ELSE e.payload
<1> DEFINE m == Append(l, e)
           N == Len(l)
<1>1. /\ N \in Nat /\ DOMAIN l = 1 .. N /\ m \in Seq(Records) /\ Len(m) = N + 1
      /\ m[N + 1] = e /\ \A i \in 1 .. N : m[i] = l[i]
      BY LenProperties, AppendProperties
<1> HIDE DEF m
<1>2. CASE t \in Types(l)
  <2> DEFINE i == FirstOf(l, t)
  <2>1. i \in 1 .. N /\ l[i].type = t /\ \A j \in 1 .. i - 1 : l[j].type # t
        BY <1>2, FirstIs
  <2> HIDE DEF i, N
  <2>2. i \in 1 .. Len(m) /\ m[i] = l[i] /\ \A j \in 1 .. i - 1 : j \in 1 .. N
        BY <1>1, <2>1
  <2>3. m[i].type = t /\ \A j \in 1 .. i - 1 : m[j].type # t
        BY <1>1, <2>1, <2>2
  <2>4. FirstOf(m, t) = i
        BY <1>1, <2>2, <2>3, FirstIsOne
  <2> QED BY <1>2, <2>2, <2>4 DEF FirstPayload, i, m
<1>3. CASE t \notin Types(l)
  <2>1. e.type = t /\ \A j \in 1 .. N : l[j].type # t
        BY <1>1, <1>3 DEF Types
  <2> HIDE DEF N
  <2>2. N + 1 \in 1 .. Len(m) /\ m[N + 1].type = t /\ \A j \in 1 .. (N + 1) - 1 : m[j].type # t
        BY <1>1, <2>1
  <2>3. FirstOf(m, t) = N + 1
        BY <1>1, <2>2, FirstIsOne
  <2> QED BY <1>1, <1>3, <2>3 DEF FirstPayload, m
<1> QED BY <1>2, <1>3

\* The first element of a type is still the first where the type is kept.
LEMMA FirstOfKept ==
  ASSUME NEW S, NEW l \in Seq(Records), NEW t \in Types(l) \cap S
  PROVE  FirstPayload(Kept(l, S), t) = FirstPayload(l, t)
<1> DEFINE T == {x \in Seq(Records) : t \in Types(x) => FirstPayload(Kept(x, S), t) = FirstPayload(x, t)}
<1>1. <<>> \in T
      BY EmptySeq DEF Types
<1>2. ASSUME NEW x \in Seq(Records), NEW e \in Records, x \in T PROVE Append(x, e) \in T
  <2> DEFINE k == Kept(x, S)
  <2>1. Append(x, e) \in Seq(Records) /\ k \in Seq(Records) /\ Types(k) = Types(x) \cap S
        /\ Types(Append(x, e)) = Types(x) \cup {e.type}
        BY AppendProperties, KeptIsList, TypesOfKept, TypesOfMore
  <2>2. Kept(Append(x, e), S) = IF e.type \in S THEN Append(k, e) ELSE k
        BY KeptOfMore
  <2>3. t \in Types(x) => FirstPayload(k, t) = FirstPayload(x, t)
        BY <1>2
  <2> HIDE DEF k
  <2> SUFFICES ASSUME t \in Types(x) \cup {e.type}
               PROVE  FirstPayload(Kept(Append(x, e), S), t) = FirstPayload(Append(x, e), t)
      BY <2>1
  <2>4. FirstPayload(Append(x, e), t) = IF t \in Types(x) THEN FirstPayload(x, t) ELSE e.payload
        BY FirstOfMore
  <2>5. FirstPayload(Append(k, e), t) = IF t \in Types(k) THEN FirstPayload(k, t) ELSE e.payload
        BY <2>1, FirstOfMore
  <2>6. t \in Types(k) <=> t \in Types(x)
        BY <2>1
  <2>7. e.type \notin S => t \in Types(x)
        OBVIOUS
  <2> QED BY <2>2, <2>3, <2>4, <2>5, <2>6, <2>7
<1>3. Seq(Records) \subseteq T
  <2> HIDE DEF T
  <2> QED BY <1>1, <1>2, ListInduction
<1> QED BY <1>3

\* The last record stays the last one if it is kept.
LEMMA LastOfKept ==
  ASSUME NEW S, NEW l \in Seq(Records), l # <<>>, l[Len(l)].type \in S
  PROVE  Seqs!Last(Kept(l, S)).type = Seqs!Last(l).type
<1>1. PICK x \in Seq(Records), e \in Records : l = Append(x, e)
      BY SequenceEmptyOrAppend
<1>2. Len(l) = Len(x) + 1 /\ l[Len(l)] = e
      BY <1>1, AppendProperties
<1>3. Kept(x, S) \in Seq(Records) /\ Kept(l, S) = Append(Kept(x, S), e)
  <2>1. e.type \in S
        BY <1>2
  <2> QED BY <1>1, <2>1, KeptOfMore
<1>4. Kept(l, S)[Len(Kept(l, S))] = e
      BY <1>3, AppendProperties
<1> QED BY <1>2, <1>4 DEF Seqs!Last

-----------------------------------------------------------------------------
(* Upsert.                                                                  *)
\* What an upsert of a record keeps of a list.
UpsertedWell(l, t, p, u) ==
  /\ u \in Seq(Records) /\ u # <<>>
  /\ Types(u) = Types(l) \cup {t}
  /\ FirstPayload(u, t) = p /\ \A x \in Types(l) \ {t} : FirstPayload(u, x) = FirstPayload(l, x)
  /\ \A S : t \notin S \/ t \in Types(l) => Order(u, S) = Order(l, S)
  /\ l # <<>> /\ Seqs!Last(l).type = Geometry => Seqs!Last(u).type = Geometry
  /\ t = Geometry /\ t \notin Types(l) => Seqs!Last(u).type = Geometry

\* A list with the types of another has its records in the same places.
LEMMA SameFirst ==
  ASSUME NEW l \in Seq(Records), NEW u \in Seq(Records), Len(u) = Len(l),
         \A j \in 1 .. Len(l) : u[j].type = l[j].type
  PROVE  /\ Types(u) = Types(l) /\ TypesOf(u) = TypesOf(l)
         /\ \A x \in Types(l) : FirstOf(u, x) = FirstOf(l, x)
<1>1. DOMAIN l = 1 .. Len(l) /\ DOMAIN u = 1 .. Len(l) /\ Len(l) \in Nat
      BY LenProperties
<1>2. Types(u) = Types(l)
      BY <1>1 DEF Types
<1>3. TypesOf(u) = TypesOf(l)
      BY <1>1 DEF TypesOf
<1>4. ASSUME NEW x \in Types(l) PROVE FirstOf(u, x) = FirstOf(l, x)
  <2> DEFINE i == FirstOf(l, x)
  <2>1. i \in 1 .. Len(l) /\ l[i].type = x /\ \A j \in 1 .. i - 1 : l[j].type # x
        BY FirstIs
  <2> HIDE DEF i
  <2>2. i \in 1 .. Len(u) /\ u[i].type = x /\ \A j \in 1 .. i - 1 : u[j].type # x
        BY <1>1, <2>1
  <2>3. FirstOf(u, x) = i
        BY <2>2, FirstIsOne
  <2> QED BY <2>3 DEF i
<1> QED BY <1>2, <1>3, <1>4

\* Upsert of a type the list has exchanges the payload at its first place.
LEMMA Replaced ==
  ASSUME NEW l \in Seq(Records), NEW t \in Types(l), NEW p \in Seq(Nat)
  PROVE  UpsertedWell(l, t, p, [l EXCEPT ![FirstOf(l, t)].payload = p])
<1> DEFINE i == FirstOf(l, t)
           u == [l EXCEPT ![i].payload = p]
<1>1. i \in 1 .. Len(l) /\ l[i].type = t /\ DOMAIN l = 1 .. Len(l) /\ Len(l) \in Nat /\ l[i] \in Records
      BY FirstIs, LenProperties, ElementOfSeq
<1> HIDE DEF i
<1> DEFINE e == [l[i] EXCEPT !.payload = p]
<1>2. e \in Records /\ e.type = t /\ e.payload = p
      BY <1>1 DEF Records
<1>3. u = [l EXCEPT ![i] = e]
      OBVIOUS
<1> HIDE DEF e, u
<1>4. u \in Seq(Records) /\ Len(u) = Len(l) /\ \A j \in 1 .. Len(l) : u[j] = IF j = i THEN e ELSE l[j]
      BY <1>1, <1>2, <1>3, ExceptSeq
<1>5. \A j \in 1 .. Len(l) : u[j].type = l[j].type
      BY <1>1, <1>2, <1>4
<1>6. /\ Types(u) = Types(l) /\ TypesOf(u) = TypesOf(l)
      /\ \A x \in Types(l) : FirstOf(u, x) = FirstOf(l, x)
      BY <1>4, <1>5, SameFirst
<1>7. FirstPayload(u, t) = p
      BY <1>1, <1>2, <1>4, <1>6 DEF FirstPayload, i
<1>8. ASSUME NEW x \in Types(l) \ {t} PROVE FirstPayload(u, x) = FirstPayload(l, x)
  <2> DEFINE k == FirstOf(l, x)
  <2>1. k \in 1 .. Len(l) /\ l[k].type = x
        BY FirstIs
  <2>2. k # i /\ u[k] = l[k]
        BY <1>1, <1>4, <2>1
  <2> QED BY <1>6, <2>2 DEF FirstPayload
<1>9. \A S : Order(u, S) = Order(l, S)
      BY <1>4, <1>6, KeptByType DEF Order
<1>10. u # <<>>
      BY <1>1, <1>4, EmptySeq
<1>11. Seqs!Last(u).type = Seqs!Last(l).type
      BY <1>1, <1>4, <1>5 DEF Seqs!Last
<1> QED BY <1>4, <1>6, <1>7, <1>8, <1>9, <1>10, <1>11 DEF UpsertedWell, u, i

\* Upsert of a new type in a list without the geometry adds a record at the end.
LEMMA Appended ==
  ASSUME NEW l \in Seq(Records), NEW t \in Nat, t \notin Types(l), NEW p \in Seq(Nat), Geometry \notin Types(l)
  PROVE  UpsertedWell(l, t, p, Append(l, Rec(t, p)))
<1> DEFINE e == Rec(t, p)
           u == Append(l, e)
<1>1. e \in Records /\ e.type = t /\ e.payload = p
      BY DEF Rec, Records
<1> HIDE DEF e
<1>2. u \in Seq(Records) /\ u # <<>> /\ Len(u) = Len(l) + 1 /\ u[Len(l) + 1] = e
      BY <1>1, AppendProperties
<1>3. Types(u) = Types(l) \cup {t}
      BY <1>1, TypesOfMore
<1>4. FirstPayload(u, t) = p /\ \A x \in Types(l) \ {t} : FirstPayload(u, x) = FirstPayload(l, x)
      BY <1>1, FirstOfMore
<1>5. \A S : t \notin S => Order(u, S) = Order(l, S)
      BY <1>1, KeptOfMore DEF Order
<1>6. l # <<>> => Seqs!Last(l).type \in Types(l)
      BY LenProperties, EmptySeq DEF Types, Seqs!Last
<1>7. Seqs!Last(u).type = t
      BY <1>1, <1>2 DEF Seqs!Last
<1> HIDE DEF u
<1> QED BY <1>2, <1>3, <1>4, <1>5, <1>6, <1>7 DEF UpsertedWell, u, e

\* Upsert of a new type in a list with the geometry puts a record before it.
LEMMA Inserted ==
  ASSUME NEW l \in Seq(Records), NEW t \in Nat, t \notin Types(l), NEW p \in Seq(Nat), Geometry \in Types(l)
  PROVE  UpsertedWell(l, t, p, Seqs!InsertAt(l, FirstOf(l, Geometry), Rec(t, p)))
<1> DEFINE e == Rec(t, p)
           g == FirstOf(l, Geometry)
           n == Len(l)
           a == SubSeq(l, 1, g - 1)
           b == SubSeq(l, g, n)
           u == Seqs!InsertAt(l, g, e)
<1>1. e \in Records /\ e.type = t /\ e.payload = p
      BY DEF Rec, Records
<1>2. g \in 1 .. n /\ n \in Nat /\ DOMAIN l = 1 .. n /\ \A i \in 1 .. n : l[i] \in Records
      BY FirstIs, LenProperties, ElementOfSeq
<1> HIDE DEF e, g, n
<1>3. u = (a \o <<e>>) \o b
      BY DEF Seqs!InsertAt, n
<1>4. /\ a \in Seq(Records) /\ Len(a) = g - 1 /\ \A i \in 1 .. g - 1 : a[i] = l[i]
      /\ b \in Seq(Records) /\ Len(b) = n - g + 1 /\ \A i \in 1 .. n - g + 1 : b[i] = l[g + i - 1]
  <2>1. g \in Int /\ n \in Int /\ 1 \in Int /\ g - 1 \in Int /\ (\A i \in 1 .. g - 1 : l[i] \in Records)
        /\ \A i \in g .. n : l[i] \in Records
        BY <1>2
  <2>2. /\ a \in Seq(Records) /\ Len(a) = (IF 1 <= g - 1 THEN (g - 1) - 1 + 1 ELSE 0)
        /\ \A i \in 1 .. (g - 1) - 1 + 1 : a[i] = l[1 + i - 1]
        BY <2>1, SubSeqProperties, SMTT(30)
  <2>3. /\ b \in Seq(Records) /\ Len(b) = (IF g <= n THEN n - g + 1 ELSE 0)
        /\ \A i \in 1 .. n - g + 1 : b[i] = l[g + i - 1]
        BY <2>1, SubSeqProperties, SMTT(30)
  <2> HIDE DEF a, b
  <2>4. Len(a) = g - 1 /\ \A i \in 1 .. g - 1 : a[i] = l[i]
        BY <1>2, <2>2
  <2> QED BY <1>2, <2>2, <2>3, <2>4
<1>5. l = a \o b
  <2>1. 1 \in 1 .. n + 1 /\ g - 1 \in 1 - 1 .. n /\ n \in g - 1 .. n /\ (g - 1) + 1 = g
        BY <1>2
  <2>2. SubSeq(l, 1, g - 1) \o SubSeq(l, (g - 1) + 1, n) = SubSeq(l, 1, n)
        BY <2>1, ConcatAdjacentSubSeq DEF n
  <2>3. SubSeq(l, 1, n) = l
        BY SubSeqFull DEF n
  <2> QED BY <2>1, <2>2, <2>3
<1> HIDE DEF a, b
<1> DEFINE c == a \o <<e>>
<1>6. <<e>> \in Seq(Records) /\ Len(<<e>>) = 1 /\ <<e>>[1] = e
      BY <1>1
<1>7. /\ c \in Seq(Records) /\ Len(c) = g /\ \A i \in 1 .. g : c[i] = IF i = g THEN e ELSE l[i]
  <2>1. /\ c \in Seq(Records) /\ Len(c) = Len(a) + Len(<<e>>)
        /\ \A i \in 1 .. Len(a) + Len(<<e>>) : c[i] = IF i <= Len(a) THEN a[i] ELSE <<e>>[i - Len(a)]
        BY <1>4, <1>6, ConcatProperties
  <2> HIDE DEF c
  <2>2. Len(a) + Len(<<e>>) = g
        BY <1>2, <1>4, <1>6
  <2>3. ASSUME NEW i \in 1 .. g PROVE c[i] = IF i = g THEN e ELSE l[i]
    <3>1. CASE i = g
      <4>1. ~(i <= Len(a)) /\ i - Len(a) = 1
            BY <1>2, <1>4, <3>1
      <4> QED BY <1>6, <2>1, <2>2, <3>1, <4>1
    <3>2. CASE i # g
      <4>1. i <= Len(a) /\ i \in 1 .. g - 1
            BY <1>2, <1>4, <3>2
      <4> QED BY <1>4, <2>1, <2>2, <3>2, <4>1
    <3> QED BY <3>1, <3>2
  <2> QED BY <2>1, <2>2, <2>3
<1> HIDE DEF c
<1>8. /\ u \in Seq(Records) /\ Len(u) = n + 1
      /\ \A i \in 1 .. n + 1 : u[i] = IF i < g THEN l[i] ELSE IF i = g THEN e ELSE l[i - 1]
  <2>1. /\ u \in Seq(Records) /\ Len(u) = Len(c) + Len(b)
        /\ \A i \in 1 .. Len(c) + Len(b) : u[i] = IF i <= Len(c) THEN c[i] ELSE b[i - Len(c)]
    <3>1. u = c \o b
          BY <1>3 DEF c
    <3> HIDE DEF u
    <3>2. c \in Seq(Records) /\ b \in Seq(Records)
          BY <1>4, <1>7
    <3>3. /\ c \o b \in Seq(Records) /\ Len(c \o b) = Len(c) + Len(b)
          /\ \A i \in 1 .. Len(c) + Len(b) : (c \o b)[i] = IF i <= Len(c) THEN c[i] ELSE b[i - Len(c)]
          BY <3>2, ConcatProperties, ZenonT(30)
    <3> QED BY <3>1, <3>3, ZenonT(30)
  <2> HIDE DEF u
  <2>2. Len(c) + Len(b) = n + 1
        BY <1>2, <1>4, <1>7, SMTT(30)
  <2>3. ASSUME NEW i \in 1 .. n + 1 PROVE u[i] = IF i < g THEN l[i] ELSE IF i = g THEN e ELSE l[i - 1]
    <3>1. CASE i <= g
      <4>1. i \in 1 .. g /\ i <= Len(c) /\ (i < g <=> i # g)
            BY <1>2, <1>7, <3>1
      <4> QED BY <1>7, <2>1, <2>2, <4>1
    <3>2. CASE ~(i <= g)
      <4>1. ~(i <= Len(c)) /\ i - g \in 1 .. n - g + 1 /\ g + (i - g) - 1 = i - 1 /\ ~(i < g) /\ i # g
            BY <1>2, <1>7, <3>2
      <4>2. u[i] = b[i - g]
            BY <1>7, <2>1, <2>2, <4>1
      <4> QED BY <1>4, <4>1, <4>2
    <3> QED BY <3>1, <3>2
  <2> QED BY <2>1, <2>2, <2>3
<1>9. \A S : t \notin S => Kept(u, S) = Kept(l, S)
  <2> SUFFICES ASSUME NEW S, t \notin S PROVE Kept(u, S) = Kept(l, S)
      OBVIOUS
  <2>1. Kept(c, S) = Kept(a, S)
    <3>1. c = Append(a, e)
          BY <1>1, <1>4, AppendIsConcat DEF c
    <3> QED BY <1>1, <1>4, <3>1, KeptOfMore
  <2>2. Kept(c \o b, S) = Kept(c, S) \o Kept(b, S) /\ Kept(a \o b, S) = Kept(a, S) \o Kept(b, S)
        BY <1>4, <1>7, KeptOfConcat
  <2> QED BY <1>3, <1>5, <2>1, <2>2 DEF c
<1> HIDE DEF u
<1>10. Types(u) = Types(l) \cup {t}
  <2>1. DOMAIN u = 1 .. n + 1
        BY <1>8, LenProperties
  <2>2. ASSUME NEW x \in Types(u) PROVE x \in Types(l) \cup {t}
    <3>1. PICK i \in 1 .. n + 1 : u[i].type = x
          BY <2>1 DEF Types
    <3>2. i \in 1 .. n \/ i = g \/ (~(i < g) /\ i - 1 \in 1 .. n)
          BY <1>2
    <3>3. (i < g => i \in 1 .. n) /\ (~(i < g) /\ i # g => i - 1 \in 1 .. n)
          BY <1>2
    <3> QED BY <1>1, <1>2, <1>8, <3>1, <3>3 DEF Types
  <2>3. ASSUME NEW x \in Types(l) PROVE x \in Types(u)
    <3>1. PICK i \in 1 .. n : l[i].type = x
          BY <1>2 DEF Types
    <3>2. CASE i < g
      <4>1. i \in 1 .. n + 1 /\ u[i] = l[i]
            BY <1>2, <1>8, <3>2
      <4> QED BY <2>1, <3>1, <4>1 DEF Types
    <3>3. CASE ~(i < g)
      <4>1. i + 1 \in 1 .. n + 1 /\ ~(i + 1 < g) /\ i + 1 # g /\ (i + 1) - 1 = i
            BY <1>2, <3>3
      <4>2. u[i + 1] = l[i]
            BY <1>8, <4>1
      <4> QED BY <2>1, <3>1, <4>1, <4>2 DEF Types
    <3> QED BY <3>2, <3>3
  <2>4. t \in Types(u)
    <3>1. g \in 1 .. n + 1 /\ u[g] = e
          BY <1>2, <1>8
    <3> QED BY <1>1, <2>1, <3>1 DEF Types
  <2> QED BY <2>2, <2>3, <2>4
<1>11. FirstPayload(u, t) = p
  <2>1. \A j \in 1 .. n : l[j].type # t
        BY <1>2 DEF Types
  <2>2. g \in 1 .. Len(u) /\ u[g] = e /\ \A j \in 1 .. g - 1 : u[j] = l[j] /\ j \in 1 .. n
        BY <1>2, <1>8
  <2>3. FirstOf(u, t) = g
    <3>1. u[g].type = t /\ \A j \in 1 .. g - 1 : u[j].type # t
          BY <1>1, <2>1, <2>2
    <3> QED BY <1>8, <2>2, <3>1, FirstIsOne, ZenonT(30)
  <2> QED BY <1>1, <2>2, <2>3 DEF FirstPayload
<1>12. ASSUME NEW x \in Types(l) \ {t} PROVE FirstPayload(u, x) = FirstPayload(l, x)
  <2> DEFINE k == FirstOf(l, x)
             h == IF k < g THEN k ELSE k + 1
  <2>1. k \in 1 .. n /\ l[k].type = x /\ \A j \in 1 .. k - 1 : l[j].type # x
        BY FirstIs DEF n
  <2> HIDE DEF k
  <2>2. h \in 1 .. Len(u) /\ u[h] = l[k]
        BY <1>2, <1>8, <2>1
  <2>3. ASSUME NEW j \in 1 .. h - 1 PROVE u[j].type # x
    <3>1. CASE j < g
      <4>1. j \in 1 .. k - 1 /\ j \in 1 .. n + 1
            BY <1>2, <2>1, <3>1
      <4> QED BY <1>8, <2>1, <3>1, <4>1
    <3>2. CASE j = g
      <4>1. j \in 1 .. n + 1
            BY <1>2, <3>2
      <4>2. u[j] = e
            BY <1>2, <1>8, <3>2, <4>1
      <4> QED BY <1>1, <4>2
    <3>3. CASE ~(j < g) /\ j # g
      <4>1. j \in 1 .. n + 1 /\ j - 1 \in 1 .. k - 1
            BY <1>2, <2>1, <3>3
      <4> QED BY <1>8, <2>1, <3>3, <4>1
    <3> QED BY <3>1, <3>2, <3>3
  <2>4. FirstOf(u, x) = h
    <3>1. u[h].type = x
          BY <2>1, <2>2
    <3> HIDE DEF h
    <3> QED BY <1>8, <2>2, <2>3, <3>1, FirstIsOne
  <2> HIDE DEF h
  <2> QED BY <2>2, <2>4 DEF FirstPayload, k
<1>13. Seqs!Last(u) = Seqs!Last(l) /\ u # <<>>
  <2>1. n + 1 \in 1 .. n + 1 /\ ~(n + 1 < g) /\ n + 1 # g /\ (n + 1) - 1 = n /\ n + 1 # 0
        BY <1>2
  <2>2. u[n + 1] = l[n] /\ Len(u) # 0
        BY <1>8, <2>1
  <2> QED BY <1>8, <2>2, EmptySeq DEF Seqs!Last, n
<1> QED BY <1>8, <1>9, <1>10, <1>11, <1>12, <1>13 DEF UpsertedWell, Order, u, e, g

\* In each case one record of the type is new, and the others are as they were.
LEMMA UpsertIsRight ==
  ASSUME NEW l \in Seq(Records), NEW t \in Nat, NEW p \in Seq(Nat)
  PROVE  UpsertedWell(l, t, p, Upserted(l, t, p))
<1>1. \A x : FirstOf(l, x) # 0 <=> x \in Types(l)
      BY FirstIs
<1>2. CASE t \in Types(l)
      BY <1>1, <1>2, Replaced DEF Upserted
<1>3. CASE t \notin Types(l) /\ Geometry \in Types(l)
  <2>1. Upserted(l, t, p) = Seqs!InsertAt(l, FirstOf(l, Geometry), Rec(t, p))
        BY <1>1, <1>3 DEF Upserted
  <2> QED BY <1>3, <2>1, Inserted
<1>4. CASE t \notin Types(l) /\ Geometry \notin Types(l)
  <2>1. Upserted(l, t, p) = Append(l, Rec(t, p))
        BY <1>1, <1>4 DEF Upserted
  <2> QED BY <1>4, <2>1, Appended
<1> QED BY <1>2, <1>3, <1>4

-----------------------------------------------------------------------------
(* The stream: what ToBlob puts where.                                      *)
IsFlat(f, s) ==
  /\ f \in [1 .. Len(s) -> Seq(Nat)] /\ f[1] = s[1] /\ Seqs!FlattenSeq(s) = f[Len(s)]
  /\ \A i \in 2 .. Len(s) : f[i] = f[i - 1] \o s[i]

\* flatten, by its equations.
LEMMA FlatIs ==
  ASSUME NEW s \in Seq(Seq(Nat)), Len(s) # 0
  PROVE  \E f : IsFlat(f, s)
<1> DEFINE N == Len(s)
           V == Seq(Nat)
           F == [p \in (1 .. N) \X V |-> p[2] \o s[p[1]]]
           Is(f) == f = [i \in 1 .. N |-> IF i = 1 THEN s[i] ELSE f[i - 1] \o s[i]]
           f == CHOOSE f : Is(f)
<1>1. N \in Nat \ {0} /\ \A i \in 1 .. N : s[i] \in V
      BY LenProperties, ElementOfSeq
<1>2. Seqs!FlattenSeq(s) = f[N]
      BY DEF Seqs!FlattenSeq
<1> HIDE DEF N
<1>3. \A n \in 1 .. N, v \in V : F[<<n, v>>] = v \o s[n] /\ F[<<n, v>>] \in V
      BY <1>1, ConcatProperties
<1> HIDE DEF F, V
<1>4. PICK h \in [1 .. N -> V] : \A n \in 1 .. N : h[n] = IF n = 1 THEN s[1] ELSE F[<<n, h[n - 1]>>]
  <2>1. 1 \in Int /\ N \in Int /\ 1 <= N /\ s[1] \in V /\ \A n \in 1 + 1 .. N, v \in V : F[<<n, v>>] \in V
    <3>1. \A n \in 1 + 1 .. N : n \in 1 .. N
          BY <1>1
    <3>2. \A n \in 1 + 1 .. N, v \in V : F[<<n, v>>] \in V
          BY <1>3, <3>1, Zenon
    <3> QED BY <1>1, <3>2
  <2>2. Stepwise(1, N, V, s[1], F)
        BY <2>1, StepByStep
  <2> QED BY <2>2 DEF Stepwise
<1>5. Is(h)
  <2>1. ASSUME NEW n \in 1 .. N, n # 1 PROVE F[<<n, h[n - 1]>>] = h[n - 1] \o s[n]
    <3>1. n \in 1 .. N /\ h[n - 1] \in V
          BY <1>1, <1>4, <2>1
    <3> QED BY <1>3, <3>1
  <2>2. \A n \in 1 .. N : h[n] = IF n = 1 THEN s[n] ELSE h[n - 1] \o s[n]
        BY <1>4, <2>1
  <2> DEFINE e == [n \in 1 .. N |-> IF n = 1 THEN s[n] ELSE h[n - 1] \o s[n]]
  <2>3. DOMAIN e = 1 .. N /\ \A n \in 1 .. N : e[n] = h[n]
        BY <2>2
  <2>4. e = [n \in 1 .. N |-> e[n]] /\ h = [n \in 1 .. N |-> h[n]]
        BY <1>4
  <2> HIDE DEF e
  <2>5. e = h
        BY <2>3, <2>4, SameFunction, Zenon
  <2> QED BY <2>5, Zenon DEF e
<1>6. Is(f)
      BY <1>5, Zenon
<1> HIDE DEF f
<1>7. f[1] = s[1] /\ \A i \in 2 .. N : f[i] = f[i - 1] \o s[i]
  <2>1. ASSUME NEW n \in 1 .. N PROVE f[n] = IF n = 1 THEN s[n] ELSE f[n - 1] \o s[n]
        BY <1>6, Zenon
  <2>2. 1 \in 1 .. N /\ \A i \in 2 .. N : i \in 1 .. N /\ i # 1
        BY <1>1
  <2>3. f[1] = s[1]
        BY <2>1, <2>2
  <2>4. ASSUME NEW i \in 2 .. N PROVE f[i] = f[i - 1] \o s[i]
        BY <2>1, <2>2
  <2> QED BY <2>3, <2>4
<1>8. \A n \in 1 .. N : f[n] \in V
  <2> DEFINE T == {n \in Nat : n + 1 <= N => f[n + 1] \in V}
  <2>1. 0 \in T
        BY <1>1, <1>7
  <2>2. ASSUME NEW n \in Nat, n \in T PROVE n + 1 \in T
    <3> SUFFICES ASSUME (n + 1) + 1 <= N PROVE f[(n + 1) + 1] \in V
        OBVIOUS
    <3>1. f[n + 1] \in V /\ (n + 1) + 1 \in 2 .. N /\ ((n + 1) + 1) - 1 = n + 1 /\ (n + 1) + 1 \in 1 .. N
          BY <1>1, <2>2
    <3>2. f[(n + 1) + 1] = f[n + 1] \o s[(n + 1) + 1]
          BY <1>7, <3>1
    <3> QED BY <1>1, <3>1, <3>2, ConcatProperties DEF V
  <2> HIDE DEF T
  <2>3. Nat \subseteq T
        BY <2>1, <2>2, SetInduction
  <2>4. ASSUME NEW n \in 1 .. N PROVE f[n] \in V
    <3>1. n - 1 \in Nat /\ (n - 1) + 1 = n /\ n <= N
          BY <1>1
    <3>2. n - 1 \in T
          BY <2>3, <3>1
    <3> QED BY <3>1, <3>2 DEF T
  <2> QED BY <2>4
<1>9. f \in [1 .. N -> V]
      BY <1>6, <1>8
<1>10. IsFlat(f, s)
      BY <1>2, <1>7, <1>9 DEF IsFlat, N, V
<1> QED BY <1>10

\* The stream of one more piece.
LEMMA FlatOfMore ==
  ASSUME NEW s \in Seq(Seq(Nat)), NEW x \in Seq(Nat)
  PROVE  Seqs!FlattenSeq(s) \in Seq(Nat) /\ Seqs!FlattenSeq(Append(s, x)) = Seqs!FlattenSeq(s) \o x
<1> DEFINE m == Append(s, x)
           N == Len(s)
<1>1. /\ N \in Nat /\ m \in Seq(Seq(Nat)) /\ Len(m) = N + 1 /\ m[N + 1] = x
      /\ \A i \in 1 .. N : m[i] = s[i]
      BY LenProperties, AppendProperties
<1> HIDE DEF m
<1>0. PICK h : IsFlat(h, m)
      BY <1>1, FlatIs
<1>2. /\ h \in [1 .. N + 1 -> Seq(Nat)] /\ h[1] = m[1] /\ Seqs!FlattenSeq(m) = h[N + 1]
      /\ \A i \in 2 .. N + 1 : h[i] = h[i - 1] \o m[i]
      BY <1>0, <1>1 DEF IsFlat
<1>3. CASE N = 0
  <2>1. s = <<>>
        BY <1>3, EmptySeq
  <2>2. Seqs!FlattenSeq(s) = <<>> /\ <<>> \in Seq(Nat)
        BY <1>3, <2>1, EmptySeq DEF Seqs!FlattenSeq
  <2>3. Seqs!FlattenSeq(m) = x
        BY <1>1, <1>2, <1>3
  <2>4. <<>> \o x = x
        BY ConcatEmptySeq
  <2> QED BY <2>2, <2>3, <2>4 DEF m
<1>4. CASE N # 0
  <2>0. PICK f : IsFlat(f, s)
        BY <1>4, FlatIs
  <2>1. /\ f \in [1 .. N -> Seq(Nat)] /\ f[1] = s[1] /\ Seqs!FlattenSeq(s) = f[N]
        /\ \A i \in 2 .. N : f[i] = f[i - 1] \o s[i]
        BY <2>0 DEF IsFlat
  <2> HIDE DEF N
  <2> DEFINE T == {n \in Nat : n + 1 <= N => h[n + 1] = f[n + 1]}
  <2>2. 0 \in T
    <3>1. 1 \in 1 .. N
          BY <1>1, <1>4
    <3> QED BY <1>1, <1>2, <2>1, <3>1
  <2>3. ASSUME NEW n \in Nat, n \in T PROVE n + 1 \in T
    <3> SUFFICES ASSUME (n + 1) + 1 <= N PROVE h[(n + 1) + 1] = f[(n + 1) + 1]
        OBVIOUS
    <3> DEFINE i == (n + 1) + 1
    <3>1. h[n + 1] = f[n + 1] /\ i \in 2 .. N /\ i - 1 = n + 1 /\ i \in 2 .. N + 1 /\ i \in 1 .. N
          BY <1>1, <2>3
    <3> HIDE DEF i
    <3>2. h[i] = h[n + 1] \o m[i] /\ f[i] = f[n + 1] \o s[i] /\ m[i] = s[i]
          BY <1>1, <1>2, <2>1, <3>1
    <3>3. h[i] = f[i]
          BY <3>1, <3>2
    <3> QED BY <3>3 DEF i
  <2> HIDE DEF T
  <2>4. Nat \subseteq T
        BY <2>2, <2>3, SetInduction
  <2>5. h[N] = f[N] /\ f[N] \in Seq(Nat)
    <3>1. N - 1 \in Nat /\ (N - 1) + 1 = N /\ N \in 1 .. N
          BY <1>1, <1>4
    <3>2. N - 1 \in T
          BY <2>4, <3>1
    <3> QED BY <1>1, <2>1, <3>1, <3>2 DEF T
  <2>6. h[N + 1] = h[N] \o m[N + 1]
    <3>1. N + 1 \in 2 .. N + 1 /\ (N + 1) - 1 = N
          BY <1>1, <1>4, SMTT(30)
    <3> QED BY <1>2, <3>1
  <2> QED BY <1>1, <1>2, <2>1, <2>5, <2>6 DEF m
<1> QED BY <1>3, <1>4

\* A record, as it is in the stream.
Cells(r) == <<Len(r.payload) + Header, 0, 0, r.type>> \o r.payload

\* What ToBlob writes for a record: its length, its type and its payload.
LEMMA CellsAre ==
  ASSUME NEW r \in Records
  PROVE  /\ r.payload \in Seq(Nat) /\ r.type \in Nat /\ Len(r.payload) \in Nat
         /\ Cells(r) \in Seq(Nat) /\ Len(Cells(r)) = Header + Len(r.payload)
         /\ Cells(r)[1] = Len(r.payload) + Header /\ Cells(r)[4] = r.type
         /\ \A j \in 1 .. Len(r.payload) : Cells(r)[Header + j] = r.payload[j]
<1> DEFINE h == <<Len(r.payload) + Header, 0, 0, r.type>>
           p == r.payload
<1>1. p \in Seq(Nat) /\ r.type \in Nat /\ Len(p) \in Nat
      BY LenProperties DEF Records
<1>2. h \in Seq(Nat) /\ Len(h) = 4 /\ h[1] = Len(p) + Header /\ h[4] = r.type
      BY <1>1 DEF Header
<1> HIDE DEF h, p
<1>3. /\ h \o p \in Seq(Nat) /\ Len(h \o p) = 4 + Len(p)
      /\ \A i \in 1 .. 4 + Len(p) : (h \o p)[i] = IF i <= 4 THEN h[i] ELSE p[i - 4]
  <2>1. /\ h \o p \in Seq(Nat) /\ Len(h \o p) = Len(h) + Len(p)
        /\ \A i \in 1 .. Len(h) + Len(p) : (h \o p)[i] = IF i <= Len(h) THEN h[i] ELSE p[i - Len(h)]
        BY <1>1, <1>2, ConcatProperties
  <2> QED BY <1>2, <2>1
<1>4. Cells(r) = h \o p
      BY DEF Cells, h, p
<1>5. (h \o p)[1] = h[1] /\ (h \o p)[4] = h[4]
      BY <1>1, <1>3
<1>6. ASSUME NEW j \in 1 .. Len(p) PROVE (h \o p)[4 + j] = p[j]
  <2>1. 4 + j \in 1 .. 4 + Len(p) /\ ~(4 + j <= 4) /\ (4 + j) - 4 = j
        BY <1>1
  <2> QED BY <1>3, <2>1
<1> QED BY <1>1, <1>2, <1>3, <1>4, <1>5, <1>6 DEF p, Header

\* The stream of no records is empty.
LEMMA BlobOfNone == ToBlob(<<>>) = <<>>
<1>1. DOMAIN <<>> = {}
      OBVIOUS
<1> DEFINE s == [i \in DOMAIN <<>> |-> <<Len(<<>>[i].payload) + Header, 0, 0, <<>>[i].type>> \o <<>>[i].payload]
<1>2. s = <<>>
      BY <1>1
<1>3. Len(<<>>) = 0
      BY EmptySeq
<1> HIDE DEF s
<1> QED BY <1>2, <1>3 DEF ToBlob, Seqs!FlattenSeq, s

\* The stream of one more record has its bytes at the end.
LEMMA BlobOfMore ==
  ASSUME NEW l \in Seq(Records), NEW e \in Records
  PROVE  ToBlob(l) \in Seq(Nat) /\ ToBlob(Append(l, e)) = ToBlob(l) \o Cells(e)
<1> DEFINE Pieces(x) == [i \in DOMAIN x |-> Cells(x[i])]
           N == Len(l)
           m == Append(l, e)
<1>1. \A x : ToBlob(x) = Seqs!FlattenSeq(Pieces(x))
      BY DEF ToBlob, Cells
<1>2. /\ N \in Nat /\ DOMAIN l = 1 .. N /\ (\A i \in 1 .. N : l[i] \in Records)
      /\ m \in Seq(Records) /\ Len(m) = N + 1 /\ m[N + 1] = e /\ \A i \in 1 .. N : m[i] = l[i]
      BY LenProperties, ElementOfSeq, AppendProperties
<1>3. DOMAIN m = 1 .. N + 1
      BY <1>2, LenProperties
<1> HIDE DEF m, N
<1>4. Pieces(l) \in Seq(Seq(Nat)) /\ Len(Pieces(l)) = N
  <2>1. Pieces(l) \in [1 .. N -> Seq(Nat)]
        BY <1>2, CellsAre
  <2> QED BY <1>2, <2>1, FunctionIsSeq
<1>5. Cells(e) \in Seq(Nat)
      BY CellsAre
<1>6. Pieces(m) = Append(Pieces(l), Cells(e))
  <2>1. Pieces(m) \in Seq(Seq(Nat)) /\ Len(Pieces(m)) = N + 1
    <3>1. Pieces(m) \in [1 .. N + 1 -> Seq(Nat)]
      <4>1. ASSUME NEW i \in 1 .. N + 1 PROVE Cells(m[i]) \in Seq(Nat)
        <5>1. m[i] \in Records
              BY <1>2, ElementOfSeq
        <5> QED BY <5>1, CellsAre
      <4> QED BY <1>3, <4>1
    <3> QED BY <1>2, <3>1, FunctionIsSeq
  <2>2. /\ Append(Pieces(l), Cells(e)) \in Seq(Seq(Nat)) /\ Len(Append(Pieces(l), Cells(e))) = N + 1
        /\ \A i \in 1 .. N : Append(Pieces(l), Cells(e))[i] = Pieces(l)[i]
        /\ Append(Pieces(l), Cells(e))[N + 1] = Cells(e)
        BY <1>4, <1>5, AppendProperties
  <2>3. ASSUME NEW i \in 1 .. N + 1 PROVE Pieces(m)[i] = Append(Pieces(l), Cells(e))[i]
    <3>1. CASE i \in 1 .. N
          BY <1>2, <1>3, <2>2, <3>1
    <3>2. CASE i = N + 1
          BY <1>2, <1>3, <2>2, <3>2
    <3> QED BY <1>2, <3>1, <3>2
  <2> HIDE DEF Pieces
  <2> QED BY <2>1, <2>2, <2>3, SeqEqual
<1> HIDE DEF Pieces
<1>7. Seqs!FlattenSeq(Pieces(l)) \in Seq(Nat)
      /\ Seqs!FlattenSeq(Append(Pieces(l), Cells(e))) = Seqs!FlattenSeq(Pieces(l)) \o Cells(e)
      BY <1>4, <1>5, FlatOfMore
<1> QED BY <1>1, <1>6, <1>7 DEF m

\* Record i of a list begins at place o[i - 1] of a stream, and what is there
\* is that record.
RecordAt(o, i, r, b) ==
  /\ o[i] = o[i - 1] + Header + Len(r.payload) /\ o[i] <= Len(b)
  /\ b[o[i - 1] + 1] = Len(r.payload) + Header /\ b[o[i - 1] + 4] = r.type
  /\ \A j \in 1 .. Len(r.payload) : b[o[i - 1] + Header + j] = r.payload[j]
LaidOut(o, l, b) ==
  /\ o \in [0 .. Len(l) -> Nat] /\ o[0] = 0 /\ o[Len(l)] = Len(b)
  /\ \A i \in 1 .. Len(l) : RecordAt(o, i, l[i], b)

\* ToBlob lays the records of a list one after the other, with nothing between.
LEMMA BlobIsLaid ==
  ASSUME NEW l \in Seq(Records)
  PROVE  ToBlob(l) \in Seq(Nat) /\ \E o : LaidOut(o, l, ToBlob(l))
<1> DEFINE T == {x \in Seq(Records) : ToBlob(x) \in Seq(Nat) /\ \E o : LaidOut(o, x, ToBlob(x))}
<1>1. <<>> \in T
  <2> DEFINE o == [i \in 0 .. 0 |-> 0]
  <2>1. Len(<<>>) = 0 /\ <<>> \in Seq(Nat) /\ <<>> \in Seq(Records)
        BY EmptySeq
  <2>2. LaidOut(o, <<>>, <<>>)
        BY <2>1 DEF LaidOut
  <2> HIDE DEF o
  <2> QED BY <2>1, <2>2, BlobOfNone
<1>2. ASSUME NEW x \in Seq(Records), NEW e \in Records, x \in T PROVE Append(x, e) \in T
  <2> DEFINE b == ToBlob(x)
             c == Cells(e)
             N == Len(x)
             m == Append(x, e)
             L == Len(b)
             P == Len(e.payload)
             d == b \o c
  <2>1. PICK o : LaidOut(o, x, b)
        BY <1>2
  <2>2. b \in Seq(Nat) /\ L \in Nat
        BY <1>2, LenProperties
  <2>3. ToBlob(m) = d
        BY BlobOfMore
  <2>4. /\ N \in Nat /\ m \in Seq(Records) /\ Len(m) = N + 1 /\ m[N + 1] = e /\ \A i \in 1 .. N : m[i] = x[i]
        BY LenProperties, AppendProperties
  <2>5. /\ c \in Seq(Nat) /\ Len(c) = Header + P /\ P \in Nat /\ c[1] = P + Header /\ c[4] = e.type
        /\ \A j \in 1 .. P : c[Header + j] = e.payload[j]
        BY CellsAre
  <2>6. /\ o \in [0 .. N -> Nat] /\ o[0] = 0 /\ o[N] = L /\ \A i \in 1 .. N : RecordAt(o, i, x[i], b)
        BY <2>1 DEF LaidOut
  <2>7. \A i \in 1 .. N : x[i] \in Records
        BY ElementOfSeq
  <2> HIDE DEF b, c, N, m, P, L
  <2>8. /\ d \in Seq(Nat) /\ Len(d) = L + Header + P
        /\ (\A i \in 1 .. L : d[i] = b[i]) /\ \A i \in 1 .. Header + P : d[L + i] = c[i]
    <3>1. /\ d \in Seq(Nat) /\ Len(d) = Len(b) + Len(c)
          /\ \A i \in 1 .. Len(b) + Len(c) : d[i] = IF i <= Len(b) THEN b[i] ELSE c[i - Len(b)]
          BY <2>2, <2>5, ConcatProperties
    <3> HIDE DEF d
    <3>2. Len(b) = L /\ Len(b) + Len(c) = L + Header + P
          BY <2>2, <2>5 DEF L, Header
    <3>3. ASSUME NEW i \in 1 .. L PROVE d[i] = b[i]
      <4>1. i \in 1 .. Len(b) + Len(c) /\ i <= Len(b)
            BY <2>2, <2>5, <3>2 DEF Header
      <4> QED BY <3>1, <4>1
    <3>4. ASSUME NEW i \in 1 .. Header + P PROVE d[L + i] = c[i]
      <4>1. L + i \in 1 .. Len(b) + Len(c) /\ ~(L + i <= Len(b)) /\ (L + i) - Len(b) = i
            BY <2>2, <2>5, <3>2 DEF Header
      <4> QED BY <3>1, <4>1
    <3> QED BY <3>1, <3>2, <3>3, <3>4
  <2> HIDE DEF d
  <2> DEFINE q == [i \in 0 .. N + 1 |-> IF i = N + 1 THEN L + Header + P ELSE o[i]]
  <2>9. /\ q \in [0 .. N + 1 -> Nat] /\ q[N + 1] = L + Header + P /\ \A i \in 0 .. N : q[i] = o[i]
        BY <2>2, <2>4, <2>5, <2>6, SMTT(30) DEF Header
  <2> HIDE DEF q
  <2>10. ASSUME NEW i \in 1 .. N PROVE RecordAt(q, i, m[i], d)
    <3>1. /\ o[i] = o[i - 1] + Header + Len(x[i].payload) /\ o[i] <= L
          /\ b[o[i - 1] + 1] = Len(x[i].payload) + Header /\ b[o[i - 1] + 4] = x[i].type
          /\ \A j \in 1 .. Len(x[i].payload) : b[o[i - 1] + Header + j] = x[i].payload[j]
          BY <2>6 DEF RecordAt, L
    <3>2. q[i] = o[i] /\ q[i - 1] = o[i - 1] /\ o[i - 1] \in Nat /\ m[i] = x[i] /\ Len(x[i].payload) \in Nat
      <4>1. i \in 0 .. N /\ i - 1 \in 0 .. N
            BY <2>4
      <4> QED BY <2>4, <2>6, <2>7, <2>9, <4>1, CellsAre
    <3> DEFINE n == Len(x[i].payload)
               a == o[i - 1]
    <3>3. a + Header + n <= L /\ a \in Nat /\ n \in Nat
          BY <3>1, <3>2
    <3>7. o[i] = a + Header + n
          BY <3>1
    <3> HIDE DEF a, n
    <3>4. a + 1 \in 1 .. L /\ a + 4 \in 1 .. L /\ \A j \in 1 .. n : a + Header + j \in 1 .. L
          BY <2>2, <3>3 DEF Header
    <3>5. d[a + 1] = b[a + 1] /\ d[a + 4] = b[a + 4] /\ \A j \in 1 .. n : d[a + Header + j] = b[a + Header + j]
          BY <2>8, <3>4
    <3>6. o[i] <= Len(d)
      <4>1. Len(d) = L + Header + P /\ o[i] <= L /\ o[i] \in Nat
            BY <2>8, <3>1, <3>3, <3>7 DEF Header
      <4> QED BY <2>2, <2>5, <4>1 DEF Header
    <3> QED BY <3>1, <3>2, <3>5, <3>6 DEF RecordAt, a, n
  <2>11. RecordAt(q, N + 1, e, d)
    <3>1. q[N + 1] = L + Header + P /\ q[(N + 1) - 1] = L
      <4>1. (N + 1) - 1 = N /\ N \in 0 .. N
            BY <2>4
      <4> QED BY <2>6, <2>9, <4>1
    <3>2. 1 \in 1 .. Header + P /\ 4 \in 1 .. Header + P /\ \A j \in 1 .. P : Header + j \in 1 .. Header + P
          BY <2>5 DEF Header
    <3>3. d[L + 1] = c[1] /\ d[L + 4] = c[4] /\ \A j \in 1 .. P : d[L + (Header + j)] = c[Header + j]
          BY <2>8, <3>2
    <3>4. \A j \in 1 .. P : L + Header + j = L + (Header + j)
          BY <2>2, <2>5 DEF Header
    <3>5. q[N + 1] <= Len(d)
          BY <2>2, <2>5, <2>8, <3>1 DEF Header
    <3> QED BY <2>5, <3>1, <3>3, <3>4, <3>5 DEF RecordAt, P
  <2>12. LaidOut(q, m, d)
    <3>1. ASSUME NEW i \in 1 .. N + 1 PROVE RecordAt(q, i, m[i], d)
      <4>1. i \in 1 .. N \/ i = N + 1
            BY <2>4
      <4> QED BY <2>4, <2>10, <2>11, <4>1
    <3>2. q[0] = 0
      <4>1. 0 \in 0 .. N
            BY <2>4
      <4> QED BY <2>6, <2>9, <4>1
    <3> QED BY <2>4, <2>8, <2>9, <3>1, <3>2 DEF LaidOut
  <2> QED BY <2>3, <2>4, <2>8, <2>12 DEF m
<1>3. Seq(Records) \subseteq T
  <2> HIDE DEF T
  <2> QED BY <1>1, <1>2, ListInduction
<1> QED BY <1>3

-----------------------------------------------------------------------------
(* Parsing.                                                                 *)
\* What is read from a place on, given what is read from later ones.
ReadFrom(from, off, blob, slack) ==
  IF off + Header + slack > Len(blob)
  THEN IF Len(blob) - off > slack THEN Broken ELSE <<>>
  ELSE LET size == blob[off + 1] IN
       IF size < Header \/ off + size > Len(blob) THEN Broken
       ELSE IF from[off + size] = Broken THEN Broken
       ELSE <<Rec(blob[off + 4], SubSeq(blob, off + 5, off + size))>> \o from[off + size]
IsParse(from, blob, slack) ==
  /\ ParseRecords(blob, slack) = from[0]
  /\ \A off \in 0 .. Len(blob) : from[off] = ReadFrom(from, off, blob, slack)

\* ParseRecords, by its equations.
LEMMA ParseIs ==
  ASSUME NEW blob \in Seq(Nat), NEW slack \in Nat
  PROVE  \E from : IsParse(from, blob, slack)
<1> DEFINE L == Len(blob)
           Is(f) == f = [off \in 0 .. L |-> ReadFrom(f, off, blob, slack)]
           from == CHOOSE f : Is(f)
           T == {d \in Nat : d <= L => \E g : \A off \in L - d .. L : g[off] = ReadFrom(g, off, blob, slack)}
<1>1. L \in Nat /\ \A i \in 1 .. L : blob[i] \in Nat
      BY LenProperties, ElementOfSeq
<1>2. ParseRecords(blob, slack) = from[0]
      BY DEF ParseRecords, ReadFrom
\* Only later places matter.
<1>3. ASSUME NEW f, NEW g, NEW off \in 0 .. L, \A i \in off + 1 .. L : f[i] = g[i]
      PROVE  ReadFrom(f, off, blob, slack) = ReadFrom(g, off, blob, slack)
  <2> DEFINE size == blob[off + 1]
  <2>1. CASE off + Header + slack > L
        BY <2>1 DEF ReadFrom
  <2>2. CASE ~(off + Header + slack > L)
    <3>1. off + 1 \in 1 .. L
          BY <1>1, <2>2 DEF Header
    <3>2. size \in Nat
          BY <1>1, <3>1
    <3> HIDE DEF size
    <3>3. CASE size < Header \/ off + size > L
          BY <2>2, <3>3 DEF ReadFrom, size
    <3>4. CASE ~(size < Header \/ off + size > L)
      <4>1. off + size \in off + 1 .. L
            BY <1>1, <3>2, <3>4 DEF Header
      <4>2. f[off + size] = g[off + size]
            BY <1>3, <4>1
      <4> QED BY <4>2 DEF ReadFrom, size
    <3> QED BY <3>3, <3>4
  <2> QED BY <2>1, <2>2
<1> HIDE DEF L
<1>4. 0 \in T
  <2> DEFINE g == [off \in L .. L |-> ReadFrom(<<>>, off, blob, slack)]
  <2>1. ASSUME NEW off \in L - 0 .. L PROVE g[off] = ReadFrom(g, off, blob, slack)
    <3>1. off = L /\ off \in 0 .. L /\ off \in L .. L
          BY <1>1
    <3>2. \A i \in off + 1 .. L : FALSE
          BY <1>1, <3>1
    <3>3. ReadFrom(<<>>, off, blob, slack) = ReadFrom(g, off, blob, slack)
          BY <1>3, <3>1, <3>2
    <3> QED BY <3>1, <3>3
  <2> HIDE DEF g
  <2> QED BY <2>1
<1>5. ASSUME NEW d \in Nat, d \in T PROVE d + 1 \in T
  <2> SUFFICES ASSUME d + 1 <= L
               PROVE  \E g : \A off \in L - (d + 1) .. L : g[off] = ReadFrom(g, off, blob, slack)
      OBVIOUS
  <2>1. PICK f : \A off \in L - d .. L : f[off] = ReadFrom(f, off, blob, slack)
        BY <1>1, <1>5
  <2> DEFINE m == L - (d + 1)
             g == [off \in m .. L |-> IF off = m THEN ReadFrom(f, m, blob, slack) ELSE f[off]]
  <2>2. m \in Nat /\ m \in m .. L /\ m + 1 = L - d
        BY <1>1
  <2> HIDE DEF m
  <2>3. g[m] = ReadFrom(f, m, blob, slack) /\ \A off \in m + 1 .. L : g[off] = f[off]
        BY <1>1, <2>2
  <2> HIDE DEF g
  <2>4. ASSUME NEW off \in m .. L PROVE g[off] = ReadFrom(g, off, blob, slack)
    <3>1. off \in 0 .. L /\ \A i \in off + 1 .. L : i \in m + 1 .. L
          BY <1>1, <2>2
    <3>2. ReadFrom(f, off, blob, slack) = ReadFrom(g, off, blob, slack)
      <4>1. \A i \in off + 1 .. L : f[i] = g[i]
            BY <2>3, <3>1
      <4> QED BY <1>3, <3>1, <4>1
    <3>3. CASE off = m
          BY <2>3, <3>2, <3>3
    <3>4. CASE off # m
      <4>1. off \in m + 1 .. L /\ off \in L - d .. L
            BY <1>1, <2>2, <3>4
      <4> QED BY <2>1, <2>3, <3>2, <4>1
    <3> QED BY <3>3, <3>4
  <2> QED BY <2>4 DEF m
<1>6. Nat \subseteq T
  <2> HIDE DEF T
  <2> QED BY <1>4, <1>5, SetInduction
<1>7. \E g : Is(g)
  <2>1. L \in T /\ L - L = 0
        BY <1>1, <1>6
  <2>2. PICK g : \A off \in 0 .. L : g[off] = ReadFrom(g, off, blob, slack)
        BY <1>1, <2>1
  <2> DEFINE h == [off \in 0 .. L |-> g[off]]
  <2>3. ASSUME NEW off \in 0 .. L PROVE h[off] = ReadFrom(h, off, blob, slack)
    <3>1. \A i \in off + 1 .. L : g[i] = h[i]
          BY <1>1
    <3>2. h[off] = g[off]
          OBVIOUS
    <3> HIDE DEF h
    <3>3. ReadFrom(g, off, blob, slack) = ReadFrom(h, off, blob, slack)
          BY <1>3, <3>1
    <3> QED BY <2>2, <3>2, <3>3
  <2>4. h = [off \in 0 .. L |-> h[off]]
        OBVIOUS
  <2> HIDE DEF h
  <2>5. h = [off \in 0 .. L |-> ReadFrom(h, off, blob, slack)]
        BY <2>3, <2>4
  <2> QED BY <2>5
<1>8. Is(from)
      BY <1>7
<1> HIDE DEF from
<1>9. \A off \in 0 .. L : from[off] = ReadFrom(from, off, blob, slack)
      BY <1>8, Zenon
<1>10. IsParse(from, blob, slack)
      BY <1>2, <1>9 DEF IsParse, L
<1> QED BY <1>10

\* What a failed load is told by is no list of records.
LEMMA BrokenIsNoList == Broken \notin Seq(Records)
<1> SUFFICES ASSUME Broken \in Seq(Records) PROVE FALSE
    OBVIOUS
<1> DEFINE b == Broken
<1>1. Len(b) = 1 /\ b[1].type = -1
      BY DEF Broken, Rec
<1>2. b[1] \in Records
  <2>1. 1 \in 1 .. Len(b) /\ b \in Seq(Records)
        BY <1>1
  <2> HIDE DEF b
  <2> QED BY <2>1, ElementOfSeq
<1> HIDE DEF b
<1>3. b[1].type \in Nat
      BY <1>2 DEF Records
<1> QED BY <1>1, <1>3

\* What a stream reads as from record k + 1 on when its end may be missing.
ReadsAs(got, l, k, whole) ==
  /\ got = Broken \/ \E j \in k .. Len(l) : got = SubSeq(l, k + 1, j)
  /\ whole => got = SubSeq(l, k + 1, Len(l))

\* A stream that is that of a list as far as it goes reads as the list, as
\* some of its first records, or not at all; if nothing is missing, as the
\* list.
LEMMA ParseIsRight ==
  ASSUME NEW l \in Seq(Records), NEW b \in Seq(Nat), NEW o, LaidOut(o, l, b),
         NEW blob \in Seq(Nat), NEW slack \in Nat, Len(blob) <= Len(b) + slack,
         \A i \in 1 .. Len(blob) : i <= Len(b) => blob[i] = b[i]
  PROVE  ReadsAs(ParseRecords(blob, slack), l, 0, Len(blob) = Len(b) + slack)
<1> DEFINE N == Len(l)
           M == Len(blob)
           B == Len(b)
           whole == M = B + slack
<1>1. /\ N \in Nat /\ M \in Nat /\ B \in Nat /\ (\A i \in 1 .. M : blob[i] \in Nat)
      /\ \A i \in 1 .. N : l[i] \in Records /\ l[i].payload \in Seq(Nat) /\ Len(l[i].payload) \in Nat /\ l[i].type \in Nat
  <2>1. \A i \in 1 .. N : l[i] \in Records
        BY ElementOfSeq
  <2> QED BY <2>1, CellsAre, LenProperties, ElementOfSeq
<1>2. PICK from : IsParse(from, blob, slack)
      BY ParseIs
<1>3. /\ ParseRecords(blob, slack) = from[0]
      /\ \A off \in 0 .. M : from[off] = ReadFrom(from, off, blob, slack)
      BY <1>2 DEF IsParse
<1>4. o \in [0 .. N -> Nat] /\ o[0] = 0 /\ o[N] = B /\ \A i \in 1 .. N : RecordAt(o, i, l[i], b)
      BY DEF LaidOut
<1>5. M <= B + slack /\ \A i \in 1 .. M : i <= B => blob[i] = b[i]
      OBVIOUS
<1> HIDE DEF N, M, B
<1> DEFINE T == {d \in Nat : d <= N /\ o[N - d] <= M => ReadsAs(from[o[N - d]], l, N - d, whole)}
<1>6. 0 \in T
  <2> SUFFICES ASSUME o[N - 0] <= M PROVE ReadsAs(from[o[N - 0]], l, N - 0, whole)
      OBVIOUS
  <2>1. N - 0 = N /\ B <= M /\ B \in 0 .. M
        BY <1>1, <1>4
  <2>2. B + Header + slack > M /\ ~(M - B > slack)
        BY <1>1, <1>5, <2>1 DEF Header
  <2>3. from[B] = <<>>
        BY <1>3, <2>1, <2>2 DEF ReadFrom, M
  <2>4. SubSeq(l, N + 1, N) = <<>>
        BY <1>1, SubSeqEmpty
  <2>5. N \in N .. Len(l) /\ Len(l) = N
        BY <1>1 DEF N
  <2> HIDE DEF whole
  <2> QED BY <1>4, <2>1, <2>3, <2>4, <2>5 DEF ReadsAs
<1>7. ASSUME NEW d \in Nat, d \in T PROVE d + 1 \in T
  <2> DEFINE k == N - (d + 1)
  <2> SUFFICES ASSUME d + 1 <= N, o[k] <= M PROVE ReadsAs(from[o[k]], l, k, whole)
      OBVIOUS
  <2>1. k \in 0 .. N /\ k + 1 \in 1 .. N /\ k + 1 = N - d /\ (k + 1) - 1 = k /\ d <= N
        BY <1>1
  <2> HIDE DEF k
  <2> DEFINE r == l[k + 1]
             a == o[k]
             z == Len(r.payload)
  <2>2. /\ o[k + 1] = a + Header + z /\ o[k + 1] <= B /\ b[a + 1] = z + Header /\ b[a + 4] = r.type
        /\ \A j \in 1 .. z : b[a + Header + j] = r.payload[j]
        BY <1>4, <2>1, SMTT(30) DEF RecordAt, B
  <2>3. a \in Nat /\ z \in Nat /\ r \in Records /\ r.payload \in Seq(Nat) /\ a \in 0 .. M
    <3>1. r \in Records /\ r.payload \in Seq(Nat) /\ z \in Nat
          BY <1>1, <2>1
    <3>2. a \in Nat
          BY <1>4, <2>1
    <3>3. a <= M /\ M \in Nat
          BY <1>1
    <3> HIDE DEF a, r, z
    <3> QED BY <3>1, <3>2, <3>3
  <2>4. from[a] = ReadFrom(from, a, blob, slack)
        BY <1>3, <2>3
  <2> HIDE DEF r, a, z, whole
  <2>5. a + Header + z \in Nat /\ a + Header + z <= B /\ 0 <= z
    <3>1. o[k + 1] = a + Header + z /\ o[k + 1] <= B
          BY <2>2
    <3> QED BY <1>1, <2>3, <3>1 DEF Header
  <2>6. k \in k .. Len(l) /\ SubSeq(l, k + 1, k) = <<>>
    <3>1. k \in Int /\ k + 1 \in Int /\ k < k + 1 /\ k <= N /\ Len(l) = N
          BY <1>1, <2>1 DEF N
    <3> QED BY <1>1, <3>1, SubSeqEmpty
  \* Too little is left for the head of a record.
  <2>7. CASE a + Header + slack > M
    <3>1. ~whole
          BY <1>1, <2>3, <2>5, <2>7 DEF Header, whole
    <3>2. from[a] = Broken \/ from[a] = <<>>
          BY <2>4, <2>7 DEF ReadFrom, M
    <3> QED BY <2>6, <3>1, <3>2 DEF ReadsAs, a
  <2>8. CASE ~(a + Header + slack > M)
    <3> DEFINE size == blob[a + 1]
    <3>1. /\ size = z + Header /\ blob[a + 4] = r.type /\ a + 1 \in 1 .. M /\ a + 4 \in 1 .. M
      <4>1. a + 1 \in 1 .. M /\ a + 4 \in 1 .. M /\ a + 1 <= B /\ a + 4 <= B
            BY <1>1, <2>3, <2>5, <2>8 DEF Header
      <4> QED BY <1>5, <2>2, <4>1
    <3> HIDE DEF size
    <3>2. ~(size < Header) /\ a + size = o[k + 1] /\ size \in Nat
          BY <2>2, <2>3, <3>1 DEF Header
    <3>3. from[a] = IF a + size > M THEN Broken
                    ELSE IF from[a + size] = Broken THEN Broken
                    ELSE <<Rec(blob[a + 4], SubSeq(blob, a + 5, a + size))>> \o from[a + size]
          BY <2>4, <2>8, <3>2 DEF ReadFrom, M, size
    \* The record is cut.
    <3>4. CASE a + size > M
      <4>1. ~whole
            BY <1>1, <2>3, <2>5, <3>1, <3>4 DEF Header, whole
      <4> QED BY <3>3, <3>4, <4>1 DEF ReadsAs, a
    <3>5. CASE ~(a + size > M)
      <4> DEFINE rest == from[a + size]
      <4>1. ReadsAs(rest, l, k + 1, whole)
        <5>1. o[N - d] <= M /\ N - d = k + 1
          <6>1. a + size <= M
                BY <1>1, <2>3, <3>2, <3>5
          <6> QED BY <2>1, <3>2, <6>1, Zenon
        <5>2. ReadsAs(from[o[N - d]], l, N - d, whole)
              BY <1>7, <2>1, <5>1
        <5> QED BY <3>2, <5>1, <5>2
      <4> HIDE DEF rest
      <4>2. ASSUME NEW j \in k + 1 .. N
            PROVE  SubSeq(l, (k + 1) + 1, j) # Broken
        <5>1. SubSeq(l, (k + 1) + 1, j) \in Seq(Records)
          <6>1. (k + 1) + 1 \in Int /\ j \in Int /\ \A i \in (k + 1) + 1 .. j : i \in 1 .. N
                BY <1>1, <2>1
          <6>2. \A i \in (k + 1) + 1 .. j : l[i] \in Records
                BY <1>1, <6>1
          <6> QED BY <6>1, <6>2, SubSeqProperties
        <5> QED BY <5>1, BrokenIsNoList
      <4>3. N \in k + 1 .. N /\ Len(l) = N
            BY <1>1, <2>1 DEF N
      <4>4. CASE rest = Broken
        <5>1. ~whole
              BY <4>1, <4>2, <4>3, <4>4 DEF ReadsAs
        <5>2. from[a] = Broken
              BY <3>3, <3>5, <4>4 DEF rest
        <5> QED BY <5>1, <5>2 DEF ReadsAs, a
      <4>5. CASE rest # Broken
        <5>1. SubSeq(blob, a + 5, a + size) = r.payload
          <6> DEFINE p == SubSeq(blob, a + 5, a + size)
          <6>1. /\ a + 5 \in Int /\ a + size \in Int /\ \A i \in a + 5 .. a + size : i \in 1 .. M
                BY <1>1, <2>3, <3>2, <3>5
          <6>2. \A i \in a + 5 .. a + size : blob[i] \in Nat
                BY <1>1, <6>1
          <6>3. /\ p \in Seq(Nat) /\ Len(p) = (IF a + 5 <= a + size THEN (a + size) - (a + 5) + 1 ELSE 0)
                /\ \A i \in 1 .. (a + size) - (a + 5) + 1 : p[i] = blob[a + 5 + i - 1]
                BY <6>1, <6>2, SubSeqProperties, SMTT(30)
          <6> HIDE DEF p
          <6>4. Len(p) = z /\ (a + size) - (a + 5) + 1 = z
                BY <2>3, <3>1, <6>3 DEF Header
          <6>5. ASSUME NEW i \in 1 .. z PROVE p[i] = r.payload[i]
            <7>1. a + 5 + i - 1 = a + Header + i /\ a + Header + i \in 1 .. M /\ a + Header + i <= B
                  BY <1>1, <2>3, <2>5, <3>1, <3>5 DEF Header
            <7>2. blob[a + Header + i] = b[a + Header + i]
                  BY <1>5, <7>1
            <7> QED BY <2>2, <6>3, <6>4, <7>1, <7>2
          <6>6. Len(r.payload) = z
                BY DEF z
          <6>7. p = r.payload
                BY <2>3, <6>3, <6>4, <6>5, <6>6, SeqEqual
          <6> QED BY <6>7 DEF p
        <5>2. Rec(blob[a + 4], SubSeq(blob, a + 5, a + size)) = r
              BY <2>3, <3>1, <5>1 DEF Rec, Records
        <5>3. from[a] = <<r>> \o rest
              BY <3>3, <3>5, <4>5, <5>2 DEF rest
        <5>4. ASSUME NEW j \in k + 1 .. N
              PROVE  <<r>> \o SubSeq(l, (k + 1) + 1, j) = SubSeq(l, k + 1, j)
          <6>1. k + 1 \in 1 .. Len(l) /\ j \in k + 1 .. Len(l)
                BY <2>1, <4>3
          <6> QED BY <6>1, SubSeqRecursiveFirst DEF r
        <5>5. whole => from[a] = SubSeq(l, k + 1, N)
              BY <4>1, <4>3, <5>3, <5>4 DEF ReadsAs
        <5>6. \E j \in k .. N : from[a] = SubSeq(l, k + 1, j)
          <6>1. PICK j \in k + 1 .. N : rest = SubSeq(l, (k + 1) + 1, j)
                BY <4>1, <4>3, <4>5 DEF ReadsAs
          <6>2. j \in k .. N
                BY <2>1
          <6> QED BY <5>3, <5>4, <6>1, <6>2
        <5> QED BY <4>3, <5>5, <5>6 DEF ReadsAs, a
      <4> QED BY <4>4, <4>5
    <3> QED BY <3>4, <3>5
  <2> QED BY <2>7, <2>8
<1>8. Nat \subseteq T
  <2> HIDE DEF T
  <2> QED BY <1>6, <1>7, SetInduction
<1>9. ReadsAs(from[0], l, 0, whole)
  <2>1. N <= N /\ N - N = 0 /\ o[0] <= M
        BY <1>1, <1>4
  <2> HIDE DEF T
  <2>2. N \in T
        BY <1>1, <1>8
  <2> QED BY <1>4, <2>1, <2>2 DEF T
<1> QED BY <1>3, <1>9 DEF M, B

-----------------------------------------------------------------------------
(* Files.                                                                   *)
LEMMA WholeIsList ==
  ASSUME NEW l \in Seq(Records), NEW got, ReadsAs(got, l, 0, TRUE)
  PROVE  got = l
<1>1. got = SubSeq(l, 1, Len(l))
      BY DEF ReadsAs
<1> QED BY <1>1, SubSeqFull

\* Some of the first records of a list are a prefix of it.
LEMMA PartIsPrefix ==
  ASSUME NEW l \in Seq(Records), NEW got, NEW whole, ReadsAs(got, l, 0, whole)
  PROVE  got = Broken \/ (got \in Seq(Records) /\ Seqs!IsPrefix(got, l))
<1> SUFFICES ASSUME NEW j \in 0 .. Len(l), got = SubSeq(l, 1, j)
             PROVE  got \in Seq(Records) /\ Seqs!IsPrefix(got, l)
  <2>1. got = Broken \/ \E j \in 0 .. Len(l) : got = SubSeq(l, 0 + 1, j)
        BY DEF ReadsAs
  <2> QED BY <2>1
<1>1. Len(l) \in Nat /\ \A i \in 1 .. j : l[i] \in Records
      BY LenProperties, ElementOfSeq
<1>2. got \in Seq(Records) /\ Len(got) = IF 1 <= j THEN j - 1 + 1 ELSE 0
      BY <1>1, SubSeqProperties
<1>3. Len(got) = j /\ j <= Len(l)
      BY <1>1, <1>2
<1>4. SubSeq(got, 1, Len(got)) = got
      BY <1>2, SubSeqFull
<1> QED BY <1>2, <1>3, <1>4 DEF Seqs!IsPrefix

\* What is left of a stream when some of its end is cut off.
LEMMA CutIs ==
  ASSUME NEW b \in Seq(Nat), NEW n \in Nat
  PROVE  LET c == SubSeq(b, 1, Len(b) - n) IN
         /\ c \in Seq(Nat) /\ Len(c) <= Len(b) /\ (\A i \in 1 .. Len(c) : c[i] = b[i])
         /\ n = 0 => c = b
<1> DEFINE m == Len(b) - n
           c == SubSeq(b, 1, m)
<1>1. Len(b) \in Nat /\ m \in Int /\ m <= Len(b) /\ \A i \in 1 .. m : b[i] \in Nat
  <2>1. Len(b) \in Nat /\ m \in Int /\ m <= Len(b)
        BY LenProperties
  <2> HIDE DEF m
  <2> QED BY <2>1, ElementOfSeq
<1>5. n = 0 => m = Len(b)
      BY <1>1
<1> HIDE DEF m
<1>2. /\ c \in Seq(Nat) /\ Len(c) = (IF 1 <= m THEN m - 1 + 1 ELSE 0)
      /\ \A i \in 1 .. m - 1 + 1 : c[i] = b[1 + i - 1]
      BY <1>1, SubSeqProperties
<1>3. n = 0 => c = b
      BY <1>5, SubSeqFull
<1> HIDE DEF c
<1>4. Len(c) <= Len(b) /\ \A i \in 1 .. Len(c) : c[i] = b[i]
      BY <1>1, <1>2
<1> QED BY <1>2, <1>3, <1>4 DEF c, m

\* A compressed file reads back, or is refused.
LEMMA CompressedReads ==
  ASSUME NEW l \in Seq(Records), NEW n \in Nat
  PROVE  LET got == FromBytes(Cut(ToFile(l), n)) IN got \in {Broken, l} /\ (n = 0 => got = l)
<1> DEFINE b == ToBlob(l)
           c == SubSeq(b, 1, Len(b) - n)
           got == FromBytes(Cut(ToFile(l), n))
<1>1. b \in Seq(Nat) /\ Len(b) \in Nat
      BY BlobIsLaid, LenProperties
<1>2. PICK o : LaidOut(o, l, b)
      BY BlobIsLaid
<1>3. got = IF Len(c) # Len(b) THEN Broken ELSE ParseRecords(c, 0)
      BY DEF FromBytes, Cut, ToFile
<1>4. c \in Seq(Nat) /\ Len(c) <= Len(b) /\ (\A i \in 1 .. Len(c) : c[i] = b[i]) /\ (n = 0 => c = b)
      BY <1>1, CutIs
<1> HIDE DEF b, c, got
<1>5. CASE Len(c) # Len(b)
      BY <1>3, <1>4, <1>5 DEF got
<1>6. CASE Len(c) = Len(b)
  <2>1. 0 \in Nat /\ Len(c) <= Len(b) + 0 /\ Len(c) = Len(b) + 0
        BY <1>1, <1>6
  <2>2. ReadsAs(ParseRecords(c, 0), l, 0, Len(c) = Len(b) + 0)
        BY <1>1, <1>2, <1>4, <2>1, ParseIsRight
  <2>3. ParseRecords(c, 0) = l
        BY <2>1, <2>2, WholeIsList
  <2> QED BY <1>3, <1>6, <2>3 DEF got
<1> QED BY <1>5, <1>6

\* A legacy file reads back, or as some of its first records, or is refused.
LEMMA LegacyReads ==
  ASSUME NEW l \in Seq(Records), NEW n \in Nat
  PROVE  LET got == FromBytes(Cut(Legacy(l), n)) IN
         (got = Broken \/ (got \in Seq(Records) /\ Seqs!IsPrefix(got, l))) /\ (n = 0 => got = l)
<1> DEFINE b == ToBlob(l)
           t == b \o Trailer
           c == SubSeq(t, 1, Len(t) - n)
           got == FromBytes(Cut(Legacy(l), n))
<1>1. b \in Seq(Nat) /\ Len(b) \in Nat
      BY BlobIsLaid, LenProperties
<1>2. PICK o : LaidOut(o, l, b)
      BY BlobIsLaid
<1>3. got = ParseRecords(c, Len(Trailer))
      BY DEF FromBytes, Cut, Legacy
<1>4. Trailer \in Seq(Nat) /\ Len(Trailer) = 4
      BY DEF Trailer
<1> HIDE DEF b, got
<1>5. t \in Seq(Nat) /\ Len(t) = Len(b) + 4 /\ \A i \in 1 .. Len(b) : t[i] = b[i]
  <2>1. /\ t \in Seq(Nat) /\ Len(t) = Len(b) + Len(Trailer)
        /\ \A i \in 1 .. Len(b) + Len(Trailer) : t[i] = IF i <= Len(b) THEN b[i] ELSE Trailer[i - Len(b)]
        BY <1>1, <1>4, ConcatProperties
  <2> HIDE DEF t
  <2> QED BY <1>1, <1>4, <2>1, SMTT(30)
<1> HIDE DEF t
<1>6. c \in Seq(Nat) /\ Len(c) <= Len(t) /\ (\A i \in 1 .. Len(c) : c[i] = t[i]) /\ (n = 0 => c = t)
      BY <1>5, CutIs
<1> HIDE DEF c
<1>7. \A i \in 1 .. Len(c) : i <= Len(b) => c[i] = b[i]
      BY <1>1, <1>5, <1>6
<1>8. ReadsAs(ParseRecords(c, 4), l, 0, Len(c) = Len(b) + 4)
      BY <1>1, <1>2, <1>5, <1>6, <1>7, ParseIsRight, ZenonT(30)
<1>9. got = Broken \/ (got \in Seq(Records) /\ Seqs!IsPrefix(got, l))
      BY <1>3, <1>4, <1>8, PartIsPrefix
<1>10. n = 0 => got = l
      BY <1>3, <1>4, <1>5, <1>6, <1>8, WholeIsList
<1> QED BY <1>9, <1>10 DEF got

\* What is read of a file there is.
LEMMA StoredReads ==
  ASSUME NEW st \in StoredFiles
  PROVE  LET got == FromBytes(st.file) IN
         /\ st.list \in RecordLists /\ st.list \in Seq(Records) /\ st.whole \in BOOLEAN
         /\ got = Broken \/ got \in Seq(Records)
         /\ got = st.list \/ ~st.whole
         /\ got \in {Broken, st.list} \/ (st.file.variant = "legacy" /\ Seqs!IsPrefix(got, st.list))
<1>0. PICK l \in RecordLists :
        \E n \in Cuts, f \in {ToFile(l), Legacy(l)} : st = [list |-> l, whole |-> n = 0, file |-> Cut(f, n)]
      BY DEF StoredFiles
<1>1. PICK n \in Cuts, f \in {ToFile(l), Legacy(l)} : st = [list |-> l, whole |-> n = 0, file |-> Cut(f, n)]
      BY <1>0
<1>2. l \in Seq(Records) /\ n \in Nat
      BY RecordListsAssumption, TypesAssumption DEF Records
<1>3. st.list = l /\ st.whole = (n = 0) /\ st.file = Cut(f, n)
      BY <1>1
<1>4. CASE f = ToFile(l)
  <2> DEFINE got == FromBytes(Cut(ToFile(l), n))
  <2>1. got \in {Broken, l} /\ (n = 0 => got = l)
        BY <1>2, CompressedReads
  <2>2. FromBytes(st.file) = got
        BY <1>3, <1>4
  <2> HIDE DEF got
  <2> QED BY <1>1, <1>2, <1>3, <2>1, <2>2
<1>5. CASE f = Legacy(l)
  <2> DEFINE got == FromBytes(Cut(Legacy(l), n))
  <2>1. (got = Broken \/ (got \in Seq(Records) /\ Seqs!IsPrefix(got, l))) /\ (n = 0 => got = l)
        BY <1>2, LegacyReads
  <2>2. FromBytes(st.file) = got
        BY <1>3, <1>5
  <2>3. Cut(Legacy(l), n).variant = "legacy"
        BY DEF Cut, Legacy
  <2> HIDE DEF got
  <2> QED BY <1>1, <1>2, <1>3, <1>5, <2>1, <2>2, <2>3
<1> QED BY <1>4, <1>5

\* What a prefix of a list has in it.
LEMMA PrefixTypes ==
  ASSUME NEW l \in Seq(Records), NEW m \in Seq(Records), Seqs!IsPrefix(m, l)
  PROVE  Types(m) \subseteq Types(l)
<1>1. /\ Len(m) <= Len(l) /\ SubSeq(m, 1, Len(m)) = SubSeq(l, 1, Len(m))
      /\ DOMAIN m = 1 .. Len(m) /\ DOMAIN l = 1 .. Len(l) /\ Len(m) \in Nat /\ Len(l) \in Nat
      /\ \A i \in 1 .. Len(m) : l[i] \in Records
      BY LenProperties, ElementOfSeq DEF Seqs!IsPrefix
<1>2. SubSeq(m, 1, Len(m)) = m
      BY SubSeqFull
<1>3. \A i \in 1 .. Len(m) - 1 + 1 : SubSeq(l, 1, Len(m))[i] = l[1 + i - 1]
      BY <1>1, SubSeqProperties
<1>4. ASSUME NEW i \in 1 .. Len(m) PROVE m[i] = l[i] /\ i \in DOMAIN l
  <2>1. i \in 1 .. Len(m) - 1 + 1 /\ 1 + i - 1 = i /\ i \in DOMAIN l
        BY <1>1
  <2> QED BY <1>1, <1>2, <1>3, <2>1
<1> QED BY <1>1, <1>4 DEF Types

-----------------------------------------------------------------------------
(* Composing: a file of `base` into which the records C were copied, and    *)
(* from which D were removed.                                               *)
Stage(base, src, cfg, C, D) ==
  /\ cfg \in Seq(Records)
  /\ Types(cfg) = (Types(base) \cup C) \ D
  /\ Order(cfg, Types(base)) = Order(base, Types(base) \ D)
  /\ \A t \in Types(cfg) : FirstPayload(cfg, t) = FirstPayload(IF t \in C THEN src ELSE base, t)
  /\ Geometry \in Types(cfg) /\ (Geometry \in Types(base) => Seqs!Last(base).type = Geometry)
       => Seqs!Last(cfg).type = Geometry

\* A list that has types is not empty.
LEMMA NotEmpty ==
  ASSUME NEW l \in Seq(Records), Types(l) # {}
  PROVE  l # <<>> /\ Seqs!Last(l) = l[Len(l)] /\ Len(l) \in 1 .. Len(l)
<1>1. DOMAIN l = 1 .. Len(l) /\ Len(l) \in Nat
      BY LenProperties
<1>2. Len(l) # 0
      BY <1>1 DEF Types
<1> QED BY <1>1, <1>2, EmptySeq DEF Seqs!Last

\* At first nothing is copied and nothing removed.
LEMMA StageStart ==
  ASSUME NEW base \in Seq(Records), NEW src
  PROVE  Stage(base, src, base, {}, {})
<1>1. Types(base) \ {} = Types(base) /\ (Types(base) \cup {}) \ {} = Types(base)
      OBVIOUS
<1>2. Geometry \in Types(base) /\ (Geometry \in Types(base) => Seqs!Last(base).type = Geometry)
        => Seqs!Last(base).type = Geometry
      OBVIOUS
<1> QED BY <1>1, <1>2 DEF Stage

\* A copied record belongs to the copied types from then on.
LEMMA StageCopy ==
  ASSUME NEW base \in Seq(Records), NEW src \in Seq(Records), NEW cfg, NEW C, Stage(base, src, cfg, C, {}),
         NEW t \in Types(src)
  PROVE  Stage(base, src, Upserted(cfg, t, src[FirstOf(src, t)].payload), C \cup {t}, {})
<1> DEFINE p == src[FirstOf(src, t)].payload
           u == Upserted(cfg, t, p)
           A == Types(base)
<1>1. /\ cfg \in Seq(Records) /\ Types(cfg) = (A \cup C) \ {} /\ Order(cfg, A) = Order(base, A \ {})
      /\ \A x \in Types(cfg) : FirstPayload(cfg, x) = FirstPayload(IF x \in C THEN src ELSE base, x)
      /\ Geometry \in Types(cfg) /\ (Geometry \in A => Seqs!Last(base).type = Geometry)
           => Seqs!Last(cfg).type = Geometry
      BY DEF Stage
<1>2. t \in Nat /\ p \in Seq(Nat) /\ p = FirstPayload(src, t)
  <2>1. FirstOf(src, t) \in 1 .. Len(src) /\ src[FirstOf(src, t)].type = t
        BY FirstIs
  <2>2. src[FirstOf(src, t)] \in Records
        BY <2>1, ElementOfSeq
  <2> QED BY <2>1, <2>2 DEF Records, FirstPayload
<1> HIDE DEF p, A
<1>3. UpsertedWell(cfg, t, p, u)
      BY <1>1, <1>2, UpsertIsRight
<1> HIDE DEF u
<1>4. /\ u \in Seq(Records) /\ Types(u) = Types(cfg) \cup {t}
      /\ FirstPayload(u, t) = p /\ \A x \in Types(cfg) \ {t} : FirstPayload(u, x) = FirstPayload(cfg, x)
      /\ \A S : t \notin S \/ t \in Types(cfg) => Order(u, S) = Order(cfg, S)
      /\ cfg # <<>> /\ Seqs!Last(cfg).type = Geometry => Seqs!Last(u).type = Geometry
      /\ t = Geometry /\ t \notin Types(cfg) => Seqs!Last(u).type = Geometry
      BY <1>3 DEF UpsertedWell
<1>5. Types(u) = (A \cup (C \cup {t})) \ {}
      BY <1>1, <1>4
<1>6. Order(u, A) = Order(base, A \ {})
  <2>1. t \notin A \/ t \in Types(cfg)
        BY <1>1
  <2> QED BY <1>1, <1>4, <2>1
<1>7. ASSUME NEW x \in Types(u)
      PROVE  FirstPayload(u, x) = FirstPayload(IF x \in C \cup {t} THEN src ELSE base, x)
  <2>1. CASE x = t
        BY <1>2, <1>4, <2>1
  <2>2. CASE x # t
        BY <1>1, <1>4, <2>2
  <2> QED BY <2>1, <2>2
<1>8. ASSUME Geometry \in Types(u), Geometry \in A => Seqs!Last(base).type = Geometry
      PROVE  Seqs!Last(u).type = Geometry
  <2>1. CASE Geometry \in Types(cfg)
    <3>1. cfg # <<>>
          BY <1>1, <2>1, NotEmpty
    <3> QED BY <1>1, <1>4, <1>8, <2>1, <3>1
  <2>2. CASE Geometry \notin Types(cfg)
        BY <1>4, <1>8, <2>2
  <2> QED BY <2>1, <2>2
<1> QED BY <1>4, <1>5, <1>6, <1>7, <1>8 DEF Stage, A, u, p

\* A removed type belongs to the removed ones from then on.
LEMMA StageDrop ==
  ASSUME NEW base \in Seq(Records), NEW src, NEW cfg, NEW C, NEW D, Stage(base, src, cfg, C, D), NEW d
  PROVE  Stage(base, src, Removed(cfg, d), C, D \cup {d})
<1> DEFINE A == Types(base)
           T == Types(cfg)
           u == Removed(cfg, d)
<1>1. /\ cfg \in Seq(Records) /\ T = (A \cup C) \ D /\ Order(cfg, A) = Order(base, A \ D)
      /\ \A x \in T : FirstPayload(cfg, x) = FirstPayload(IF x \in C THEN src ELSE base, x)
      /\ Geometry \in T /\ (Geometry \in A => Seqs!Last(base).type = Geometry)
           => Seqs!Last(cfg).type = Geometry
      BY DEF Stage
<1>2. u = Kept(cfg, T \ {d})
      BY DEF Removed
<1>3. u \in Seq(Records) /\ Types(u) = T \cap (T \ {d})
      BY <1>1, <1>2, KeptIsList, TypesOfKept
<1> HIDE DEF A, T, u
<1>4. Types(u) = (A \cup C) \ (D \cup {d})
      BY <1>1, <1>3
<1>5. Order(u, A) = Order(base, A \ (D \cup {d}))
  <2>1. Kept(u, A) = Kept(cfg, (T \ {d}) \cap A) /\ Kept(Kept(cfg, A), T \ {d}) = Kept(cfg, A \cap (T \ {d}))
        BY <1>1, <1>2, KeptOfKept
  <2>2. (T \ {d}) \cap A = A \cap (T \ {d}) /\ (A \ D) \cap (T \ {d}) = A \ (D \cup {d})
        BY <1>1
  <2>3. Kept(Kept(base, A \ D), T \ {d}) = Kept(base, A \ (D \cup {d}))
        BY <2>2, KeptOfKept
  <2>4. Kept(cfg, A) \in Seq(Records) /\ Kept(base, A \ D) \in Seq(Records)
        /\ TypesOf(Kept(cfg, A)) = TypesOf(Kept(base, A \ D))
        BY <1>1, KeptIsList DEF Order
  <2>5. TypesOf(Kept(Kept(cfg, A), T \ {d})) = TypesOf(Kept(Kept(base, A \ D), T \ {d}))
        BY <2>4, KeptByType
  <2> QED BY <2>1, <2>2, <2>3, <2>5 DEF Order
<1>6. ASSUME NEW x \in Types(u)
      PROVE  FirstPayload(u, x) = FirstPayload(IF x \in C THEN src ELSE base, x)
  <2>1. x \in T \cap (T \ {d})
        BY <1>3
  <2>2. FirstPayload(u, x) = FirstPayload(cfg, x)
        BY <1>1, <1>2, <2>1, FirstOfKept DEF T
  <2> QED BY <1>1, <2>1, <2>2
<1>7. ASSUME Geometry \in Types(u), Geometry \in A => Seqs!Last(base).type = Geometry
      PROVE  Seqs!Last(u).type = Geometry
  <2>1. Geometry \in T \ {d} /\ Seqs!Last(cfg).type = Geometry
        BY <1>1, <1>3, <1>7
  <2>2. cfg # <<>> /\ cfg[Len(cfg)].type \in T \ {d}
        BY <1>1, <2>1, NotEmpty DEF T
  <2> QED BY <1>1, <1>2, <2>1, <2>2, LastOfKept
<1> QED BY <1>3, <1>4, <1>5, <1>6, <1>7 DEF Stage, A, u

\* The types that are asked for, one after the other.
LEMMA AskedOf ==
  ASSUME NEW s \in Seq(Nat)
  PROVE  /\ s = <<>> => Asked(s) = {}
         /\ s # <<>> => Head(s) \in Nat /\ Tail(s) \in Seq(Nat) /\ Asked(s) = {Head(s)} \cup Asked(Tail(s))
<1>1. DOMAIN s = 1 .. Len(s) /\ Len(s) \in Nat
      BY LenProperties
<1>2. ASSUME s = <<>> PROVE Asked(s) = {}
  <2>1. Len(s) = 0
        BY <1>2, EmptySeq
  <2> QED BY <1>1, <2>1 DEF Asked
<1>3. ASSUME s # <<>> PROVE Head(s) \in Nat /\ Tail(s) \in Seq(Nat) /\ Asked(s) = {Head(s)} \cup Asked(Tail(s))
  <2> DEFINE t == Tail(s)
  <2>1. Head(s) \in Nat /\ t \in Seq(Nat) /\ Len(t) = Len(s) - 1 /\ \A i \in 1 .. Len(t) : t[i] = s[i + 1]
        BY <1>3, HeadTailProperties
  <2>2. Head(s) = s[1] /\ Len(s) # 0
    <3>1. Len(s) # 0
          BY <1>3, EmptySeq
    <3> QED BY <3>1
  <2>3. DOMAIN t = 1 .. Len(t)
        BY <2>1, LenProperties
  <2> HIDE DEF t
  <2>4. ASSUME NEW x \in Asked(s) PROVE x \in {Head(s)} \cup Asked(t)
    <3>1. PICK i \in 1 .. Len(s) : s[i] = x
          BY <1>1 DEF Asked
    <3>2. CASE i = 1
          BY <2>2, <3>1, <3>2
    <3>3. CASE i # 1
      <4>1. i - 1 \in 1 .. Len(t) /\ (i - 1) + 1 = i
            BY <1>1, <2>1, <3>3
      <4>2. t[i - 1] = x
            BY <2>1, <3>1, <4>1
      <4> QED BY <2>3, <4>1, <4>2 DEF Asked
    <3> QED BY <3>2, <3>3
  <2>5. Head(s) \in Asked(s)
    <3>1. 1 \in DOMAIN s
          BY <1>1, <2>2
    <3> QED BY <2>2, <3>1 DEF Asked
  <2>6. ASSUME NEW x \in Asked(t) PROVE x \in Asked(s)
    <3>1. PICK i \in 1 .. Len(t) : t[i] = x
          BY <2>3 DEF Asked
    <3>2. i + 1 \in DOMAIN s /\ s[i + 1] = x
          BY <1>1, <2>1, <3>1, SMTT(30)
    <3> QED BY <3>2 DEF Asked
  <2> QED BY <2>1, <2>4, <2>5, <2>6 DEF t
<1> QED BY <1>2, <1>3

\* What is written reads back.
LEMMA WrittenReads ==
  ASSUME NEW l \in Seq(Records) PROVE FromBytes(ToFile(l)) = l
<1>1. Cut(ToFile(l), 0) = ToFile(l)
  <2> DEFINE b == ToBlob(l)
  <2>1. b \in Seq(Nat) /\ Len(b) \in Nat
        BY BlobIsLaid, LenProperties
  <2>2. SubSeq(b, 1, Len(b) - 0) = b
    <3>1. Len(b) - 0 = Len(b)
          BY <2>1
    <3> QED BY <2>1, <3>1, SubSeqFull
  <2> QED BY <2>2 DEF Cut, ToFile
<1>2. FromBytes(Cut(ToFile(l), 0)) = l
      BY CompressedReads
<1> QED BY <1>1, <1>2

-----------------------------------------------------------------------------
(* config build.                                                            *)
BaseRead == FromBytes(bbase.file)
SourceRead == FromBytes(bsrc.file)
Importing == {"import", "imported", "unwritten", "panic"}

\* The files are ones there are, and what is asked for are types.
FilesAreThere ==
  bat \notin Importing =>
    bbase \in StoredFiles /\ bsrc \in StoredFiles /\ bcopy \in Seq(Nat) /\ bdrop \in Seq(Nat)
\* What has been asked for is what has been done and what is left to do.
Composing ==
  LET copy == Asked(basked.copy)  drop == Asked(basked.drop) IN
  /\ bat \in {"load", "source"} => copy = Asked(bcopy)
  /\ bat \in {"load", "source", "copy"} => drop = Asked(bdrop)
  /\ bat \in {"source", "copy", "remove", "back", "ok"} => BaseRead # Broken
  /\ bat = "source" => bcfg = BaseRead
  /\ bat = "copy" =>
       SourceRead # Broken /\ \E done : copy = done \cup Asked(bcopy) /\ Stage(BaseRead, SourceRead, bcfg, done, {})
  /\ bat = "remove" =>
       \E done : drop = done \cup Asked(bdrop) /\ Stage(BaseRead, SourceRead, bcfg, copy, done)
  /\ bat \in {"back", "ok"} => Stage(BaseRead, SourceRead, bcfg, copy, drop) /\ bout = ToFile(bcfg)
Unread == bat = "unread" => ~bbase.whole \/ ~bsrc.whole
BuildInv == FilesAreThere /\ Composing /\ Unread

\* The invariant holds of the files that are there.
LEMMA BuildStarts == FileInit => BuildInv
<1> SUFFICES ASSUME FileInit PROVE BuildInv
    OBVIOUS
<1>1. CASE bat = "load"
  <2>1. bbase \in StoredFiles /\ bsrc \in StoredFiles /\ bcopy \in Seq(Nat) /\ bdrop \in Seq(Nat)
        BY <1>1, TypesAssumption DEF FileInit
  <2>2. basked.copy = bcopy /\ basked.drop = bdrop
        BY DEF FileInit
  <2> QED BY <1>1, <2>1, <2>2 DEF BuildInv, FilesAreThere, Composing, Unread
<1>2. CASE bat = "import"
      BY <1>2 DEF BuildInv, FilesAreThere, Composing, Unread, Importing
<1> QED BY <1>1, <1>2 DEF FileInit

\* And every step of a composition, a save, a read or an import keeps it.
LEMMA BuildSteps == BuildInv /\ [FileNext]_filevars => BuildInv'
<1> SUFFICES ASSUME BuildInv, [FileNext]_filevars PROVE BuildInv'
    OBVIOUS
<1> USE DEF BuildInv
<1>1. CASE LoadBase
  <2>1. /\ bat = "load" /\ UNCHANGED <<bcopy, bdrop, bbase, bsrc, basked>>
        /\ \/ BaseRead # Broken /\ bat' = "source" /\ bcfg' = BaseRead
           \/ BaseRead = Broken /\ bat' = "unread"
        BY <1>1 DEF LoadBase, BGoes, bfixed, BaseRead
  <2>2. FilesAreThere' /\ BaseRead' = BaseRead
        BY <2>1 DEF FilesAreThere, Importing, BaseRead
  <2>3. Composing'
        BY <2>1, <2>2 DEF Composing
  <2>4. Unread'
    <3> SUFFICES ASSUME BaseRead = Broken PROVE ~bbase.whole
        BY <2>1 DEF Unread
    <3>1. bbase \in StoredFiles
          BY <2>1 DEF FilesAreThere, Importing
    <3> QED BY <3>1, StoredReads, BrokenIsNoList DEF BaseRead
  <2> QED BY <2>2, <2>3, <2>4
<1>2. CASE LoadSource
  <2>1. /\ bat = "source" /\ UNCHANGED <<bcopy, bdrop, bbase, bsrc, basked, bcfg>>
        /\ \/ bcopy = <<>> /\ bat' = "remove"
           \/ SourceRead = Broken /\ bat' = "unread"
           \/ SourceRead # Broken /\ bat' = "copy"
        BY <1>2 DEF LoadSource, BGoes, bfixed, SourceRead
  <2>2. FilesAreThere' /\ BaseRead' = BaseRead /\ SourceRead' = SourceRead
        BY <2>1 DEF FilesAreThere, Importing, BaseRead, SourceRead
  <2>3. bbase \in StoredFiles /\ bsrc \in StoredFiles /\ bcopy \in Seq(Nat)
        BY <2>1 DEF FilesAreThere, Importing
  <2>4. BaseRead # Broken /\ bcfg = BaseRead /\ Asked(basked.copy) = Asked(bcopy) /\ Asked(basked.drop) = Asked(bdrop)
        BY <2>1 DEF Composing
  <2>5. Stage(BaseRead, SourceRead, bcfg, {}, {})
    <3>1. BaseRead \in Seq(Records)
          BY <2>3, <2>4, StoredReads DEF BaseRead
    <3> QED BY <2>4, <3>1, StageStart
  <2>6. Composing'
    <3>1. CASE bcopy = <<>> /\ bat' = "remove"
      <4>1. Asked(basked.copy) = {}
            BY <2>3, <2>4, <3>1, AskedOf
      <4>2. \E done : Asked(basked.drop) = done \cup Asked(bdrop) /\ Stage(BaseRead, SourceRead, bcfg, {}, done)
            BY <2>4, <2>5
      <4> QED BY <2>1, <2>2, <2>4, <3>1, <4>1, <4>2 DEF Composing
    <3>2. CASE SourceRead = Broken /\ bat' = "unread"
          BY <3>2 DEF Composing
    <3>3. CASE SourceRead # Broken /\ bat' = "copy"
      <4>1. \E done : Asked(basked.copy) = done \cup Asked(bcopy) /\ Stage(BaseRead, SourceRead, bcfg, done, {})
            BY <2>4, <2>5
      <4> QED BY <2>1, <2>2, <2>4, <3>3, <4>1 DEF Composing
    <3> QED BY <2>1, <3>1, <3>2, <3>3
  <2>7. Unread'
    <3> SUFFICES ASSUME SourceRead = Broken PROVE ~bsrc.whole
        BY <2>1 DEF Unread
    <3> QED BY <2>3, StoredReads, BrokenIsNoList DEF SourceRead
  <2> QED BY <2>2, <2>6, <2>7
<1>3. CASE CopyRecord
  <2> DEFINE t == Head(bcopy)
             i == FirstOf(SourceRead, t)
  <2>1. /\ bat = "copy" /\ bcopy # <<>> /\ UNCHANGED <<bdrop, bbase, bsrc, basked>>
        /\ \/ i # 0 /\ bat' = "copy" /\ bcopy' = Tail(bcopy) /\ bcfg' = Upserted(bcfg, t, SourceRead[i].payload)
           \/ bat' = "failed" /\ bcopy' = bcopy
        BY <1>3 DEF CopyRecord, BGoes, bfixed, SourceRead
  <2>2. bbase \in StoredFiles /\ bsrc \in StoredFiles /\ bcopy \in Seq(Nat) /\ bdrop \in Seq(Nat)
        BY <2>1 DEF FilesAreThere, Importing
  <2>3. t \in Nat /\ Tail(bcopy) \in Seq(Nat) /\ Asked(bcopy) = {t} \cup Asked(Tail(bcopy))
        BY <2>1, <2>2, AskedOf
  <2>4. FilesAreThere' /\ BaseRead' = BaseRead /\ SourceRead' = SourceRead
        BY <2>1, <2>2, <2>3 DEF FilesAreThere, BaseRead, SourceRead
  <2>5. Composing'
    <3>1. CASE bat' = "failed"
          BY <3>1 DEF Composing
    <3>2. CASE i # 0 /\ bat' = "copy" /\ bcopy' = Tail(bcopy) /\ bcfg' = Upserted(bcfg, t, SourceRead[i].payload)
      <4>1. BaseRead # Broken /\ SourceRead # Broken /\ Asked(basked.drop) = Asked(bdrop)
            BY <2>1 DEF Composing
      <4>2. PICK done : Asked(basked.copy) = done \cup Asked(bcopy) /\ Stage(BaseRead, SourceRead, bcfg, done, {})
            BY <2>1 DEF Composing
      <4>3. BaseRead \in Seq(Records) /\ SourceRead \in Seq(Records)
            BY <2>2, <4>1, StoredReads DEF BaseRead, SourceRead
      <4>4. t \in Types(SourceRead)
            BY <3>2, <4>3, FirstIs
      <4>5. Stage(BaseRead, SourceRead, bcfg', done \cup {t}, {})
            BY <3>2, <4>2, <4>3, <4>4, StageCopy
      <4>6. Asked(basked.copy) = (done \cup {t}) \cup Asked(bcopy')
            BY <2>3, <3>2, <4>2
      <4>7. \E d : Asked(basked.copy) = d \cup Asked(bcopy') /\ Stage(BaseRead, SourceRead, bcfg', d, {})
            BY <4>5, <4>6
      <4> QED BY <2>1, <2>4, <3>2, <4>1, <4>7 DEF Composing
    <3> QED BY <2>1, <3>1, <3>2
  <2>6. Unread'
        BY <2>1 DEF Unread
  <2> QED BY <2>4, <2>5, <2>6
<1>4. CASE Copied
  <2>1. bat = "copy" /\ bat' = "remove" /\ bcopy = <<>> /\ UNCHANGED <<bcopy, bdrop, bcfg, bbase, bsrc, basked>>
        BY <1>4 DEF Copied, BGoes, bfixed
  <2>2. FilesAreThere' /\ BaseRead' = BaseRead /\ SourceRead' = SourceRead
        BY <2>1 DEF FilesAreThere, Importing, BaseRead, SourceRead
  <2>3. BaseRead # Broken /\ Asked(basked.drop) = Asked(bdrop)
        BY <2>1 DEF Composing
  <2>4. PICK done : Asked(basked.copy) = done \cup Asked(bcopy) /\ Stage(BaseRead, SourceRead, bcfg, done, {})
        BY <2>1 DEF Composing
  <2>5. Asked(bcopy) = {}
    <3>1. bcopy \in Seq(Nat)
          BY <2>1 DEF FilesAreThere, Importing
    <3> QED BY <2>1, <3>1, AskedOf
  <2>6. Asked(basked.copy) = done
        BY <2>4, <2>5
  <2>7. \E d : Asked(basked.drop) = d \cup Asked(bdrop) /\ Stage(BaseRead, SourceRead, bcfg, Asked(basked.copy), d)
        BY <2>3, <2>4, <2>6
  <2>8. Composing'
        BY <2>1, <2>2, <2>3, <2>7 DEF Composing
  <2> QED BY <2>1, <2>2, <2>8 DEF Unread
<1>5. CASE RemoveRecord
  <2> DEFINE t == Head(bdrop)
  <2>1. /\ bat = "remove" /\ bdrop # <<>> /\ bdrop' = Tail(bdrop) /\ bcfg' = Removed(bcfg, t)
        /\ UNCHANGED <<bat, bcopy, bbase, bsrc, basked>>
        BY <1>5 DEF RemoveRecord, bfixed
  <2>2. bbase \in StoredFiles /\ bsrc \in StoredFiles /\ bcopy \in Seq(Nat) /\ bdrop \in Seq(Nat)
        BY <2>1 DEF FilesAreThere, Importing
  <2>3. Tail(bdrop) \in Seq(Nat) /\ Asked(bdrop) = {t} \cup Asked(Tail(bdrop))
        BY <2>1, <2>2, AskedOf
  <2>4. FilesAreThere' /\ BaseRead' = BaseRead /\ SourceRead' = SourceRead
        BY <2>1, <2>2, <2>3 DEF FilesAreThere, BaseRead, SourceRead
  <2>5. BaseRead # Broken
        BY <2>1 DEF Composing
  <2>6. PICK done : Asked(basked.drop) = done \cup Asked(bdrop) /\ Stage(BaseRead, SourceRead, bcfg, Asked(basked.copy), done)
        BY <2>1 DEF Composing
  <2>7. BaseRead \in Seq(Records)
        BY <2>2, <2>5, StoredReads DEF BaseRead
  <2>8. Stage(BaseRead, SourceRead, bcfg', Asked(basked.copy), done \cup {t})
        BY <2>1, <2>6, <2>7, StageDrop
  <2>9. Asked(basked.drop) = (done \cup {t}) \cup Asked(bdrop')
        BY <2>1, <2>3, <2>6
  <2>10. \E d : Asked(basked.drop) = d \cup Asked(bdrop') /\ Stage(BaseRead, SourceRead, bcfg', Asked(basked.copy), d)
        BY <2>8, <2>9
  <2>11. Composing'
        BY <2>1, <2>4, <2>5, <2>10 DEF Composing
  <2> QED BY <2>1, <2>4, <2>11 DEF Unread
<1>6. CASE Save
  <2>1. /\ bat = "remove" /\ bdrop = <<>> /\ UNCHANGED <<bcopy, bdrop, bcfg, bbase, bsrc, basked>>
        /\ \/ bat' = "back" /\ bout' = ToFile(bcfg)
           \/ bat' = "failed"
        BY <1>6 DEF Save, BGoes, bfixed
  <2>2. FilesAreThere' /\ BaseRead' = BaseRead /\ SourceRead' = SourceRead
        BY <2>1 DEF FilesAreThere, Importing, BaseRead, SourceRead
  <2>3. BaseRead # Broken
        BY <2>1 DEF Composing
  <2>4. PICK done : Asked(basked.drop) = done \cup Asked(bdrop) /\ Stage(BaseRead, SourceRead, bcfg, Asked(basked.copy), done)
        BY <2>1 DEF Composing
  <2>5. Asked(bdrop) = {}
    <3>1. bdrop \in Seq(Nat)
          BY <2>1 DEF FilesAreThere, Importing
    <3> QED BY <2>1, <3>1, AskedOf
  <2>6. Asked(basked.drop) = done
        BY <2>4, <2>5
  <2>7. Stage(BaseRead, SourceRead, bcfg, Asked(basked.copy), Asked(basked.drop))
        BY <2>4, <2>6
  <2>8. Composing'
        BY <2>1, <2>2, <2>3, <2>7 DEF Composing
  <2> QED BY <2>1, <2>2, <2>8 DEF Unread
<1>7. CASE ReadBack
  <2>1. bat = "back" /\ bat' \in {"ok", "failed"} /\ UNCHANGED <<bcopy, bdrop, bcfg, bout, bbase, bsrc, basked>>
        BY <1>7 DEF ReadBack, BGoes, bfixed
  <2>2. FilesAreThere' /\ BaseRead' = BaseRead /\ SourceRead' = SourceRead
        BY <2>1 DEF FilesAreThere, Importing, BaseRead, SourceRead
  <2>3. Composing'
        BY <2>1, <2>2 DEF Composing
  <2> QED BY <2>1, <2>2, <2>3 DEF Unread
<1>8. CASE Import
  <2>1. bat' \in Importing
        BY <1>8 DEF Import, BGoes, Importing
  <2> QED BY <2>1 DEF FilesAreThere, Composing, Unread, Importing
<1>9. CASE UNCHANGED filevars
      BY <1>9 DEF filevars, FilesAreThere, Composing, Unread, BaseRead, SourceRead
<1> QED BY <1>1, <1>2, <1>3, <1>4, <1>5, <1>6, <1>7, <1>8, <1>9 DEF FileNext

\* What the invariant says of a file read back is the property.
LEMMA BuildFollows == BuildInv => FilesReadBack
<1> SUFFICES ASSUME BuildInv PROVE FilesReadBack
    OBVIOUS
<1>1. bat = "source" => bcfg = bbase.list \/ (~bbase.whole /\ bbase.file.variant = "legacy" /\ Seqs!IsPrefix(bcfg, bbase.list))
  <2> SUFFICES ASSUME bat = "source"
               PROVE bcfg = bbase.list \/ (~bbase.whole /\ bbase.file.variant = "legacy" /\ Seqs!IsPrefix(bcfg, bbase.list))
      OBVIOUS
  <2>1. bbase \in StoredFiles /\ bcfg = BaseRead /\ BaseRead # Broken
        BY DEF BuildInv, FilesAreThere, Composing, Importing
  <2> QED BY <2>1, StoredReads DEF BaseRead
<1>2. bat = "unread" => ~bbase.whole \/ ~bsrc.whole
      BY DEF BuildInv, Unread
<1>3. bat = "ok" => FromBytes(bout) = bcfg /\ Composed
  <2> SUFFICES ASSUME bat = "ok" PROVE FromBytes(bout) = bcfg /\ Composed
      OBVIOUS
  <2>1. Stage(BaseRead, SourceRead, bcfg, Asked(basked.copy), Asked(basked.drop)) /\ bout = ToFile(bcfg)
        BY DEF BuildInv, Composing
  <2>2. FromBytes(bout) = bcfg
        BY <2>1, WrittenReads DEF Stage
  <2>3. Composed
        BY <2>1 DEF Stage, Composed, BaseRead, SourceRead
  <2> QED BY <2>2, <2>3
<1> QED BY <1>1, <1>2, <1>3 DEF FilesReadBack

\* A file reads back as the records it was made of, in both variants, or not at
\* all, and what config build calls good is what was asked for: for every set
\* of lists, every cut and every choice of records to copy and to remove.
THEOREM WhatIsBuiltReadsBack == FileSpec => []FilesReadBack
<1> QED BY BuildStarts, BuildSteps, BuildFollows, PTL DEF FileSpec

-----------------------------------------------------------------------------
(* Types of config build and config import.                                 *)

\* The types there are.
Known == UNION {Types(l) : l \in RecordLists}

\* The records that are composed are records, of types there are.
KnownTypes == bcfg \in Seq(Records) /\ Types(bcfg) \subseteq Known
\* The commands' places, and what import may name.
BuildPlaces == {"load", "source", "copy", "remove", "back", "ok", "failed", "unread", "import", "imported",
            "unwritten", "panic"}
NamesAreFields ==
  bspec.named \subseteq DOMAIN Own(bspec.spec) \cup
    {"chip", "map", "regs", "geometry", "constant", "module", "mapping", "over", "library"}
FileInv == ImportInv /\ BuildInv /\ KnownTypes /\ bat \in BuildPlaces /\ NamesAreFields

\* What is read of a file has no type but those of its list.
LEMMA ReadIsKnown ==
  ASSUME NEW st \in StoredFiles, FromBytes(st.file) # Broken
  PROVE  FromBytes(st.file) \in Seq(Records) /\ Types(FromBytes(st.file)) \subseteq Known
<1> DEFINE got == FromBytes(st.file)
<1>1. /\ st.list \in RecordLists /\ st.list \in Seq(Records) /\ got \in Seq(Records)
      /\ got = st.list \/ Seqs!IsPrefix(got, st.list)
      BY StoredReads
<1> HIDE DEF got
<1>2. Types(got) \subseteq Types(st.list)
      BY <1>1, PrefixTypes
<1>3. Types(st.list) \subseteq Known
      BY <1>1 DEF Known
<1> QED BY <1>1, <1>2, <1>3 DEF got

\* Import names fields of record 0x01 and a few words.
LEMMA ImportNamesFields ==
  ASSUME NEW file
  PROVE  Imported(file).named \subseteq DOMAIN Own(Imported(file).spec) \cup
           {"chip", "map", "regs", "geometry", "constant", "module", "mapping", "over", "library"}
<1>1. \A s, t : DOMAIN Own(s) = DOMAIN Own(t)
      BY DEF Own
<1>2. \A s : DOMAIN Generate1(s).main = DOMAIN Own(s) \cup {"chip"}
      BY DEF Generate1
<1>3. \A s : Named(s, file) \subseteq DOMAIN Own(s) \cup {"chip", "map", "regs", "geometry", "constant"}
      BY <1>2 DEF Named
<1> DEFINE plain == SpecOf(file)
           fitted == IF Valid(plain) THEN FitMapping(plain, file.map) ELSE plain
           lost == IF ~Valid(plain) THEN {"module", "mapping", "over"}
                   ELSE (IF Fits(plain, file.map) THEN {} ELSE {"mapping"})
                          \cup (IF file.main.chip \notin DOMAIN Library THEN {"library", "over"}
                                ELSE IF ChipFails(fitted) THEN {"over"} ELSE {})
<1>4. lost \subseteq {"module", "mapping", "over", "library"}
      OBVIOUS
<1>5. Imported(file) = IF lost \subseteq {"mapping"}
        THEN [spec |-> Reconciled(fitted, file), named |-> lost \cup Named(fitted, file), generated |-> TRUE]
        ELSE [spec |-> fitted, named |-> lost, generated |-> FALSE]
      BY DEF Imported
<1> HIDE DEF plain, fitted, lost
<1>6. Imported(file).named \subseteq lost \cup Named(fitted, file)
      BY <1>5
<1>7. DOMAIN Own(Imported(file).spec) = DOMAIN Own(fitted)
      BY <1>1
<1> QED BY <1>3, <1>4, <1>6, <1>7

\* The types hold before the command.
LEMMA FileTypesStart == FileInit => FileInv
<1> SUFFICES ASSUME FileInit PROVE FileInv
    OBVIOUS
<1>1. bcfg = <<>> /\ bspec.named = {} /\ bat \in BuildPlaces
      BY DEF FileInit, BuildPlaces
<1>2. Types(bcfg) = {}
      BY <1>1 DEF Types
<1>3. bcfg \in Seq(Records)
      BY <1>1
<1> QED BY <1>1, <1>2, <1>3, FilesStart, BuildStarts DEF FileInv, KnownTypes, NamesAreFields

\* Every step keeps them.
LEMMA FileTypesStep == FileInv /\ [FileNext]_filevars => FileInv'
<1> SUFFICES ASSUME FileInv, [FileNext]_filevars PROVE FileInv'
    OBVIOUS
<1> USE DEF FileInv
<1>1. ImportInv' /\ BuildInv'
      BY FilesStep, BuildSteps
<1>2. CASE UNCHANGED <<bcfg, bspec>> /\ bat' \in BuildPlaces
      BY <1>1, <1>2 DEF KnownTypes, NamesAreFields
<1>3. CASE LoadBase
  <2>1. /\ bat = "load" /\ UNCHANGED bspec /\ bat' \in BuildPlaces
        /\ \/ BaseRead # Broken /\ bcfg' = BaseRead
           \/ UNCHANGED bcfg
        BY <1>3 DEF LoadBase, BGoes, bfixed, BaseRead, BuildPlaces
  <2>2. bbase \in StoredFiles
        BY <2>1 DEF BuildInv, FilesAreThere, Importing
  <2>3. KnownTypes'
        BY <2>1, <2>2, ReadIsKnown DEF KnownTypes, BaseRead
  <2> QED BY <1>1, <2>1, <2>3 DEF NamesAreFields
<1>4. CASE CopyRecord
  <2> DEFINE t == Head(bcopy)
             i == FirstOf(SourceRead, t)
             p == SourceRead[i].payload
  <2>1. /\ bat = "copy" /\ UNCHANGED bspec /\ bat' \in BuildPlaces
        /\ \/ i # 0 /\ bcfg' = Upserted(bcfg, t, p)
           \/ UNCHANGED bcfg
        BY <1>4 DEF CopyRecord, BGoes, bfixed, SourceRead, BuildPlaces
  <2>2. bsrc \in StoredFiles /\ SourceRead # Broken
        BY <2>1 DEF BuildInv, FilesAreThere, Composing, Importing
  <2>3. SourceRead \in Seq(Records) /\ Types(SourceRead) \subseteq Known
        BY <2>2, ReadIsKnown DEF SourceRead
  <2>4. CASE i # 0 /\ bcfg' = Upserted(bcfg, t, p)
    <3>1. t \in Types(SourceRead) /\ i \in 1 .. Len(SourceRead) /\ SourceRead[i].type = t
          BY <2>3, <2>4, FirstIs
    <3>2. SourceRead[i] \in Records
          BY <2>3, <3>1, ElementOfSeq
    <3>3. t \in Nat /\ p \in Seq(Nat)
          BY <3>1, <3>2 DEF Records
    <3> HIDE DEF t, p, i
    <3>4. UpsertedWell(bcfg, t, p, bcfg')
          BY <2>4, <3>3, UpsertIsRight DEF KnownTypes
    <3>5. bcfg' \in Seq(Records) /\ Types(bcfg') = Types(bcfg) \cup {t}
          BY <3>4 DEF UpsertedWell
    <3>6. KnownTypes'
      <4>1. Types(bcfg)' = Types(bcfg')
            BY DEF Types
      <4>2. Known' = Known
            BY DEF Known
      <4> QED BY <2>3, <3>1, <3>5, <4>1, <4>2 DEF KnownTypes
    <3> QED BY <1>1, <2>1, <3>6 DEF NamesAreFields
  <2>5. CASE UNCHANGED bcfg
        BY <1>1, <2>1, <2>5 DEF KnownTypes, NamesAreFields
  <2> QED BY <2>1, <2>4, <2>5
<1>5. CASE RemoveRecord
  <2>1. bcfg' = Kept(bcfg, Types(bcfg) \ {Head(bdrop)}) /\ UNCHANGED <<bat, bspec>>
        BY <1>5 DEF RemoveRecord, bfixed, Removed
  <2>2. bcfg' \in Seq(Records) /\ Types(bcfg') \subseteq Types(bcfg)
        BY <2>1, KeptIsList, TypesOfKept DEF KnownTypes
  <2>3. KnownTypes'
        BY <2>2 DEF KnownTypes
  <2> QED BY <1>1, <2>1, <2>3 DEF NamesAreFields
<1>6. CASE Import
  <2>1. UNCHANGED bcfg /\ bat' \in BuildPlaces /\ (bspec' = Imported(bin) \/ UNCHANGED bspec)
        BY <1>6 DEF Import, BGoes, BuildPlaces
  <2>2. KnownTypes'
        BY <2>1 DEF KnownTypes
  <2>3. NamesAreFields'
        BY <2>1, ImportNamesFields DEF NamesAreFields
  <2> QED BY <1>1, <2>1, <2>2, <2>3
<1>7. CASE LoadSource \/ Copied \/ Save \/ ReadBack
  <2>1. UNCHANGED <<bcfg, bspec>> /\ bat' \in BuildPlaces
        BY <1>7 DEF LoadSource, Copied, Save, ReadBack, BGoes, BuildPlaces
  <2> QED BY <1>2, <2>1
<1>8. CASE UNCHANGED filevars
  <2>1. UNCHANGED <<bcfg, bspec>> /\ bat' \in BuildPlaces
        BY <1>8 DEF filevars
  <2> QED BY <1>2, <2>1
<1> QED BY <1>3, <1>4, <1>5, <1>6, <1>7, <1>8 DEF FileNext

\* And they are the type invariant.
LEMMA FileTypesAre == FileInv => FileTypeOK
<1> SUFFICES ASSUME FileInv PROVE FileTypeOK
    OBVIOUS
<1>1. \A i \in DOMAIN bcfg : bcfg[i].type \in Known
      BY DEF FileInv, KnownTypes, Types
<1> QED BY <1>1 DEF FileInv, FileTypeOK, BuildPlaces, NamesAreFields, Known

\* The commands on configuration files keep their types: no record has a type
\* that none of the files has, and import names nothing but what a file has.
THEOREM FileTypes == FileSpec => []FileTypeOK
<1> QED BY FileTypesStart, FileTypesStep, FileTypesAre, PTL DEF FileSpec
=============================================================================
