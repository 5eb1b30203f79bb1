------------------------- MODULE CommutationProofs -------------------------
(***************************************************************************)
(* Proofs about Commutation, for every set of setpoints between -1 and 1.  *)
(***************************************************************************)
EXTENDS Commutation, TLAPS

(* The angle of each sector, and what the polynomial makes of it.          *)
AngleOf == <<0, 68629, 137258, 205887, -137258, -68629>>
CosOf == <<65545, 32768, -32767, -65544, -32767, 32767>>
SinOf == <<0, 56735, 56735, 0, -56735, -56735>>

(* What becomes of a setpoint: it is 0 or beyond the deadband.             *)
Voltage(q) ==
  /\ q \in Int /\ -65536 <= q /\ q <= 65536
  /\ q = 0 \/ q <= -1311 \/ q >= 1311

(* A phase voltage for q, as good as the polynomial is, and one for 0.     *)
Near(v, q) ==
  /\ q = 0 => v = 0
  /\ q > 0 => q - 22 <= v /\ v <= q + 10
  /\ q < 0 => q - 10 <= v /\ v <= q + 22
Small(w, q) == -40 <= w /\ w <= 40 /\ (q = 0 => w = 0)

(* A product and a half, as they are rounded.                              *)
Product(m, a, b) == 65536 * m <= a * b /\ a * b < 65536 * m + 65536
Halved(h, a) == a - 1 <= 2 * h /\ 2 * h <= a + 1 /\ (a = 0 => h = 0)

(* A voltage as counts of the timer, rounded down.                         *)
Scaled(c, x) ==
  /\ x >= -65536 => 65536 * c <= 2950 * (x + 65536) /\ 2950 * (x + 65536) < 65536 * c + 65536
  /\ x < -65536 => 65536 * c <= 2950 * (-x - 65536) /\ 2950 * (-x - 65536) < 65536 * c + 65536

(* The phases in each sector: two are opposite, the third is small.        *)
PhasesOf(v, w) == << <<w, v, -v>>, <<-v, v, w>>, <<-v, w, v>>,
                     <<w, -v, v>>, <<v, -v, w>>, <<v, w, -v>> >>

(* The same for the counts of the three, and how they lie for q.           *)
CountsOf(a, b, c) == << <<c, a, b>>, <<b, a, c>>, <<b, c, a>>,
                        <<c, b, a>>, <<a, b, c>>, <<a, c, b>> >>
Ordered(a, b, c, q) ==
  /\ a <= 5900 /\ b <= 5900 /\ c <= 5900
  /\ q = 0 => a = b /\ b = c
  /\ q > 0 => b < c /\ c < a
  /\ q < 0 => a < c /\ c < b
Proportional(t, q) ==
  65536 * (t - 3) <= 5900 * q /\ 5900 * q < 65536 * (t + 4)

-----------------------------------------------------------------------------
(* Arithmetic                                                              *)

(* A product is that of the two numbers, rounded down.                     *)
LEMMA MulFloor ==
  ASSUME NEW a \in Int, NEW b \in Int
  PROVE  Mul(a, b) \in Int /\ Product(Mul(a, b), a, b)
  <1>1. PICK h \in Int, l \in Int : h = b \div 256 /\ l = b % 256 /\ b = 256 * h + l
    OBVIOUS
  <1>2. a * b = 256 * (a * h) + a * l
    BY <1>1
  <1>3. PICK u \in Int, w \in Int : u = a * h /\ w = a * l
    BY <1>1
  <1>4. Mul(a, b) = (u + w \div 256) \div 256
    BY <1>1, <1>3 DEF Mul
  <1>5. a * b = 256 * u + w
    BY <1>2, <1>3
  <1>6. PICK t \in Int : t = w \div 256 /\ 256 * t <= w /\ w < 256 * t + 256
    BY <1>3
  <1>7. PICK m \in Int : m = (u + t) \div 256 /\ 256 * m <= u + t /\ u + t < 256 * m + 256
    BY <1>3, <1>6
  <1>8. Mul(a, b) = m
    BY <1>4, <1>6, <1>7
  <1>9. 65536 * m <= 256 * u + w /\ 256 * u + w < 65536 * m + 65536
    BY <1>3, <1>6, <1>7
  <1> QED
    BY <1>5, <1>8, <1>9 DEF Product

(* Half of a number, rounded towards 0.                                    *)
LEMMA Half ==
  ASSUME NEW a \in Int
  PROVE  Quo(a, 2) \in Int /\ Halved(Quo(a, 2), a)
  BY DEF Quo, Halved

(* A compare register holds the voltage, moved and scaled, rounded down.   *)
LEMMA CompareFloor ==
  ASSUME NEW x \in Int
  PROVE  Compare(x) \in Int /\ Scaled(Compare(x), x)
  <1>1. PICK a \in Int : a = Abs(x + ONE)
    BY DEF Abs, ONE
  <1>2. a >= 0 /\ (x >= -65536 => a = x + 65536) /\ (x < -65536 => a = -x - 65536)
    BY <1>1 DEF Abs, ONE
  <1>3. Quo(a * 5900, 2) = 2950 * a
    BY <1>2 DEF Quo
  <1>4. PICK m \in Int : /\ m = (2950 * a) \div 65536
                         /\ 65536 * m <= 2950 * a /\ 2950 * a < 65536 * m + 65536
    OBVIOUS
  <1>5. Compare(x) = m
    BY <1>1, <1>3, <1>4 DEF Compare, PWM_SENSE_LIMIT, ONE
  <1> QED
    <2>1. Scaled(m, x)
      BY <1>2, <1>4 DEF Scaled
    <2> QED
      BY <1>5, <2>1

-----------------------------------------------------------------------------
(* The angles                                                              *)

(* The polynomial for the sine, between -pi/2 and pi/2.                    *)
Polynomial(x) == x - Quo(Pow3(x), 6) + Quo(Pow5(x), 127)

(* Its values at the angles that occur.                                    *)
LEMMA PolyRight ==
  ASSUME NEW x \in Int, x - 102943 = 0
  PROVE  Polynomial(x) = 65545
  <1>1. Mul(x, x) = 161701
    BY DEF Mul
  <1>2. PICK y \in Int : y = Mul(161701, x) /\ y - 253997 = 0
    BY DEF Mul
  <1>3. Mul(y, x) = 398974
    BY <1>2 DEF Mul
  <1>4. PICK z \in Int : z = Mul(398974, x) /\ z - 626702 = 0
    BY DEF Mul
  <1>5. Quo(y, 6) = 42332 /\ Quo(z, 127) = 4934
    BY <1>2, <1>4 DEF Quo
  <1>6. Pow3(x) = y /\ Pow5(x) = z
    BY <1>1, <1>2, <1>3, <1>4 DEF Pow3, Pow5
  <1> QED
    BY <1>5, <1>6 DEF Polynomial

LEMMA PolyMinusRight ==
  ASSUME NEW x \in Int, x + 102943 = 0
  PROVE  Polynomial(x) = -65544
  <1>1. Mul(x, x) = 161701
    BY DEF Mul
  <1>2. PICK y \in Int : y = Mul(161701, x) /\ y + 253998 = 0
    BY DEF Mul
  <1>3. Mul(y, x) = 398976
    BY <1>2 DEF Mul
  <1>4. PICK z \in Int : z = Mul(398976, x) /\ z + 626706 = 0
    BY DEF Mul
  <1>5. Quo(y, 6) = -42333 /\ Quo(z, 127) = -4934
    BY <1>2, <1>4 DEF Quo
  <1>6. Pow3(x) = y /\ Pow5(x) = z
    BY <1>1, <1>2, <1>3, <1>4 DEF Pow3, Pow5
  <1> QED
    BY <1>5, <1>6 DEF Polynomial

LEMMA PolySixty ==
  ASSUME NEW x \in Int, x - 68629 = 0
  PROVE  Polynomial(x) = 56735
  <1>1. Mul(x, x) = 71867
    BY DEF Mul
  <1>2. PICK y \in Int : y = Mul(71867, x) /\ y - 75258 = 0
    BY DEF Mul
  <1>3. Mul(y, x) = 78809
    BY <1>2 DEF Mul
  <1>4. PICK z \in Int : z = Mul(78809, x) /\ z - 82528 = 0
    BY DEF Mul
  <1>5. Quo(y, 6) = 12543 /\ Quo(z, 127) = 649
    BY <1>2, <1>4 DEF Quo
  <1>6. Pow3(x) = y /\ Pow5(x) = z
    BY <1>1, <1>2, <1>3, <1>4 DEF Pow3, Pow5
  <1> QED
    BY <1>5, <1>6 DEF Polynomial

LEMMA PolyMinusSixty ==
  ASSUME NEW x \in Int, x + 68629 = 0
  PROVE  Polynomial(x) = -56735
  <1>1. Mul(x, x) = 71867
    BY DEF Mul
  <1>2. PICK y \in Int : y = Mul(71867, x) /\ y + 75259 = 0
    BY DEF Mul
  <1>3. Mul(y, x) = 78810
    BY <1>2 DEF Mul
  <1>4. PICK z \in Int : z = Mul(78810, x) /\ z + 82530 = 0
    BY DEF Mul
  <1>5. Quo(y, 6) = -12543 /\ Quo(z, 127) = -649
    BY <1>2, <1>4 DEF Quo
  <1>6. Pow3(x) = y /\ Pow5(x) = z
    BY <1>1, <1>2, <1>3, <1>4 DEF Pow3, Pow5
  <1> QED
    BY <1>5, <1>6 DEF Polynomial

LEMMA PolyThirty ==
  ASSUME NEW x \in Int, x - 34315 = 0
  PROVE  Polynomial(x) = 32768
  <1>1. Mul(x, x) = 17967
    BY DEF Mul
  <1>2. PICK y \in Int : y = Mul(17967, x) /\ y - 9407 = 0
    BY DEF Mul
  <1>3. Mul(y, x) = 4925
    BY <1>2 DEF Mul
  <1>4. PICK z \in Int : z = Mul(4925, x) /\ z - 2578 = 0
    BY DEF Mul
  <1>5. Quo(y, 6) = 1567 /\ Quo(z, 127) = 20
    BY <1>2, <1>4 DEF Quo
  <1>6. Pow3(x) = y /\ Pow5(x) = z
    BY <1>1, <1>2, <1>3, <1>4 DEF Pow3, Pow5
  <1> QED
    BY <1>5, <1>6 DEF Polynomial

LEMMA PolyMinusThirty ==
  ASSUME NEW x \in Int, x + 34315 = 0
  PROVE  Polynomial(x) = -32767
  <1>1. Mul(x, x) = 17967
    BY DEF Mul
  <1>2. PICK y \in Int : y = Mul(17967, x) /\ y + 9408 = 0
    BY DEF Mul
  <1>3. Mul(y, x) = 4926
    BY <1>2 DEF Mul
  <1>4. PICK z \in Int : z = Mul(4926, x) /\ z + 2580 = 0
    BY DEF Mul
  <1>5. Quo(y, 6) = -1568 /\ Quo(z, 127) = -20
    BY <1>2, <1>4 DEF Quo
  <1>6. Pow3(x) = y /\ Pow5(x) = z
    BY <1>1, <1>2, <1>3, <1>4 DEF Pow3, Pow5
  <1> QED
    BY <1>5, <1>6 DEF Polynomial

LEMMA PolyShort ==
  ASSUME NEW x \in Int, x - 34314 = 0
  PROVE  Polynomial(x) = 32767
  <1>1. Mul(x, x) = 17966
    BY DEF Mul
  <1>2. PICK y \in Int : y = Mul(17966, x) /\ y - 9406 = 0
    BY DEF Mul
  <1>3. Mul(y, x) = 4924
    BY <1>2 DEF Mul
  <1>4. PICK z \in Int : z = Mul(4924, x) /\ z - 2578 = 0
    BY DEF Mul
  <1>5. Quo(y, 6) = 1567 /\ Quo(z, 127) = 20
    BY <1>2, <1>4 DEF Quo
  <1>6. Pow3(x) = y /\ Pow5(x) = z
    BY <1>1, <1>2, <1>3, <1>4 DEF Pow3, Pow5
  <1> QED
    BY <1>5, <1>6 DEF Polynomial

LEMMA PolyMinusShort ==
  ASSUME NEW x \in Int, x + 34314 = 0
  PROVE  Polynomial(x) = -32767
  <1>1. Mul(x, x) = 17966
    BY DEF Mul
  <1>2. PICK y \in Int : y = Mul(17966, x) /\ y + 9407 = 0
    BY DEF Mul
  <1>3. Mul(y, x) = 4925
    BY <1>2 DEF Mul
  <1>4. PICK z \in Int : z = Mul(4925, x) /\ z + 2579 = 0
    BY DEF Mul
  <1>5. Quo(y, 6) = -1567 /\ Quo(z, 127) = -20
    BY <1>2, <1>4 DEF Quo
  <1>6. Pow3(x) = y /\ Pow5(x) = z
    BY <1>1, <1>2, <1>3, <1>4 DEF Pow3, Pow5
  <1> QED
    BY <1>5, <1>6 DEF Polynomial

LEMMA PolyZero == Polynomial(0) = 0
  BY DEF Polynomial, Pow3, Pow5, Mul, Quo

LEMMA SinFolded ==
  ASSUME NEW x \in Int
  PROVE  sin(x) = Polynomial(Folded(x))
  BY DEF sin, Polynomial

(* The sine and the cosine of the angle of each sector.                    *)
LEMMA Sines ==
  ASSUME NEW a \in Int
  PROVE  /\ a = 0 => sin(a) = 0 /\ cos(a) = 65545
         /\ a - 68629 = 0 => sin(a) = 56735 /\ cos(a) = 32768
         /\ a - 137258 = 0 => sin(a) = 56735 /\ cos(a) = -32767
         /\ a - 205887 = 0 => sin(a) = 0 /\ cos(a) = -65544
         /\ a + 137258 = 0 => sin(a) = -56735 /\ cos(a) = -32767
         /\ a + 68629 = 0 => sin(a) = -56735 /\ cos(a) = 32767
  <1>1. ASSUME a = 0 PROVE sin(a) = 0 /\ cos(a) = 65545
    <2>1. PICK f \in Int : f = Folded(a) /\ f = 0
      BY <1>1 DEF Folded, PI, FRAC_PI_2
    <2>2. PICK b \in Int : b = a + FRAC_PI_2 /\ b - 102943 = 0
      BY <1>1 DEF FRAC_PI_2
    <2>3. PICK e \in Int : e = b /\ e - 102943 = 0
      BY <2>2 DEF TAU
    <2>4. PICK g \in Int : g = Folded(e) /\ g - 102943 = 0
      BY <2>3 DEF Folded, PI, FRAC_PI_2
    <2>5. cos(a) = sin(e)
      BY <2>2, <2>3 DEF cos, PI
    <2>6. sin(a) = 0
      BY <2>1, SinFolded, PolyZero
    <2>7. cos(a) = 65545
      BY <2>4, <2>5, SinFolded, PolyRight
    <2> QED
      BY <2>6, <2>7
  <1>2. ASSUME a - 68629 = 0 PROVE sin(a) = 56735 /\ cos(a) = 32768
    <2>1. PICK f \in Int : f = Folded(a) /\ f - 68629 = 0
      BY <1>2 DEF Folded, PI, FRAC_PI_2
    <2>2. PICK b \in Int : b = a + FRAC_PI_2 /\ b - 171572 = 0
      BY <1>2 DEF FRAC_PI_2
    <2>3. PICK e \in Int : e = b /\ e - 171572 = 0
      BY <2>2 DEF TAU
    <2>4. PICK g \in Int : g = Folded(e) /\ g - 34315 = 0
      BY <2>3 DEF Folded, PI, FRAC_PI_2
    <2>5. cos(a) = sin(e)
      BY <2>2, <2>3 DEF cos, PI
    <2>6. sin(a) = 56735
      BY <2>1, SinFolded, PolySixty
    <2>7. cos(a) = 32768
      BY <2>4, <2>5, SinFolded, PolyThirty
    <2> QED
      BY <2>6, <2>7
  <1>3. ASSUME a - 137258 = 0 PROVE sin(a) = 56735 /\ cos(a) = -32767
    <2>1. PICK f \in Int : f = Folded(a) /\ f - 68629 = 0
      BY <1>3 DEF Folded, PI, FRAC_PI_2
    <2>2. PICK b \in Int : b = a + FRAC_PI_2 /\ b - 240201 = 0
      BY <1>3 DEF FRAC_PI_2
    <2>3. PICK e \in Int : e = b - TAU /\ e + 171573 = 0
      BY <2>2 DEF TAU
    <2>4. PICK g \in Int : g = Folded(e) /\ g + 34314 = 0
      BY <2>3 DEF Folded, PI, FRAC_PI_2
    <2>5. cos(a) = sin(e)
      BY <2>2, <2>3 DEF cos, PI
    <2>6. sin(a) = 56735
      BY <2>1, SinFolded, PolySixty
    <2>7. cos(a) = -32767
      BY <2>4, <2>5, SinFolded, PolyMinusShort
    <2> QED
      BY <2>6, <2>7
  <1>4. ASSUME a - 205887 = 0 PROVE sin(a) = 0 /\ cos(a) = -65544
    <2>1. PICK f \in Int : f = Folded(a) /\ f = 0
      BY <1>4 DEF Folded, PI, FRAC_PI_2
    <2>2. PICK b \in Int : b = a + FRAC_PI_2 /\ b - 308830 = 0
      BY <1>4 DEF FRAC_PI_2
    <2>3. PICK e \in Int : e = b - TAU /\ e + 102944 = 0
      BY <2>2 DEF TAU
    <2>4. PICK g \in Int : g = Folded(e) /\ g + 102943 = 0
      BY <2>3 DEF Folded, PI, FRAC_PI_2
    <2>5. cos(a) = sin(e)
      BY <2>2, <2>3 DEF cos, PI
    <2>6. sin(a) = 0
      BY <2>1, SinFolded, PolyZero
    <2>7. cos(a) = -65544
      BY <2>4, <2>5, SinFolded, PolyMinusRight
    <2> QED
      BY <2>6, <2>7
  <1>5. ASSUME a + 137258 = 0 PROVE sin(a) = -56735 /\ cos(a) = -32767
    <2>1. PICK f \in Int : f = Folded(a) /\ f + 68629 = 0
      BY <1>5 DEF Folded, PI, FRAC_PI_2
    <2>2. PICK b \in Int : b = a + FRAC_PI_2 /\ b + 34315 = 0
      BY <1>5 DEF FRAC_PI_2
    <2>3. PICK e \in Int : e = b /\ e + 34315 = 0
      BY <2>2 DEF TAU
    <2>4. PICK g \in Int : g = Folded(e) /\ g + 34315 = 0
      BY <2>3 DEF Folded, PI, FRAC_PI_2
    <2>5. cos(a) = sin(e)
      BY <2>2, <2>3 DEF cos, PI
    <2>6. sin(a) = -56735
      BY <2>1, SinFolded, PolyMinusSixty
    <2>7. cos(a) = -32767
      BY <2>4, <2>5, SinFolded, PolyMinusThirty
    <2> QED
      BY <2>6, <2>7
  <1>6. ASSUME a + 68629 = 0 PROVE sin(a) = -56735 /\ cos(a) = 32767
    <2>1. PICK f \in Int : f = Folded(a) /\ f + 68629 = 0
      BY <1>6 DEF Folded, PI, FRAC_PI_2
    <2>2. PICK b \in Int : b = a + FRAC_PI_2 /\ b - 34314 = 0
      BY <1>6 DEF FRAC_PI_2
    <2>3. PICK e \in Int : e = b /\ e - 34314 = 0
      BY <2>2 DEF TAU
    <2>4. PICK g \in Int : g = Folded(e) /\ g - 34314 = 0
      BY <2>3 DEF Folded, PI, FRAC_PI_2
    <2>5. cos(a) = sin(e)
      BY <2>2, <2>3 DEF cos, PI
    <2>6. sin(a) = -56735
      BY <2>1, SinFolded, PolyMinusSixty
    <2>7. cos(a) = 32767
      BY <2>4, <2>5, SinFolded, PolyShort
    <2> QED
      BY <2>6, <2>7
  <1> QED
    BY <1>1, <1>2, <1>3, <1>4, <1>5, <1>6

(* Whatever the pins say, the angle is that of a sector; and that of a     *)
(* sector's own pins is its own.                                           *)
LEMMA HallBits ==
  ASSUME NEW a \in {0, 1}, NEW b \in {0, 1}, NEW c \in {0, 1}
  PROVE  \E d \in 0 .. 5 : HallAngle(<<a, b, c>>) = AngleOf[d + 1]
  BY DEF HallAngle, AngleOf, K_HALL_TABLE, FRAC_PI_3, PI, TAU

LEMMA HallSector ==
  ASSUME NEW d \in 0 .. 5
  PROVE  HallAngle(Pins[d + 1]) = AngleOf[d + 1]
  BY DEF HallAngle, AngleOf, K_HALL_TABLE, FRAC_PI_3, PI, TAU, Pins

-----------------------------------------------------------------------------
(* The phases                                                              *)

(* Which phases are stretched depends on three signs.                      *)
LEMMA Sectors ==
  ASSUME NEW alpha \in Int, NEW x \in Int, NEW y \in Int, NEW z \in Int,
         y = Quo(x + Mul(SQRT_3, alpha), 2), z = Quo(x - Mul(SQRT_3, alpha), 2)
  PROVE  LET v == SpaceVector([alpha |-> alpha, beta |-> x]) IN
         /\ (y > 0 /\ z > 0) \/ (y <= 0 /\ z <= 0) => v = <<y - z, y + z, -y - z>>
         /\ (y > 0 /\ z <= 0 /\ x > 0) \/ (y <= 0 /\ z > 0 /\ x <= 0)
              => v = <<x - z, x + z, z - x>>
         /\ (y > 0 /\ z <= 0 /\ x <= 0) \/ (y <= 0 /\ z > 0 /\ x > 0)
              => v = <<y - x, x - y, -y - x>>
  BY DEF SpaceVector

(* In each sector, the numbers that the inverse transform adds: which      *)
(* phases are stretched, and that two of its sums are near the voltage and *)
(* near 0.                                                                 *)
LEMMA Values0 ==
  ASSUME NEW q \in Int, Voltage(q),
         NEW s \in Int, Product(s, 0, q), NEW x \in Int, Product(x, 65545, q),
         NEW r \in Int, Product(r, 113511, -s),
         NEW y \in Int, Halved(y, x + r), NEW z \in Int, Halved(z, x - r)
  PROVE  /\ q = 0 => x = 0 /\ y = 0 /\ z = 0
         /\ Near(y + z, q) /\ Small(y - z, q)
         /\ q # 0 => (y > 0 /\ z > 0) \/ (y <= 0 /\ z <= 0)
  BY DEF Voltage, Product, Halved, Near, Small

LEMMA Values1 ==
  ASSUME NEW q \in Int, Voltage(q),
         NEW s \in Int, Product(s, 56735, q), NEW x \in Int, Product(x, 32768, q),
         NEW r \in Int, Product(r, 113511, -s),
         NEW y \in Int, Halved(y, x + r), NEW z \in Int, Halved(z, x - r)
  PROVE  /\ q = 0 => x = 0 /\ y = 0 /\ z = 0
         /\ Near(x - y, q) /\ Small(-y - x, q)
         /\ q # 0 => (y > 0 /\ z <= 0 /\ x <= 0) \/ (y <= 0 /\ z > 0 /\ x > 0)
  BY DEF Voltage, Product, Halved, Near, Small

LEMMA Values2 ==
  ASSUME NEW q \in Int, Voltage(q),
         NEW s \in Int, Product(s, 56735, q), NEW x \in Int, Product(x, -32767, q),
         NEW r \in Int, Product(r, 113511, -s),
         NEW y \in Int, Halved(y, x + r), NEW z \in Int, Halved(z, x - r)
  PROVE  /\ q = 0 => x = 0 /\ y = 0 /\ z = 0
         /\ Near(z - x, q) /\ Small(x + z, q)
         /\ q # 0 => (y > 0 /\ z <= 0 /\ x > 0) \/ (y <= 0 /\ z > 0 /\ x <= 0)
  BY DEF Voltage, Product, Halved, Near, Small

LEMMA Values3 ==
  ASSUME NEW q \in Int, Voltage(q),
         NEW s \in Int, Product(s, 0, q), NEW x \in Int, Product(x, -65544, q),
         NEW r \in Int, Product(r, 113511, -s),
         NEW y \in Int, Halved(y, x + r), NEW z \in Int, Halved(z, x - r)
  PROVE  /\ q = 0 => x = 0 /\ y = 0 /\ z = 0
         /\ Near(-y - z, q) /\ Small(y - z, q)
         /\ q # 0 => (y > 0 /\ z > 0) \/ (y <= 0 /\ z <= 0)
  BY DEF Voltage, Product, Halved, Near, Small

LEMMA Values4 ==
  ASSUME NEW q \in Int, Voltage(q),
         NEW s \in Int, Product(s, -56735, q), NEW x \in Int, Product(x, -32767, q),
         NEW r \in Int, Product(r, 113511, -s),
         NEW y \in Int, Halved(y, x + r), NEW z \in Int, Halved(z, x - r)
  PROVE  /\ q = 0 => x = 0 /\ y = 0 /\ z = 0
         /\ Near(y - x, q) /\ Small(-y - x, q)
         /\ q # 0 => (y > 0 /\ z <= 0 /\ x <= 0) \/ (y <= 0 /\ z > 0 /\ x > 0)
  BY DEF Voltage, Product, Halved, Near, Small

LEMMA Values5 ==
  ASSUME NEW q \in Int, Voltage(q),
         NEW s \in Int, Product(s, -56735, q), NEW x \in Int, Product(x, 32767, q),
         NEW r \in Int, Product(r, 113511, -s),
         NEW y \in Int, Halved(y, x + r), NEW z \in Int, Halved(z, x - r)
  PROVE  /\ q = 0 => x = 0 /\ y = 0 /\ z = 0
         /\ Near(x - z, q) /\ Small(x + z, q)
         /\ q # 0 => (y > 0 /\ z <= 0 /\ x > 0) \/ (y <= 0 /\ z > 0 /\ x <= 0)
  BY DEF Voltage, Product, Halved, Near, Small
(* In each sector the phases are a voltage near q, its opposite, and a     *)
(* small one; and all of them are 0 for 0.                                 *)
LEMMA Phases ==
  ASSUME NEW q \in Int, Voltage(q), NEW d \in 0 .. 5
  PROVE  \E v, w \in Int :
            /\ Near(v, q) /\ Small(w, q)
            /\ SpaceVector(inverse_park(CosOf[d + 1], SinOf[d + 1], q)) = PhasesOf(v, w)[d + 1]
  <1>. DEFINE s == Mul(SinOf[d + 1], q)
              x == Mul(CosOf[d + 1], q)
              r == Mul(SQRT_3, -s)
              y == Quo(x + r, 2)
              z == Quo(x - r, 2)
              u == SpaceVector([alpha |-> -s, beta |-> x])
  <1>1. CosOf[d + 1] \in Int /\ SinOf[d + 1] \in Int /\ SQRT_3 \in Int
    BY DEF CosOf, SinOf, SQRT_3
  <1>2. s \in Int /\ Product(s, SinOf[d + 1], q)
    BY <1>1, MulFloor
  <1>3. x \in Int /\ Product(x, CosOf[d + 1], q)
    BY <1>1, MulFloor
  <1>. HIDE DEF s, x
  <1>4. r \in Int /\ Product(r, SQRT_3, -s)
    <2>1. -s \in Int
      BY <1>2
    <2> QED
      BY <1>1, <2>1, MulFloor
  <1>. HIDE DEF r
  <1>5. y \in Int /\ Halved(y, x + r)
    BY <1>3, <1>4, Half
  <1>6. z \in Int /\ Halved(z, x - r)
    BY <1>3, <1>4, Half
  <1>. HIDE DEF y, z
  <1>7. inverse_park(CosOf[d + 1], SinOf[d + 1], q) = [alpha |-> -s, beta |-> x]
    BY DEF inverse_park, s, x
  <1>8. /\ (y > 0 /\ z > 0) \/ (y <= 0 /\ z <= 0) => u = <<y - z, y + z, -y - z>>
        /\ (y > 0 /\ z <= 0 /\ x > 0) \/ (y <= 0 /\ z > 0 /\ x <= 0)
             => u = <<x - z, x + z, z - x>>
        /\ (y > 0 /\ z <= 0 /\ x <= 0) \/ (y <= 0 /\ z > 0 /\ x > 0)
             => u = <<y - x, x - y, -y - x>>
    <2>1. -s \in Int /\ y = Quo(x + Mul(SQRT_3, -s), 2) /\ z = Quo(x - Mul(SQRT_3, -s), 2)
      BY <1>2 DEF r, y, z
    <2> QED
      BY <2>1, <1>3, <1>5, <1>6, Sectors
  <1>. HIDE DEF u
  <1>9. ASSUME x = 0, y = 0, z = 0 PROVE u = <<0, 0, 0>>
    BY <1>8, <1>9
  <1>10. \E v, w \in Int : Near(v, q) /\ Small(w, q) /\ u = PhasesOf(v, w)[d + 1]
    <2>1. CASE d = 0
      <3>1. SinOf[d + 1] = 0 /\ CosOf[d + 1] = 65545 /\ SQRT_3 = 113511
        BY <2>1 DEF SinOf, CosOf, SQRT_3
      <3>2. /\ q = 0 => x = 0 /\ y = 0 /\ z = 0
            /\ Near(y + z, q) /\ Small(y - z, q)
            /\ q # 0 => (y > 0 /\ z > 0) \/ (y <= 0 /\ z <= 0)
        BY <3>1, <1>2, <1>3, <1>4, <1>5, <1>6, Values0
      <3>3. u = <<y - z, y + z, -y - z>>
        BY <3>2, <1>5, <1>6, <1>8, <1>9
      <3>4. u = PhasesOf(y + z, y - z)[d + 1]
        BY <2>1, <3>3, <1>3, <1>5, <1>6 DEF PhasesOf
      <3> QED
        BY <3>2, <3>4, <1>3, <1>5, <1>6
    <2>2. CASE d = 1
      <3>1. SinOf[d + 1] = 56735 /\ CosOf[d + 1] = 32768 /\ SQRT_3 = 113511
        BY <2>2 DEF SinOf, CosOf, SQRT_3
      <3>2. /\ q = 0 => x = 0 /\ y = 0 /\ z = 0
            /\ Near(x - y, q) /\ Small(-y - x, q)
            /\ q # 0 => (y > 0 /\ z <= 0 /\ x <= 0) \/ (y <= 0 /\ z > 0 /\ x > 0)
        BY <3>1, <1>2, <1>3, <1>4, <1>5, <1>6, Values1
      <3>3. u = <<y - x, x - y, -y - x>>
        BY <3>2, <1>5, <1>6, <1>8, <1>9
      <3>4. u = PhasesOf(x - y, -y - x)[d + 1]
        BY <2>2, <3>3, <1>3, <1>5, <1>6 DEF PhasesOf
      <3> QED
        BY <3>2, <3>4, <1>3, <1>5, <1>6
    <2>3. CASE d = 2
      <3>1. SinOf[d + 1] = 56735 /\ CosOf[d + 1] = -32767 /\ SQRT_3 = 113511
        BY <2>3 DEF SinOf, CosOf, SQRT_3
      <3>2. /\ q = 0 => x = 0 /\ y = 0 /\ z = 0
            /\ Near(z - x, q) /\ Small(x + z, q)
            /\ q # 0 => (y > 0 /\ z <= 0 /\ x > 0) \/ (y <= 0 /\ z > 0 /\ x <= 0)
        BY <3>1, <1>2, <1>3, <1>4, <1>5, <1>6, Values2
      <3>3. u = <<x - z, x + z, z - x>>
        BY <3>2, <1>5, <1>6, <1>8, <1>9
      <3>4. u = PhasesOf(z - x, x + z)[d + 1]
        BY <2>3, <3>3, <1>3, <1>5, <1>6 DEF PhasesOf
      <3> QED
        BY <3>2, <3>4, <1>3, <1>5, <1>6
    <2>4. CASE d = 3
      <3>1. SinOf[d + 1] = 0 /\ CosOf[d + 1] = -65544 /\ SQRT_3 = 113511
        BY <2>4 DEF SinOf, CosOf, SQRT_3
      <3>2. /\ q = 0 => x = 0 /\ y = 0 /\ z = 0
            /\ Near(-y - z, q) /\ Small(y - z, q)
            /\ q # 0 => (y > 0 /\ z > 0) \/ (y <= 0 /\ z <= 0)
        BY <3>1, <1>2, <1>3, <1>4, <1>5, <1>6, Values3
      <3>3. u = <<y - z, y + z, -y - z>>
        BY <3>2, <1>5, <1>6, <1>8, <1>9
      <3>4. u = PhasesOf(-y - z, y - z)[d + 1]
        BY <2>4, <3>3, <1>3, <1>5, <1>6 DEF PhasesOf
      <3> QED
        BY <3>2, <3>4, <1>3, <1>5, <1>6
    <2>5. CASE d = 4
      <3>1. SinOf[d + 1] = -56735 /\ CosOf[d + 1] = -32767 /\ SQRT_3 = 113511
        BY <2>5 DEF SinOf, CosOf, SQRT_3
      <3>2. /\ q = 0 => x = 0 /\ y = 0 /\ z = 0
            /\ Near(y - x, q) /\ Small(-y - x, q)
            /\ q # 0 => (y > 0 /\ z <= 0 /\ x <= 0) \/ (y <= 0 /\ z > 0 /\ x > 0)
        BY <3>1, <1>2, <1>3, <1>4, <1>5, <1>6, Values4
      <3>3. u = <<y - x, x - y, -y - x>>
        BY <3>2, <1>5, <1>6, <1>8, <1>9
      <3>4. u = PhasesOf(y - x, -y - x)[d + 1]
        BY <2>5, <3>3, <1>3, <1>5, <1>6 DEF PhasesOf
      <3> QED
        BY <3>2, <3>4, <1>3, <1>5, <1>6
    <2>6. CASE d = 5
      <3>1. SinOf[d + 1] = -56735 /\ CosOf[d + 1] = 32767 /\ SQRT_3 = 113511
        BY <2>6 DEF SinOf, CosOf, SQRT_3
      <3>2. /\ q = 0 => x = 0 /\ y = 0 /\ z = 0
            /\ Near(x - z, q) /\ Small(x + z, q)
            /\ q # 0 => (y > 0 /\ z <= 0 /\ x > 0) \/ (y <= 0 /\ z > 0 /\ x <= 0)
        BY <3>1, <1>2, <1>3, <1>4, <1>5, <1>6, Values5
      <3>3. u = <<x - z, x + z, z - x>>
        BY <3>2, <1>5, <1>6, <1>8, <1>9
      <3>4. u = PhasesOf(x - z, x + z)[d + 1]
        BY <2>6, <3>3, <1>3, <1>5, <1>6 DEF PhasesOf
      <3> QED
        BY <3>2, <3>4, <1>3, <1>5, <1>6
    <2> QED
      BY <2>1, <2>2, <2>3, <2>4, <2>5, <2>6
  <1> QED
    BY <1>7, <1>10 DEF u
LEMMA Counts ==
  ASSUME NEW q \in Int, Voltage(q), NEW v \in Int, Near(v, q), NEW w \in Int, Small(w, q),
         NEW a \in Int, Scaled(a, v), NEW b \in Int, Scaled(b, -v),
         NEW c \in Int, Scaled(c, w)
  PROVE  Ordered(a, b, c, q) /\ Proportional(a - b, q)
  BY DEF Voltage, Near, Small, Scaled, Ordered, Proportional
LEMMA SinesOf ==
  ASSUME NEW d \in 0 .. 5
  PROVE  sin(AngleOf[d + 1]) = SinOf[d + 1] /\ cos(AngleOf[d + 1]) = CosOf[d + 1]
  <1>1. CASE d = 0
    BY <1>1, Sines DEF AngleOf, SinOf, CosOf
  <1>2. CASE d = 1
    BY <1>2, Sines DEF AngleOf, SinOf, CosOf
  <1>3. CASE d = 2
    BY <1>3, Sines DEF AngleOf, SinOf, CosOf
  <1>4. CASE d = 3
    BY <1>4, Sines DEF AngleOf, SinOf, CosOf
  <1>5. CASE d = 4
    BY <1>5, Sines DEF AngleOf, SinOf, CosOf
  <1>6. CASE d = 5
    BY <1>6, Sines DEF AngleOf, SinOf, CosOf
  <1> QED
    BY <1>1, <1>2, <1>3, <1>4, <1>5, <1>6

(* The duty cycles for the angle of a sector: three counts, which lie as   *)
(* the voltage asks, one for each phase.                                   *)
LEMMA DutyCounts ==
  ASSUME NEW q \in Int, Voltage(q), NEW d \in 0 .. 5
  PROVE  \E a, b, c \in Int :
            /\ Ordered(a, b, c, q) /\ Proportional(a - b, q)
            /\ \A p \in 1 .. 3 : Duties(AngleOf[d + 1], q)[p] = CountsOf(a, b, c)[d + 1][p]
  <1>. DEFINE u == SpaceVector(inverse_park(CosOf[d + 1], SinOf[d + 1], q))
  <1>1. PICK v \in Int, w \in Int : Near(v, q) /\ Small(w, q) /\ u = PhasesOf(v, w)[d + 1]
    BY Phases
  <1>2. \A p \in 1 .. 3 : Duties(AngleOf[d + 1], q)[p] = Compare(u[p])
    BY SinesOf DEF Duties
  <1>. HIDE DEF u
  <1>. DEFINE a == Compare(v)
              b == Compare(-v)
              c == Compare(w)
  <1>3. -v \in Int
    OBVIOUS
  <1>4. a \in Int /\ Scaled(a, v) /\ b \in Int /\ Scaled(b, -v) /\ c \in Int /\ Scaled(c, w)
    BY <1>3, CompareFloor
  <1>5. \A p \in 1 .. 3 : Compare(u[p]) = CountsOf(a, b, c)[d + 1][p]
    <2>1. d \in {0, 1, 2, 3, 4, 5}
      OBVIOUS
    <2>2. \A p \in 1 .. 3 : p \in {1, 2, 3}
      OBVIOUS
    <2>3. CASE d = 0
      BY <1>1, <2>2, <2>3 DEF PhasesOf, CountsOf
    <2>4. CASE d = 1
      BY <1>1, <2>2, <2>4 DEF PhasesOf, CountsOf
    <2>5. CASE d = 2
      BY <1>1, <2>2, <2>5 DEF PhasesOf, CountsOf
    <2>6. CASE d = 3
      BY <1>1, <2>2, <2>6 DEF PhasesOf, CountsOf
    <2>7. CASE d = 4
      BY <1>1, <2>2, <2>7 DEF PhasesOf, CountsOf
    <2>8. CASE d = 5
      BY <1>1, <2>2, <2>8 DEF PhasesOf, CountsOf
    <2> QED
      BY <2>1, <2>3, <2>4, <2>5, <2>6, <2>7, <2>8
  <1>. HIDE DEF a, b, c
  <1>6. Ordered(a, b, c, q) /\ Proportional(a - b, q)
    BY <1>1, <1>4, Counts
  <1> QED
    BY <1>2, <1>4, <1>5, <1>6

(* The sectors beside one.                                                 *)
LEMMA Neighbours ==
  ASSUME NEW d \in 0 .. 5
  PROVE  /\ d = 5 => (d + 1) % 6 = 0
         /\ d < 5 => (d + 1) % 6 = d + 1
         /\ d = 0 => (d - 1) % 6 = 5
         /\ d > 0 => (d - 1) % 6 = d - 1
  <1>1. ASSUME NEW x \in Int, x + 1 = 0 PROVE x % 6 = 5
    BY <1>1
  <1>2. ASSUME d = 0 PROVE (d - 1) % 6 = 5
    <2>. DEFINE x == d - 1
    <2>1. x \in Int /\ x + 1 = 0
      BY <1>2
    <2>. HIDE DEF x
    <2>2. x % 6 = 5
      BY <2>1, <1>1
    <2> QED
      BY <2>2 DEF x
  <1> QED
    BY <1>2

(* How a phase weighs, by its angle ahead of the rotor.                    *)
LEMMA AheadAt ==
  ASSUME NEW s \in Int, NEW p \in Int, NEW k \in 0 .. 5,
         s - 2 * (p - 1) = k \/ s - 2 * (p - 1) = k - 6
  PROVE  /\ k \in {0, 3} => Ahead(s, p) = 0
         /\ k \in {1, 2} => Ahead(s, p) = -1
         /\ k \in {4, 5} => Ahead(s, p) = 1
  <1>1. (s - 2 * (p - 1)) % 6 = k
    OBVIOUS
  <1>2. Ahead(s, p) = -Sine60[k + 1]
    BY <1>1 DEF Ahead
  <1>. DEFINE x == Sine60[k + 1]
  <1>3. /\ k \in {0, 3} => x = 0
        /\ k \in {1, 2} => x = 1
        /\ k \in {4, 5} => x = -1
    BY DEF Sine60
  <1>4. Ahead(s, p) = -x
    BY <1>2
  <1>. HIDE DEF x
  <1>5. k \in {0, 1, 2, 3, 4, 5}
    OBVIOUS
  <1>6. x \in Int
    BY <1>3, <1>5
  <1>7. (x = 0 => -x = 0) /\ (x = 1 => -x = -1) /\ (x = -1 => -x = 1)
    OBVIOUS
  <1> QED
    BY <1>3, <1>4, <1>7

(* The torque on a rotor in the sector that is aimed at, and one beside it.*)
LEMMA Torques ==
  ASSUME NEW d \in 0 .. 5, NEW a \in Int, NEW b \in Int, NEW c \in Int,
         \A p \in 1 .. 3 : duty[p] = CountsOf(a, b, c)[d + 1][p]
  PROVE  /\ Torque(d) = a - b
         /\ \A s \in {(d + 1) % 6, (d - 1) % 6} : Torque(s) \in {a - c, c - b}
  <1>1. CASE d = 0
    <2>1. duty[1] = c /\ duty[2] = a /\ duty[3] = b
      BY <1>1 DEF CountsOf
    <2>2. Ahead(0, 1) = 0 /\ Ahead(0, 2) = 1 /\ Ahead(0, 3) = -1
      BY AheadAt
    <2>3. Ahead(1, 1) = -1 /\ Ahead(1, 2) = 1 /\ Ahead(1, 3) = 0
      BY AheadAt
    <2>4. Ahead(5, 1) = 1 /\ Ahead(5, 2) = 0 /\ Ahead(5, 3) = -1
      BY AheadAt
    <2>5. Torque(0) = a - b /\ Torque(1) = a - c /\ Torque(5) = c - b
      BY <2>1, <2>2, <2>3, <2>4 DEF Torque
    <2>6. (d + 1) % 6 = 1 /\ (d - 1) % 6 = 5
      BY <1>1, Neighbours
    <2> QED
      BY <1>1, <2>5, <2>6
  <1>2. CASE d = 1
    <2>1. duty[1] = b /\ duty[2] = a /\ duty[3] = c
      BY <1>2 DEF CountsOf
    <2>2. Ahead(1, 1) = -1 /\ Ahead(1, 2) = 1 /\ Ahead(1, 3) = 0
      BY AheadAt
    <2>3. Ahead(2, 1) = -1 /\ Ahead(2, 2) = 0 /\ Ahead(2, 3) = 1
      BY AheadAt
    <2>4. Ahead(0, 1) = 0 /\ Ahead(0, 2) = 1 /\ Ahead(0, 3) = -1
      BY AheadAt
    <2>5. Torque(1) = a - b /\ Torque(2) = c - b /\ Torque(0) = a - c
      BY <2>1, <2>2, <2>3, <2>4 DEF Torque
    <2>6. (d + 1) % 6 = 2 /\ (d - 1) % 6 = 0
      BY <1>2, Neighbours
    <2> QED
      BY <1>2, <2>5, <2>6
  <1>3. CASE d = 2
    <2>1. duty[1] = b /\ duty[2] = c /\ duty[3] = a
      BY <1>3 DEF CountsOf
    <2>2. Ahead(2, 1) = -1 /\ Ahead(2, 2) = 0 /\ Ahead(2, 3) = 1
      BY AheadAt
    <2>3. Ahead(3, 1) = 0 /\ Ahead(3, 2) = -1 /\ Ahead(3, 3) = 1
      BY AheadAt
    <2>4. Ahead(1, 1) = -1 /\ Ahead(1, 2) = 1 /\ Ahead(1, 3) = 0
      BY AheadAt
    <2>5. Torque(2) = a - b /\ Torque(3) = a - c /\ Torque(1) = c - b
      BY <2>1, <2>2, <2>3, <2>4 DEF Torque
    <2>6. (d + 1) % 6 = 3 /\ (d - 1) % 6 = 1
      BY <1>3, Neighbours
    <2> QED
      BY <1>3, <2>5, <2>6
  <1>4. CASE d = 3
    <2>1. duty[1] = c /\ duty[2] = b /\ duty[3] = a
      BY <1>4 DEF CountsOf
    <2>2. Ahead(3, 1) = 0 /\ Ahead(3, 2) = -1 /\ Ahead(3, 3) = 1
      BY AheadAt
    <2>3. Ahead(4, 1) = 1 /\ Ahead(4, 2) = -1 /\ Ahead(4, 3) = 0
      BY AheadAt
    <2>4. Ahead(2, 1) = -1 /\ Ahead(2, 2) = 0 /\ Ahead(2, 3) = 1
      BY AheadAt
    <2>5. Torque(3) = a - b /\ Torque(4) = c - b /\ Torque(2) = a - c
      BY <2>1, <2>2, <2>3, <2>4 DEF Torque
    <2>6. (d + 1) % 6 = 4 /\ (d - 1) % 6 = 2
      BY <1>4, Neighbours
    <2> QED
      BY <1>4, <2>5, <2>6
  <1>5. CASE d = 4
    <2>1. duty[1] = a /\ duty[2] = b /\ duty[3] = c
      BY <1>5 DEF CountsOf
    <2>2. Ahead(4, 1) = 1 /\ Ahead(4, 2) = -1 /\ Ahead(4, 3) = 0
      BY AheadAt
    <2>3. Ahead(5, 1) = 1 /\ Ahead(5, 2) = 0 /\ Ahead(5, 3) = -1
      BY AheadAt
    <2>4. Ahead(3, 1) = 0 /\ Ahead(3, 2) = -1 /\ Ahead(3, 3) = 1
      BY AheadAt
    <2>5. Torque(4) = a - b /\ Torque(5) = a - c /\ Torque(3) = c - b
      BY <2>1, <2>2, <2>3, <2>4 DEF Torque
    <2>6. (d + 1) % 6 = 5 /\ (d - 1) % 6 = 3
      BY <1>5, Neighbours
    <2> QED
      BY <1>5, <2>5, <2>6
  <1>6. CASE d = 5
    <2>1. duty[1] = a /\ duty[2] = c /\ duty[3] = b
      BY <1>6 DEF CountsOf
    <2>2. Ahead(5, 1) = 1 /\ Ahead(5, 2) = 0 /\ Ahead(5, 3) = -1
      BY AheadAt
    <2>3. Ahead(0, 1) = 0 /\ Ahead(0, 2) = 1 /\ Ahead(0, 3) = -1
      BY AheadAt
    <2>4. Ahead(4, 1) = 1 /\ Ahead(4, 2) = -1 /\ Ahead(4, 3) = 0
      BY AheadAt
    <2>5. Torque(5) = a - b /\ Torque(0) = c - b /\ Torque(4) = a - c
      BY <2>1, <2>2, <2>3, <2>4 DEF Torque
    <2>6. (d + 1) % 6 = 0 /\ (d - 1) % 6 = 4
      BY <1>6, Neighbours
    <2> QED
      BY <1>6, <2>5, <2>6
  <1> QED
    BY <1>1, <1>2, <1>3, <1>4, <1>5, <1>6

-----------------------------------------------------------------------------
(* The inductive invariant                                                 *)

Setpoint(q) == q \in Int /\ -65536 <= q /\ q <= 65536

TypeInv ==
  /\ sector \in 0 .. 5 /\ connected \in BOOLEAN
  /\ settled \in BOOLEAN /\ quiet \in BOOLEAN
  /\ isr \in {"idle", "halls", "duty"}
  /\ Setpoint(msg) /\ Voltage(control) /\ Voltage(v_q)

(* How far the interrupt has read.                                         *)
ReadInv ==
  /\ halls \in Seq({0, 1})
  /\ isr = "halls" => Len(halls) < 3
  /\ isr = "duty" => Len(halls) = 3

Beside(s) == {(s + 1) % 6, (s - 1) % 6}

(* The pins that it has read are those of the sector, or, once the rotor   *)
(* has moved on, each of them is that of the sector or of the one before;  *)
(* there is only one such move until an interrupt has seen the new sector  *)
(* from beginning to end.                                                  *)
PinsOf(s) == \A k \in 1 .. Len(halls) : halls[k] = Pins[s + 1][k]
PinsOfEither(s, t) ==
  \A k \in 1 .. Len(halls) : halls[k] \in {Pins[s + 1][k], Pins[t + 1][k]}
PinsInv ==
  connected /\ isr # "idle" =>
    /\ quiet => PinsOf(sector)
    /\ ~quiet => ~settled /\ \E o \in Beside(sector) : PinsOfEither(o, sector)

(* The outputs are still as they were at reset, or they are those of a     *)
(* sector, which is the rotor's own when it is settled and otherwise at    *)
(* most one away.                                                          *)
AtReset == v_q = 0 /\ duty = [p \in 1 .. 3 |-> 0]
AimedAt(d) ==
  /\ duty = Duties(AngleOf[d + 1], v_q)
  /\ connected => d \in {sector} \cup Beside(sector) /\ (settled => d = sector)
AimInv == AtReset \/ \E d \in 0 .. 5 : AimedAt(d)

CInv == TypeInv /\ ReadInv /\ PinsInv /\ AimInv
-----------------------------------------------------------------------------
(* What the invariant says about the phases                                *)

(* Outputs for a sector drive the rotor as asked there and in the sectors  *)
(* beside it, and none is on for too long.                                 *)
LEMMA Lying ==
  ASSUME TypeInv, NEW d \in 0 .. 5, duty = Duties(AngleOf[d + 1], v_q)
  PROVE  /\ SenseLimit
         /\ Proportional(Torque(d), v_q) /\ Torque(d) \in Int
         /\ \A s \in {d} \cup Beside(d) : Sign(Torque(s)) = Sign(v_q)
  <1>1. v_q \in Int /\ Voltage(v_q)
    BY DEF TypeInv, Voltage
  <1>2. PICK a \in Int, b \in Int, c \in Int :
          /\ Ordered(a, b, c, v_q) /\ Proportional(a - b, v_q)
          /\ \A p \in 1 .. 3 : Duties(AngleOf[d + 1], v_q)[p] = CountsOf(a, b, c)[d + 1][p]
    BY <1>1, DutyCounts
  <1>3. /\ Torque(d) = a - b
        /\ \A s \in Beside(d) : Torque(s) \in {a - c, c - b}
    <2>1. \A p \in 1 .. 3 : duty[p] = CountsOf(a, b, c)[d + 1][p]
      BY <1>2
    <2>2. /\ Torque(d) = a - b
          /\ \A s \in {(d + 1) % 6, (d - 1) % 6} : Torque(s) \in {a - c, c - b}
      BY <2>1, Torques
    <2> QED
      BY <2>2 DEF Beside
  <1>4. SenseLimit
    <2>1. a <= 5900 /\ b <= 5900 /\ c <= 5900
      BY <1>2 DEF Ordered
    <2>2. ASSUME NEW p \in 1 .. 3 PROVE CountsOf(a, b, c)[d + 1][p] \in {a, b, c}
      <3>1. p \in {1, 2, 3} /\ d \in {0, 1, 2, 3, 4, 5}
        OBVIOUS
      <3> QED
        BY <3>1 DEF CountsOf
    <2> QED
      BY <1>2, <2>1, <2>2 DEF SenseLimit, PWM_SENSE_LIMIT
  <1>5. /\ Sign(a - b) = Sign(v_q)
        /\ Sign(a - c) = Sign(v_q)
        /\ Sign(c - b) = Sign(v_q)
    BY <1>1, <1>2 DEF Ordered, Sign
  <1>6. \A s \in {d} \cup Beside(d) : Sign(Torque(s)) = Sign(v_q)
    BY <1>3, <1>5
  <1> QED
    BY <1>2, <1>3, <1>4, <1>6

(* The outputs at reset do not drive it.                                   *)
LEMMA AtResetTorque ==
  ASSUME AtReset, NEW s \in 0 .. 5
  PROVE  Torque(s) = 0
  <1>1. PICK z \in Int : z = 0
    OBVIOUS
  <1>2. \A p \in 1 .. 3 : duty[p] = z
    BY <1>1 DEF AtReset
  <1>3. ASSUME NEW p \in 1 .. 3 PROVE CountsOf(z, z, z)[s + 1][p] = z
    <2>1. p \in {1, 2, 3} /\ s \in {0, 1, 2, 3, 4, 5}
      OBVIOUS
    <2> QED
      BY <2>1 DEF CountsOf
  <1>4. \A p \in 1 .. 3 : duty[p] = CountsOf(z, z, z)[s + 1][p]
    BY <1>2, <1>3
  <1>5. Torque(s) = z - z
    BY <1>4, Torques
  <1> QED
    BY <1>1, <1>5

(* The bounds on the torque, as Even states them.                          *)
LEMMA ProportionalEven ==
  ASSUME NEW t \in Int, NEW q \in Int, Proportional(t, q)
  PROVE  Abs(t - (q * PWM_SENSE_LIMIT) \div ONE) <= 3
  <1>1. PICK m \in Int : /\ m = (q * 5900) \div 65536
                         /\ 65536 * m <= q * 5900 /\ q * 5900 < 65536 * m + 65536
    OBVIOUS
  <1>2. -3 <= t - m /\ t - m <= 3
    BY <1>1 DEF Proportional
  <1>3. (q * PWM_SENSE_LIMIT) \div ONE = m
    BY <1>1 DEF PWM_SENSE_LIMIT, ONE
  <1>4. Abs(t - m) <= 3
    BY <1>2 DEF Abs
  <1> QED
    BY <1>3, <1>4

(* The sectors beside a sector have it beside them.                        *)
LEMMA BesideOf ==
  ASSUME NEW s \in 0 .. 5, NEW d \in Beside(s)
  PROVE  d \in 0 .. 5 /\ s \in Beside(d)
  <1>1. CASE d = (s + 1) % 6
    <2>1. d \in 0 .. 5 /\ (d - 1) % 6 = s
      <3>1. CASE s = 5
        <4>1. d = 0
          BY <1>1, <3>1, Neighbours
        <4> QED
          BY <3>1, <4>1, Neighbours
      <3>2. CASE s < 5
        <4>1. d = s + 1
          BY <1>1, <3>2, Neighbours
        <4>2. d \in 0 .. 5 /\ d > 0
          BY <3>2, <4>1
        <4>3. (d - 1) % 6 = d - 1
          BY <4>2, Neighbours
        <4> QED
          BY <4>1, <4>2, <4>3
      <3> QED
        BY <3>1, <3>2
    <2> QED
      BY <2>1 DEF Beside
  <1>2. CASE d = (s - 1) % 6
    <2>1. d \in 0 .. 5 /\ (d + 1) % 6 = s
      <3>1. CASE s = 0
        <4>1. d = 5
          BY <1>2, <3>1, Neighbours
        <4> QED
          BY <3>1, <4>1, Neighbours
      <3>2. CASE s > 0
        <4>1. d = s - 1
          BY <1>2, <3>2, Neighbours
        <4>2. d \in 0 .. 5 /\ d < 5
          BY <3>2, <4>1
        <4>3. (d + 1) % 6 = d + 1
          BY <4>2, Neighbours
        <4> QED
          BY <4>1, <4>2, <4>3
      <3> QED
        BY <3>1, <3>2
    <2> QED
      BY <2>1 DEF Beside
  <1> QED
    BY <1>1, <1>2 DEF Beside

(* The invariant implies the properties.                                   *)
LEMMA Consequences == CInv => SenseLimit /\ TorqueAsAsked /\ Even
  <1>. SUFFICES ASSUME CInv PROVE SenseLimit /\ TorqueAsAsked /\ Even
    OBVIOUS
  <1>1. TypeInv /\ AimInv /\ sector \in 0 .. 5 /\ v_q \in Int
    BY DEF CInv, TypeInv, Voltage
  <1>2. CASE AtReset
    <2>1. Torque(sector) = 0 /\ v_q = 0
      BY <1>1, <1>2, AtResetTorque DEF AtReset
    <2>2. SenseLimit
      BY <1>2 DEF SenseLimit, AtReset, PWM_SENSE_LIMIT
    <2>3. TorqueAsAsked
      BY <2>1 DEF TorqueAsAsked
    <2>4. Proportional(0, 0)
      BY DEF Proportional
    <2>5. Even
      BY <2>1, <2>4, ProportionalEven DEF Even
    <2> QED
      BY <2>2, <2>3, <2>5
  <1>3. ASSUME NEW d \in 0 .. 5, AimedAt(d) PROVE SenseLimit /\ TorqueAsAsked /\ Even
    <2>1. /\ SenseLimit
          /\ Proportional(Torque(d), v_q) /\ Torque(d) \in Int
          /\ \A s \in {d} \cup Beside(d) : Sign(Torque(s)) = Sign(v_q)
      BY <1>1, <1>3, Lying DEF AimedAt
    <2>2. TorqueAsAsked
      <3>1. connected => d \in {sector} \cup Beside(sector)
        BY <1>3 DEF AimedAt
      <3>2. connected => sector \in {d} \cup Beside(d)
        BY <1>1, <3>1, BesideOf
      <3> QED
        BY <2>1, <3>2 DEF TorqueAsAsked
    <2>3. Abs(Torque(d) - (v_q * PWM_SENSE_LIMIT) \div ONE) <= 3
      BY <1>1, <2>1, ProportionalEven
    <2>4. Even
      BY <1>3, <2>3 DEF Even, AimedAt
    <2> QED
      BY <2>1, <2>2, <2>4
  <1> QED
    BY <1>1, <1>2, <1>3 DEF AimInv
-----------------------------------------------------------------------------
(* The steps                                                               *)

(* Three pins, each that of one of two neighbouring sectors, are the pins  *)
(* of one of them: the sectors differ in one pin.                          *)
LEMMA OneOfTwo ==
  ASSUME NEW s \in 0 .. 5, NEW o \in Beside(s),
         NEW a \in {Pins[o + 1][1], Pins[s + 1][1]},
         NEW b \in {Pins[o + 1][2], Pins[s + 1][2]},
         NEW c \in {Pins[o + 1][3], Pins[s + 1][3]}
  PROVE  \E d \in {o, s} : a = Pins[d + 1][1] /\ b = Pins[d + 1][2] /\ c = Pins[d + 1][3]
  <1>1. s \in {0, 1, 2, 3, 4, 5}
    OBVIOUS
  <1>2. CASE s = 0
    <2>1. o \in {1, 5}
      BY <1>2, Neighbours DEF Beside
    <2> QED
      BY <1>2, <2>1 DEF Pins
  <1>3. CASE s = 1
    <2>1. o \in {0, 2}
      BY <1>3, Neighbours DEF Beside
    <2> QED
      BY <1>3, <2>1 DEF Pins
  <1>4. CASE s = 2
    <2>1. o \in {1, 3}
      BY <1>4, Neighbours DEF Beside
    <2> QED
      BY <1>4, <2>1 DEF Pins
  <1>5. CASE s = 3
    <2>1. o \in {2, 4}
      BY <1>5, Neighbours DEF Beside
    <2> QED
      BY <1>5, <2>1 DEF Pins
  <1>6. CASE s = 4
    <2>1. o \in {3, 5}
      BY <1>6, Neighbours DEF Beside
    <2> QED
      BY <1>6, <2>1 DEF Pins
  <1>7. CASE s = 5
    <2>1. o \in {4, 0}
      BY <1>7, Neighbours DEF Beside
    <2> QED
      BY <1>7, <2>1 DEF Pins
  <1> QED
    BY <1>1, <1>2, <1>3, <1>4, <1>5, <1>6, <1>7

(* The angle that the interrupt finds once it has read its pins.           *)
LEMMA AngleRead ==
  ASSUME CInv, isr = "duty"
  PROVE  \E d \in 0 .. 5 :
            /\ HallAngle(halls) = AngleOf[d + 1]
            /\ connected => /\ quiet => d = sector
                            /\ ~quiet => ~settled /\ d \in {sector} \cup Beside(sector)
  <1>1. halls \in Seq({0, 1}) /\ Len(halls) = 3 /\ sector \in 0 .. 5 /\ quiet \in BOOLEAN
    BY DEF CInv, ReadInv, TypeInv
  <1>2. halls[1] \in {0, 1} /\ halls[2] \in {0, 1} /\ halls[3] \in {0, 1}
    BY <1>1
  <1>3. ASSUME NEW p, halls[1] = p[1], halls[2] = p[2], halls[3] = p[3]
        PROVE  HallAngle(halls) = HallAngle(p)
    BY <1>3, Zenon DEF HallAngle
  <1>4. CASE ~connected
    <2>1. HallAngle(halls) = HallAngle(<<halls[1], halls[2], halls[3]>>)
      BY DEF HallAngle
    <2> QED
      BY <1>2, <1>4, <2>1, HallBits
  <1>5. CASE connected /\ quiet
    <2>1. PinsOf(sector)
      BY <1>5 DEF CInv, PinsInv
    <2>2. \A k \in {1, 2, 3} : halls[k] = Pins[sector + 1][k]
      BY <1>1, <2>1 DEF PinsOf
    <2>3. HallAngle(halls) = HallAngle(Pins[sector + 1])
      BY <1>3, <2>2
    <2> QED
      BY <1>1, <1>5, <2>3, HallSector
  <1>6. CASE connected /\ ~quiet
    <2>1. ~settled /\ \E o \in Beside(sector) : PinsOfEither(o, sector)
      BY <1>6 DEF CInv, PinsInv
    <2>2. PICK o \in Beside(sector) : PinsOfEither(o, sector)
      BY <2>1
    <2>3. /\ halls[1] \in {Pins[o + 1][1], Pins[sector + 1][1]}
          /\ halls[2] \in {Pins[o + 1][2], Pins[sector + 1][2]}
          /\ halls[3] \in {Pins[o + 1][3], Pins[sector + 1][3]}
      BY <1>1, <2>2 DEF PinsOfEither
    <2>4. PICK d \in {o, sector} : /\ halls[1] = Pins[d + 1][1]
                                   /\ halls[2] = Pins[d + 1][2]
                                   /\ halls[3] = Pins[d + 1][3]
      BY <1>1, <2>3, OneOfTwo
    <2>5. d \in 0 .. 5 /\ d \in {sector} \cup Beside(sector)
      BY <1>1, <2>2, <2>4, BesideOf
    <2>6. HallAngle(halls) = AngleOf[d + 1]
      BY <1>3, <2>4, <2>5, HallSector
    <2> QED
      BY <1>6, <2>1, <2>5, <2>6
  <1> QED
    BY <1>1, <1>4, <1>5, <1>6
(* A setpoint of the bus, and the control mode made from one.              *)
LEMMA SetpointOf ==
  ASSUME NEW m \in Voltages
  PROVE  Setpoint(m)
  <1>1. m \in -ONE .. ONE
    BY VoltageAssumption
  <1>2. ONE \in Int /\ ONE - 65536 = 0
    BY DEF ONE
  <1>3. m \in Int /\ -ONE <= m /\ m <= ONE
    BY <1>1, <1>2
  <1> QED
    BY <1>2, <1>3 DEF Setpoint

LEMMA VoltageOf ==
  ASSUME NEW m, Setpoint(m)
  PROVE  Voltage(IF Abs(m) < DEADBAND THEN 0 ELSE m)
  <1>1. m \in Int
    BY DEF Setpoint
  <1>2. CASE Abs(m) < DEADBAND
    <2>1. Voltage(0)
      BY DEF Voltage
    <2> QED
      BY <1>2, <2>1
  <1>3. CASE ~(Abs(m) < DEADBAND)
    <2>1. m <= -1311 \/ m >= 1311
      BY <1>1, <1>3 DEF Abs, DEADBAND
    <2>2. Voltage(m)
      BY <1>1, <2>1 DEF Setpoint, Voltage
    <2> QED
      BY <1>3, <2>2
  <1> QED
    BY <1>2, <1>3

LEMMA InitInv == Init => CInv
  <1>. SUFFICES ASSUME Init PROVE CInv
    OBVIOUS
  <1>1. Setpoint(0) /\ Voltage(0)
    BY DEF Setpoint, Voltage
  <1>2. TypeInv
    BY <1>1 DEF Init, TypeInv
  <1>3. ReadInv /\ PinsInv
    BY DEF Init, ReadInv, PinsInv
  <1>4. AimInv
    BY DEF Init, AimInv, AtReset
  <1> QED
    BY <1>2, <1>3, <1>4 DEF CInv

(* What is left when the interrupt's reading and the aim are not touched.  *)
LEMMA SameAim ==
  ASSUME AimInv, UNCHANGED <<sector, settled, v_q, duty>>, connected' => connected
  PROVE  AimInv'
  BY DEF AimInv, AtReset, AimedAt

LEMMA RotateInv == CInv /\ Rotate => CInv'
  <1>. SUFFICES ASSUME CInv, Rotate PROVE CInv'
    OBVIOUS
  <1>. USE DEF Rotate
  <1>1. sector \in 0 .. 5 /\ sector' \in Beside(sector)
    BY DEF CInv, TypeInv, Beside
  <1>2. sector' \in 0 .. 5 /\ sector \in Beside(sector')
    BY <1>1, BesideOf
  <1>3. TypeInv'
    BY <1>2 DEF CInv, TypeInv
  <1>4. ReadInv'
    BY DEF CInv, ReadInv
  <1>5. PinsInv'
    <2>. SUFFICES ASSUME connected, isr # "idle"
                  PROVE  \E o \in Beside(sector') : PinsOfEither(o, sector)'
      BY DEF PinsInv, Beside
    <2>1. PinsOf(sector)
      BY DEF CInv, PinsInv, TypeInv
    <2>2. PICK o \in Beside(sector') : o = sector
      BY <1>2
    <2>3. PinsOfEither(o, sector)'
      BY <2>1, <2>2 DEF PinsOf, PinsOfEither
    <2> QED
      BY <2>3
  <1>6. AimInv'
    <2>1. CASE AtReset
      BY <2>1 DEF AimInv, AtReset
    <2>2. ASSUME NEW d \in 0 .. 5, AimedAt(d) PROVE AimedAt(d)'
      <3>1. connected => d = sector
        BY <2>2 DEF AimedAt
      <3>2. connected' => d \in {sector'} \cup Beside(sector') /\ ~settled'
        BY <1>2, <3>1
      <3> QED
        BY <2>2, <3>2 DEF AimedAt, Beside
    <2> QED
      BY <2>1, <2>2 DEF CInv, AimInv
  <1> QED
    BY <1>3, <1>4, <1>5, <1>6 DEF CInv

LEMMA UnplugInv == CInv /\ Unplug => CInv'
  <1>. SUFFICES ASSUME CInv, Unplug PROVE CInv'
    OBVIOUS
  <1>1. TypeInv' /\ ReadInv' /\ PinsInv'
    BY DEF Unplug, CInv, TypeInv, ReadInv, PinsInv
  <1>2. AimInv'
    BY SameAim DEF Unplug, CInv
  <1> QED
    BY <1>1, <1>2 DEF CInv

LEMMA HandleMessageInv == CInv /\ HandleMessage => CInv'
  <1>. SUFFICES ASSUME CInv, HandleMessage PROVE CInv'
    OBVIOUS
  <1>1. TypeInv'
    BY SetpointOf DEF HandleMessage, CInv, TypeInv
  <1>2. ReadInv' /\ PinsInv'
    BY DEF HandleMessage, CInv, ReadInv, PinsInv
  <1>3. AimInv'
    BY SameAim DEF HandleMessage, CInv
  <1> QED
    BY <1>1, <1>2, <1>3 DEF CInv

LEMMA SetModeInv == CInv /\ SetMode => CInv'
  <1>. SUFFICES ASSUME CInv, SetMode PROVE CInv'
    OBVIOUS
  <1>1. Voltage(control')
    BY VoltageOf DEF SetMode, CInv, TypeInv
  <1>2. Setpoint(0)
    BY DEF Setpoint
  <1>3. TypeInv'
    BY <1>1, <1>2 DEF SetMode, CInv, TypeInv
  <1>4. ReadInv' /\ PinsInv'
    BY DEF SetMode, CInv, ReadInv, PinsInv
  <1>5. AimInv'
    BY SameAim DEF SetMode, CInv
  <1> QED
    BY <1>3, <1>4, <1>5 DEF CInv

LEMMA EnterInv == CInv /\ Enter => CInv'
  <1>. SUFFICES ASSUME CInv, Enter PROVE CInv'
    OBVIOUS
  <1>1. TypeInv'
    BY DEF Enter, CInv, TypeInv
  <1>2. ReadInv' /\ PinsInv'
    BY DEF Enter, ReadInv, PinsInv, PinsOf
  <1>3. AimInv'
    BY SameAim DEF Enter, CInv
  <1> QED
    BY <1>1, <1>2, <1>3 DEF CInv

LEMMA ReadHallInv == CInv /\ ReadHall => CInv'
  <1>. SUFFICES ASSUME CInv, ReadHall PROVE CInv'
    OBVIOUS
  <1>. USE DEF ReadHall
  <1>1. TypeInv'
    BY DEF CInv, TypeInv
  <1>. DEFINE n == Len(halls) + 1
  <1>2. halls \in Seq({0, 1}) /\ n \in 1 .. 3 /\ sector \in 0 .. 5
    BY DEF CInv, ReadInv, TypeInv
  <1>3. Pin(n) \in {0, 1}
    BY <1>2 DEF Pin, Pins
  <1>4. /\ halls' \in Seq({0, 1}) /\ Len(halls') = n
        /\ \A k \in 1 .. Len(halls') : k < n => k \in 1 .. Len(halls) /\ halls'[k] = halls[k]
        /\ halls'[n] = Pin(n)
    BY <1>2, <1>3
  <1>5. ReadInv'
    BY <1>2, <1>4 DEF ReadInv
  <1>6. PinsInv'
    <2>. SUFFICES ASSUME connected
                  PROVE  /\ quiet => PinsOf(sector)'
                         /\ ~quiet => ~settled /\ \E o \in Beside(sector) : PinsOfEither(o, sector)'
      BY DEF PinsInv, Beside, PinsOfEither
    <2>1. Pin(n) = Pins[sector + 1][n]
      BY DEF Pin
    <2>2. \A k \in 1 .. Len(halls') : k < n \/ k = n
      BY <1>2, <1>4
    <2>3. ASSUME PinsOf(sector) PROVE PinsOf(sector)'
      BY <1>4, <2>1, <2>2, <2>3 DEF PinsOf
    <2>4. ASSUME NEW o \in Beside(sector), PinsOfEither(o, sector)
          PROVE  PinsOfEither(o, sector)'
      BY <1>4, <2>1, <2>2, <2>4 DEF PinsOfEither
    <2> QED
      BY <2>3, <2>4 DEF CInv, PinsInv
  <1>7. AimInv'
    BY SameAim DEF CInv
  <1> QED
    BY <1>1, <1>5, <1>6, <1>7 DEF CInv

LEMMA SetDutyInv == CInv /\ SetDuty => CInv'
  <1>. SUFFICES ASSUME CInv, SetDuty PROVE CInv'
    OBVIOUS
  <1>. USE DEF SetDuty
  <1>1. TypeInv'
    BY DEF CInv, TypeInv
  <1>2. ReadInv' /\ PinsInv'
    BY DEF ReadInv, PinsInv
  <1>3. PICK d \in 0 .. 5 :
          /\ HallAngle(halls) = AngleOf[d + 1]
          /\ connected => /\ quiet => d = sector
                          /\ ~quiet => ~settled /\ d \in {sector} \cup Beside(sector)
    BY AngleRead
  <1>4. duty' = Duties(AngleOf[d + 1], v_q')
    BY <1>3, Zenon
  <1>5. connected' => d \in {sector'} \cup Beside(sector') /\ (settled' => d = sector')
    BY <1>3 DEF CInv, TypeInv
  <1>6. AimedAt(d)'
    BY <1>4, <1>5 DEF AimedAt, Beside
  <1> QED
    BY <1>1, <1>2, <1>6 DEF CInv, AimInv

LEMMA StutterInv == CInv /\ UNCHANGED vars => CInv'
  BY DEF vars, CInv, TypeInv, ReadInv, PinsInv, PinsOf, PinsOfEither, AimInv, AtReset, AimedAt

(* Whatever is asked for, wherever the rotor goes and whichever sensors    *)
(* fail, the interrupt has read what the pins showed, and the outputs are  *)
(* those of the reset or of a sector at most one away from the rotor's.    *)
THEOREM Invariance == Spec => []CInv
  <1>1. CInv /\ [Next]_vars => CInv'
    BY RotateInv, UnplugInv, HandleMessageInv, SetModeInv, EnterInv, ReadHallInv, SetDutyInv,
       StutterInv DEF Next
  <1> QED
    BY InitInv, <1>1, PTL DEF Spec

(* No phase is on for so long that its current could not be measured,      *)
(* whatever the hall sensors say and whatever is asked for.                *)
THEOREM Measurable == Spec => []SenseLimit
  BY Invariance, Consequences, PTL

(* The motor is driven in the direction that was asked for, in the middle  *)
(* of an interrupt and when the rotor has just left its sector.            *)
THEOREM Direction == Spec => []TorqueAsAsked
  BY Invariance, Consequences, PTL

(* A settled rotor has the torque of the voltage, up to three counts, in   *)
(* every sector.                                                           *)
THEOREM Evenness == Spec => []Even
  BY Invariance, Consequences, PTL
=============================================================================
