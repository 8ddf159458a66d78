------------------------- MODULE CoderSetup_proofs -------------------------
(***************************************************************************)
(* Of whatever scripts are asked for, those accepted are taken by a        *)
(* decoder without an error or a warning (ScriptsDecode); of whatever      *)
(* tables a file brings, each code of those not refused is found at its    *)
(* length and in its place (CodesAreFound); and whatever symbols a scan    *)
(* has, the table made for them is a prefix code, with shorter codes for   *)
(* the more frequent (TablesAreCodes).                                     *)
(***************************************************************************)
EXTENDS CoderSetup, OptimalTable_proofs

(***************************************************************************)
(* Facts about scan scripts: the bits the scans of a script carry.         *)
(***************************************************************************)
LEMMA MaxIs ==
  ASSUME NEW S, NEW m \in S, S \subseteq Int, \A x \in S : x <= m
  PROVE  Max(S) = m
<1> DEFINE P(x) == x \in S /\ \A y \in S : x >= y
<1>1. P(m)
  OBVIOUS
<1>2. P(CHOOSE x : P(x))
  BY <1>1
<1>3. Max(S) = CHOOSE x : P(x)
  BY DEF Max
<1>4. Max(S) \in S /\ Max(S) >= m
  BY <1>2, <1>3
<1>5. Max(S) <= m /\ Max(S) \in Int /\ m \in Int
  BY <1>4
<1> HIDE DEF P
<1> QED
  BY <1>4, <1>5

LEMMA NotMore ==
  ASSUME NEW a \in Int, NEW b \in Int, a <= b
  PROVE  ~(a > b)
OBVIOUS

LEMMA NotGreater ==
  ASSUME NEW a \in Int, NEW b \in Int, ~(a > b)
  PROVE  a <= b
OBVIOUS

LEMMA OutOfBand ==
  ASSUME NEW Ss \in Int, NEW Se \in Int, NEW lim \in Int, Ss > lim
  PROVE  \A k \in 0..lim : k \notin Ss..Se
OBVIOUS

LEMMA InBlock ==
  ASSUME NEW Ss \in Nat, NEW lim \in Int, NEW Se \in 0..lim
  PROVE  \A k \in Ss..Se : k \in 0..lim
OBVIOUS

LEMMA GoodBand ==
  ASSUME NEW Ss \in Nat, NEW lim \in Int, NEW Se \in Ss..lim, NEW Al \in 0..10
  PROVE  ~(Ss > 0 /\ Se < Ss) /\ ~(Se > lim) /\ ~(Al > 13)
OBVIOUS

LEMMA LastBitpos ==
  ASSUME NEW script, NEW n \in Nat \ {0}, NEW c, NEW k
  PROVE  /\ last_bitpos(script, 1, c, k) = -1
         /\ last_bitpos(script, n + 1, c, k) =
              IF Carries(script[n], c, k) THEN script[n].Al ELSE last_bitpos(script, n, c, k)
<1> DEFINE E(j) == {i \in 1..j - 1 : Carries(script[i], c, k)}
<1> HIDE DEF Carries
<1>1. E(1) = {}
  OBVIOUS
<1>2. CASE Carries(script[n], c, k)
  <2>1. n \in E(n + 1) /\ E(n + 1) \subseteq Int /\ \A x \in E(n + 1) : x <= n
    BY <1>2
  <2>2. Max(E(n + 1)) = n
    BY <2>1, MaxIs
  <2> QED
    BY <1>1, <1>2, <2>1, <2>2 DEF last_bitpos
<1>3. CASE ~Carries(script[n], c, k)
  <2>1. E(n + 1) = E(n)
    BY <1>3
  <2> QED
    BY <1>1, <1>3, <2>1 DEF last_bitpos
<1> QED
  BY <1>2, <1>3

LEMMA NoScanBefore ==
  ASSUME NEW script, NEW c, NEW k
  PROVE  last_bitpos(script, 1, c, k) = -1
<1>1. 1 \in Nat \ {0}
  OBVIOUS
<1> QED
  BY <1>1, LastBitpos

LEMMA BitsAreLast ==
  ASSUME NEW script, NEW n \in Nat, NEW c, NEW lim \in Nat
  PROVE  BitsAfter(script, n, c, lim) = [k \in 0..lim |-> last_bitpos(script, n + 1, c, k)]
<1> DEFINE f == [i \in 0..n |-> [k \in 0..lim |-> last_bitpos(script, i + 1, c, k)]]
           Step(b, i) == IF i = 0 THEN [k \in 0..lim |-> -1]
                         ELSE IF c \in Range(script[i].comps) THEN Progressed(b[i - 1], script[i])
                         ELSE b[i - 1]
           Eq(b) == b = [i \in 0..n |-> Step(b, i)]
           bits == CHOOSE b : Eq(b)
<1>1. ASSUME NEW i \in 0..n, NEW b, i # 0 => b[i - 1] = f[i - 1]
      PROVE  f[i] = Step(b, i)
  <2>1. CASE i = 0
    <3>1. \A k \in 0..lim : last_bitpos(script, i + 1, c, k) = -1
      BY <2>1, LastBitpos, 1 \in Nat \ {0}
    <3> QED
      BY <2>1, <3>1
  <2>2. CASE i # 0 /\ c \in Range(script[i].comps)
    <3>1. b[i - 1] = [k \in 0..lim |-> last_bitpos(script, i, c, k)]
      <4>1. i - 1 \in 0..n /\ (i - 1) + 1 = i
        BY <2>2
      <4>2. f[i - 1] = [k \in 0..lim |-> last_bitpos(script, (i - 1) + 1, c, k)]
        BY <4>1, Zenon
      <4> HIDE DEF f
      <4> QED
        BY <1>1, <2>2, <4>1, <4>2, Zenon
    <3>2. \A k \in 0..lim : last_bitpos(script, i + 1, c, k) =
              IF k \in script[i].Ss..script[i].Se THEN script[i].Al ELSE last_bitpos(script, i, c, k)
      BY <2>2, LastBitpos DEF Carries
    <3>3. Progressed(b[i - 1], script[i]) = [k \in 0..lim |-> last_bitpos(script, i + 1, c, k)]
      BY <3>1, <3>2 DEF Progressed
    <3> QED
      BY <2>2, <3>3
  <2>3. CASE i # 0 /\ c \notin Range(script[i].comps)
    <3>1. \A k \in 0..lim : last_bitpos(script, i + 1, c, k) = last_bitpos(script, i, c, k)
      BY <2>3, LastBitpos DEF Carries
    <3> QED
      BY <1>1, <2>3, <3>1
  <2> QED
    BY <2>1, <2>2, <2>3
<1>2. Eq(f)
  <2>1. \A i \in 0..n : f[i] = Step(f, i)
    BY <1>1
  <2> QED
    BY <2>1
<1>3. Eq(bits)
  BY <1>2
<1>4. BitsAfter(script, n, c, lim) = bits[n]
  BY DEF BitsAfter
<1>5. \A i \in 0..n : bits[i] = Step(bits, i)
  BY <1>3
<1> DEFINE S == {i \in Nat : i <= n => bits[i] = f[i]}
<1> HIDE DEF bits, f, Step
<1>6. 0 \in S
  BY <1>1, <1>5
<1>7. \A i \in Nat : i \in S => i + 1 \in S
  <2> SUFFICES ASSUME NEW i \in Nat, i + 1 <= n, bits[i] = f[i] PROVE bits[i + 1] = f[i + 1]
    OBVIOUS
  <2>1. i + 1 \in 0..n /\ (i + 1) - 1 = i
    OBVIOUS
  <2> QED
    BY <1>1, <1>5, <2>1
<1>8. n \in S
  <2> HIDE DEF S
  <2> QED
    BY <1>6, <1>7, NatSet
<1> QED
  BY <1>4, <1>8 DEF f

-----------------------------------------------------------------------------
(* The scripts the compressor accepts.                                      *)
ScanType == [comps : Seq(Int), Ss : Int, Se : Int, Ah : Int, Al : Int]

(* A script that grows at its end keeps what was before.                    *)
LEMMA LastOfPrefix ==
  ASSUME NEW s, NEW t, NEW n \in Nat \ {0}, \A i \in 1..n - 1 : s[i] = t[i], NEW c, NEW k
  PROVE  last_bitpos(s, n, c, k) = last_bitpos(t, n, c, k)
<1> DEFINE S == {j \in Nat : j < n => last_bitpos(s, j + 1, c, k) = last_bitpos(t, j + 1, c, k)}
<1>1. 0 \in S
  BY NoScanBefore
<1>2. ASSUME NEW j \in Nat, j \in S PROVE j + 1 \in S
  <2> SUFFICES ASSUME j + 1 < n PROVE last_bitpos(s, j + 2, c, k) = last_bitpos(t, j + 2, c, k)
    OBVIOUS
  <2>1. s[j + 1] = t[j + 1] /\ last_bitpos(s, j + 1, c, k) = last_bitpos(t, j + 1, c, k)
    BY <1>2
  <2>2. j + 1 \in Nat \ {0} /\ (j + 1) + 1 = j + 2
    OBVIOUS
  <2> QED
    BY <2>1, <2>2, LastBitpos DEF Carries
<1>3. n - 1 \in S
  <2> HIDE DEF S
  <2> QED
    BY <1>1, <1>2, NatSet
<1> QED
  BY <1>3

LEMMA SomeComponents ==
  ASSUME NEW cs \in Seq(Int), Len(cs) \in 1..4
  PROVE  Range(cs) # {}
<1>1. cs[1] \in Range(cs)
  BY DEF Range
<1> QED
  BY <1>1

(* What validate_script says of a scan, as far as it is needed.             *)
LEMMA AcceptedScan ==
  ASSUME NEW script \in Seq(ScanType), NEW comps, NEW n \in DOMAIN script,
         validate_script(script, comps), progressive_mode(script)
  PROVE  LET sc == script[n]
         IN  /\ sc.Ss \in Nat /\ sc.Se \in sc.Ss..63 /\ sc.Ah \in 0..10 /\ sc.Al \in 0..10
             /\ sc.Ss = 0 => sc.Se = 0
             /\ sc.Ss # 0 => Len(sc.comps) = 1
             /\ sc.comps \in Seq(Int) /\ Range(sc.comps) # {}
             /\ \A c \in Range(sc.comps) :
                  /\ sc.Ss # 0 => last_bitpos(script, n, c, 0) >= 0
                  /\ \A k \in sc.Ss..sc.Se :
                       IF last_bitpos(script, n, c, k) < 0 THEN sc.Ah = 0
                       ELSE sc.Ah = last_bitpos(script, n, c, k) /\ sc.Al = sc.Ah - 1
<1> DEFINE sc == script[n]
<1>1. GoodScan(script, n) /\ Len(sc.comps) \in 1..4
  BY DEF validate_script, MAX_COMPS_IN_SCAN
<1>2. sc \in ScanType
  OBVIOUS
<1>3. /\ sc.Ss \in 0..63 /\ sc.Se \in sc.Ss..63 /\ sc.Ah \in 0..10 /\ sc.Al \in 0..10
      /\ sc.Ss = 0 => sc.Se = 0
      /\ sc.Ss # 0 => Len(sc.comps) = 1
      /\ \A c \in Range(sc.comps) :
                /\ sc.Ss # 0 => last_bitpos(script, n, c, 0) >= 0
                /\ \A k \in sc.Ss..sc.Se : ContinuesProgression(script, n, c, k)
  BY <1>1 DEF GoodScan, DCTSIZE2, MAX_AH_AL
<1>4. sc.comps \in Seq(Int) /\ Range(sc.comps) # {}
  <2>1. sc.comps \in Seq(Int)
    BY <1>2 DEF ScanType
  <2>2. Len(sc.comps) \in 1..4
    BY <1>1
  <2> QED
    BY <2>1, <2>2, SomeComponents
<1>5. ASSUME NEW c \in Range(sc.comps), NEW k \in sc.Ss..sc.Se
      PROVE  IF last_bitpos(script, n, c, k) < 0 THEN sc.Ah = 0
             ELSE sc.Ah = last_bitpos(script, n, c, k) /\ sc.Al = sc.Ah - 1
  <2>1. ContinuesProgression(script, n, c, k)
    BY <1>3
  <2> QED
    BY <2>1 DEF ContinuesProgression
<1>6. sc.Ss \in Nat
  <2>1. \A x \in 0..63 : x \in Nat
    OBVIOUS
  <2> QED
    BY <1>3, <2>1, Zenon
<1> QED
  BY <1>3, <1>4, <1>5, <1>6, Zenon

(* The last bit position is one a scan has left, or -1.                     *)
LEMMA LastIsOneOf ==
  ASSUME NEW script, NEW A, NEW n \in Nat \ {0}, \A i \in 1..n - 1 : script[i].Al \in A,
         NEW c, NEW k
  PROVE  last_bitpos(script, n, c, k) \in A \union {-1}
<1> DEFINE S == {j \in Nat : j < n => last_bitpos(script, j + 1, c, k) \in A \union {-1}}
<1>1. 0 \in S
  BY NoScanBefore
<1>2. ASSUME NEW j \in Nat, j \in S PROVE j + 1 \in S
  <2> SUFFICES ASSUME j + 1 < n PROVE last_bitpos(script, j + 2, c, k) \in A \union {-1}
    OBVIOUS
  <2>1. j + 1 \in 1..n - 1 /\ last_bitpos(script, j + 1, c, k) \in A \union {-1}
    BY <1>2
  <2>2. j + 1 \in Nat \ {0} /\ (j + 1) + 1 = j + 2
    OBVIOUS
  <2> QED
    BY <2>1, <2>2, LastBitpos
<1>3. n - 1 \in S
  <2> HIDE DEF S
  <2> QED
    BY <1>1, <1>2, NatSet
<1> QED
  BY <1>3

(* What a decoder of blocks up to lim needs to find of scan n.              *)
Follows(s, n, lim) ==
  /\ ~BadProgression(s[n], lim)
  /\ s[n].Ss \in Nat /\ s[n].Se \in 0..lim
  /\ \A c \in Range(s[n].comps) :
       /\ s[n].Ss > 0 => last_bitpos(s, n, c, 0) >= 0
       /\ \A k \in s[n].Ss..s[n].Se : s[n].Ah = Max({last_bitpos(s, n, c, k), 0})
Reduced(s, script, i, lim) ==
  /\ s \in Seq(ScanType)
  /\ \A n \in DOMAIN s : Follows(s, n, lim)
  /\ \A c \in Int, k \in 0..lim :
       last_bitpos(s, Len(s) + 1, c, k) = last_bitpos(script, i + 1, c, k)

LEMMA MaxOfTwo ==
  ASSUME NEW a \in Int
  PROVE  Max({a, 0}) = IF a < 0 THEN 0 ELSE a
<1> DEFINE m == IF a < 0 THEN 0 ELSE a
<1>1. m \in {a, 0} /\ {a, 0} \subseteq Int /\ \A x \in {a, 0} : x <= m
  OBVIOUS
<1> HIDE DEF m
<1>2. Max({a, 0}) = m
  BY <1>1, MaxIs
<1> QED
  BY <1>2 DEF m

LEMMA MinOfTwo ==
  ASSUME NEW a \in Int, NEW b \in Int
  PROVE  Min({a, b}) = IF a < b THEN a ELSE b
<1> DEFINE m == IF a < b THEN a ELSE b
           P(x) == x \in {a, b} /\ \A y \in {a, b} : x <= y
<1>1. P(m)
  OBVIOUS
<1>2. P(CHOOSE x : P(x))
  BY <1>1
<1>3. Min({a, b}) = CHOOSE x : P(x)
  BY DEF Min
<1> QED
  BY <1>1, <1>2, <1>3

LEMMA AppendedScan ==
  ASSUME NEW r \in Seq(ScanType), NEW x \in ScanType
  PROVE  /\ Append(r, x) \in Seq(ScanType) /\ Len(Append(r, x)) = Len(r) + 1
         /\ \A j \in 1..Len(r) : Append(r, x)[j] = r[j]
         /\ Append(r, x)[Len(r) + 1] = x
         /\ \A j \in 1..Len(r) + 1 : \A c, k :
              last_bitpos(Append(r, x), j, c, k) = last_bitpos(r, j, c, k)
         /\ \A c, k : last_bitpos(Append(r, x), Len(r) + 2, c, k) =
              IF Carries(x, c, k) THEN x.Al ELSE last_bitpos(r, Len(r) + 1, c, k)
<1> DEFINE t == Append(r, x)
<1>1. t \in Seq(ScanType) /\ Len(t) = Len(r) + 1 /\ t[Len(r) + 1] = x
  OBVIOUS
<1>2. \A j \in 1..Len(r) : t[j] = r[j]
  OBVIOUS
<1> HIDE DEF t
<1>3. ASSUME NEW j \in 1..Len(r) + 1, NEW c, NEW k
      PROVE  last_bitpos(t, j, c, k) = last_bitpos(r, j, c, k)
  <2>1. j \in Nat \ {0} /\ \A i \in 1..j - 1 : t[i] = r[i]
    BY <1>2
  <2> QED
    BY <2>1, LastOfPrefix
<1>4. ASSUME NEW c, NEW k
      PROVE  last_bitpos(t, Len(r) + 2, c, k) =
               IF Carries(x, c, k) THEN x.Al ELSE last_bitpos(r, Len(r) + 1, c, k)
  <2>1. Len(r) + 1 \in Nat \ {0} /\ (Len(r) + 1) + 1 = Len(r) + 2
    OBVIOUS
  <2>2. last_bitpos(t, Len(r) + 1, c, k) = last_bitpos(r, Len(r) + 1, c, k)
    BY <1>3
  <2> QED
    BY <1>1, <2>1, <2>2, LastBitpos
<1> QED
  BY <1>1, <1>2, <1>3, <1>4 DEF t

LEMMA CutRecord ==
  ASSUME NEW y \in ScanType, NEW v \in Int, NEW x, x = [y EXCEPT !.Se = v]
  PROVE  /\ x \in ScanType /\ x.Ss = y.Ss /\ x.Ah = y.Ah /\ x.Al = y.Al /\ x.comps = y.comps
         /\ x.Se = v
  BY DEF ScanType

LEMMA CutEnd ==
  ASSUME NEW Ss \in Nat, NEW Se \in Ss..63, NEW lim \in 0..63, Ss <= lim
  PROVE  /\ Min({Se, lim}) \in Ss..lim /\ Min({Se, lim}) \in 0..lim /\ Min({Se, lim}) \in Int
         /\ Min({Se, lim}) <= Se
         /\ Se = 0 => Min({Se, lim}) = 0
         /\ \A k \in 0..lim : k \in Ss..Min({Se, lim}) <=> k \in Ss..Se
  BY MinOfTwo

(* A scan of an accepted script, cut to the block, follows what a decoder   *)
(* has of the scans before it.                                              *)
LEMMA CutScan ==
  ASSUME NEW script \in Seq(ScanType), NEW comps, validate_script(script, comps),
         progressive_mode(script), NEW lim \in 0..63, NEW i \in 1..Len(script),
         script[i].Ss <= lim, NEW x \in ScanType, x.Se = Min({script[i].Se, lim}),
         x.Ss = script[i].Ss, x.Ah = script[i].Ah, x.Al = script[i].Al, x.comps = script[i].comps
  PROVE  /\ ~BadProgression(x, lim)
         /\ x.Ss \in Nat /\ x.Se \in 0..lim
         /\ \A c : \A k \in 0..lim : Carries(x, c, k) <=> Carries(script[i], c, k)
         /\ \A c \in Range(x.comps) :
              /\ x.Ss > 0 => last_bitpos(script, i, c, 0) >= 0
              /\ \A k \in x.Ss..x.Se : x.Ah = Max({last_bitpos(script, i, c, k), 0})
<1> DEFINE y == script[i]
<1>1. i \in DOMAIN script /\ y \in ScanType
  OBVIOUS
<1>2. /\ y.Ss \in Nat /\ y.Se \in y.Ss..63 /\ y.Ah \in 0..10 /\ y.Al \in 0..10
      /\ y.Ss = 0 => y.Se = 0
      /\ y.Ss # 0 => Len(y.comps) = 1
      /\ y.comps \in Seq(Int) /\ Range(y.comps) # {}
  BY <1>1, AcceptedScan
<1>3. \A c \in Range(y.comps) :
        /\ y.Ss # 0 => last_bitpos(script, i, c, 0) >= 0
        /\ \A k \in y.Ss..y.Se :
             IF last_bitpos(script, i, c, k) < 0 THEN y.Ah = 0
             ELSE y.Ah = last_bitpos(script, i, c, k) /\ y.Al = y.Ah - 1
  BY <1>1, AcceptedScan
<1>4. \A c, k : last_bitpos(script, i, c, k) \in Nat \union {-1}
  <2>1. \A n \in DOMAIN script : script[n].Al \in Nat
    <3> TAKE n \in DOMAIN script
    <3>1. script[n].Al \in 0..10
      BY AcceptedScan
    <3> QED
      BY <3>1, SMTT(40)
  <2>2. i \in Nat \ {0} /\ \A j \in 1..i - 1 : j \in DOMAIN script
    OBVIOUS
  <2> QED
    BY <2>1, <2>2, LastIsOneOf
<1>5. y.Ss <= lim
  OBVIOUS
<1> DEFINE e == Min({y.Se, lim})
<1>6. /\ e \in y.Ss..lim /\ e \in 0..lim /\ e \in Int /\ e <= y.Se /\ (y.Se = 0 => e = 0)
      /\ \A k \in 0..lim : k \in y.Ss..e <=> k \in y.Ss..y.Se
  <2> HIDE DEF y
  <2> QED
    BY <1>2, <1>5, CutEnd
<1>8. /\ x \in ScanType /\ x.Ss = y.Ss /\ x.Ah = y.Ah /\ x.Al = y.Al /\ x.comps = y.comps
      /\ x.Se = e
  OBVIOUS
<1> HIDE DEF y, e
<1>9. \A c : \A k \in 0..lim : Carries(x, c, k) <=> Carries(y, c, k)
  BY <1>6, <1>8 DEF Carries
<1>10. ASSUME NEW c \in Range(x.comps), NEW k \in x.Ss..x.Se
       PROVE  /\ x.Ah = Max({last_bitpos(script, i, c, k), 0})
              /\ x.Ah # 0 => x.Al = x.Ah - 1
  <2>1. k \in y.Ss..y.Se /\ c \in Range(y.comps)
    <3>1. k \in y.Ss..e /\ c \in Range(y.comps)
      BY <1>8
    <3> QED
      BY <1>2, <1>6, <3>1
  <2>2. last_bitpos(script, i, c, k) \in Nat \union {-1}
    BY <1>4
  <2>3. IF last_bitpos(script, i, c, k) < 0 THEN y.Ah = 0
        ELSE y.Ah = last_bitpos(script, i, c, k) /\ y.Al = y.Ah - 1
    BY <1>3, <2>1
  <2> DEFINE b == last_bitpos(script, i, c, k)
  <2>4. Max({b, 0}) = IF b < 0 THEN 0 ELSE b
    <3>1. b \in Int
      BY <2>2
    <3> HIDE DEF b
    <3> QED
      BY <3>1, MaxOfTwo
  <2> HIDE DEF b
  <2>5. y.Ah = Max({b, 0}) /\ (y.Ah # 0 => y.Al = y.Ah - 1)
    <3>1. CASE b < 0
      BY <2>3, <2>4, <3>1 DEF b
    <3>2. CASE ~(b < 0)
      BY <2>3, <2>4, <3>2 DEF b
    <3> QED
      BY <3>1, <3>2
  <2> QED
    BY <1>8, <2>5 DEF b
<1>11. ~BadProgression(x, lim)
  <2>1. x.Ah # 0 => x.Al = x.Ah - 1
    <3>1. PICK c \in Range(x.comps) : TRUE
      BY <1>2, <1>8
    <3>2. x.Ss \in x.Ss..x.Se
      BY <1>2, <1>6, <1>8
    <3> QED
      BY <1>10, <3>1, <3>2
  <2>2. (x.Ss = 0 => x.Se = 0) /\ (x.Ss > 0 => Len(x.comps) = 1)
    BY <1>2, <1>6, <1>8
  <2>3. x.Se \in x.Ss..lim /\ x.Al \in 0..10 /\ x.Ah \in 0..10 /\ x.Ss \in Nat
    BY <1>2, <1>6, <1>8
  <2>4. ~(x.Ss > 0 /\ x.Se < x.Ss) /\ ~(x.Se > lim) /\ ~(x.Al > 13)
    <3>1. lim \in Int
      OBVIOUS
    <3> QED
      BY <2>3, <3>1, GoodBand, Zenon
  <2>5. ~(x.Ah # 0 /\ x.Ah - 1 # x.Al)
    BY <2>1
  <2> QED
    BY <2>2, <2>4, <2>5, Zenon DEF BadProgression
<1>12. ASSUME NEW c \in Range(x.comps), x.Ss > 0
       PROVE  last_bitpos(script, i, c, 0) >= 0
  BY <1>2, <1>3, <1>8, <1>12
<1> QED
  BY <1>2, <1>6, <1>8, <1>9, <1>10, <1>11, <1>12 DEF y

(* One step of reduce_script.                                               *)
LEMMA ReduceStep ==
  ASSUME NEW script \in Seq(ScanType), NEW comps, validate_script(script, comps),
         progressive_mode(script), NEW lim \in 0..63, NEW i \in 1..Len(script),
         NEW r, Reduced(r, script, i - 1, lim)
  PROVE  Reduced(IF script[i].Ss > lim THEN r
                 ELSE Append(r, [script[i] EXCEPT !.Se = Min({@, lim})]), script, i, lim)
<1>1. /\ r \in Seq(ScanType)
      /\ \A n \in DOMAIN r : Follows(r, n, lim)
      /\ \A c \in Int, k \in 0..lim :
           last_bitpos(r, Len(r) + 1, c, k) = last_bitpos(script, i, c, k)
  BY DEF Reduced
<1>2. i \in DOMAIN script /\ i \in Nat \ {0} /\ script[i] \in ScanType
  OBVIOUS
<1>3. script[i].Ss \in Nat /\ script[i].Se \in script[i].Ss..63
  BY <1>2, AcceptedScan
<1>4. \A c, k : last_bitpos(script, i + 1, c, k) =
              IF Carries(script[i], c, k) THEN script[i].Al ELSE last_bitpos(script, i, c, k)
  BY <1>2, LastBitpos
<1>5. CASE script[i].Ss > lim
  <2>1. \A c \in Int, k \in 0..lim : ~Carries(script[i], c, k)
    <3>1. \A k \in 0..lim : k \notin script[i].Ss..script[i].Se
      <4>1. script[i].Ss \in Int /\ script[i].Se \in Int /\ lim \in Int
        BY <1>3
      <4> QED
        BY <1>5, <4>1, OutOfBand, Zenon
    <3> QED
      BY <3>1, Zenon DEF Carries
  <2>2. \A c \in Int, k \in 0..lim : last_bitpos(script, i + 1, c, k) = last_bitpos(script, i, c, k)
    BY <1>4, <2>1, Zenon
  <2>3. Reduced(r, script, i, lim)
    BY <1>1, <2>2, Zenon DEF Reduced
  <2> QED
    BY <1>5, <2>3, Zenon
<1>6. CASE ~(script[i].Ss > lim)
  <2> DEFINE e == Min({script[i].Se, lim})
             x == [script[i] EXCEPT !.Se = e]
             t == Append(r, x)
  <2>1. script[i].Ss <= lim
    <3>1. script[i].Ss \in Int /\ lim \in Int
      BY <1>3, SMTT(40)
    <3> QED
      BY <1>6, <3>1, NotGreater, Zenon
  <2>2. e \in Int
    BY <1>3, <2>1, CutEnd
  <2>3. /\ x \in ScanType /\ x.Ss = script[i].Ss /\ x.Ah = script[i].Ah /\ x.Al = script[i].Al
        /\ x.comps = script[i].comps /\ x.Se = e
    <3> HIDE DEF e
    <3> QED
      BY <1>2, <2>2, CutRecord
  <2>4. x = [script[i] EXCEPT !.Se = Min({@, lim})]
    OBVIOUS
  <2> HIDE DEF x
  <2>5. /\ ~BadProgression(x, lim)
        /\ x.Ss \in Nat /\ x.Se \in 0..lim
        /\ \A c : \A k \in 0..lim : Carries(x, c, k) <=> Carries(script[i], c, k)
        /\ \A c \in Range(x.comps) :
              /\ x.Ss > 0 => last_bitpos(script, i, c, 0) >= 0
              /\ \A k \in x.Ss..x.Se : x.Ah = Max({last_bitpos(script, i, c, k), 0})
    BY <2>1, <2>3, CutScan
  <2>6. /\ t \in Seq(ScanType) /\ Len(t) = Len(r) + 1
        /\ \A j \in 1..Len(r) : t[j] = r[j]
        /\ t[Len(r) + 1] = x
        /\ \A j \in 1..Len(r) + 1 : \A c, k : last_bitpos(t, j, c, k) = last_bitpos(r, j, c, k)
        /\ \A c, k : last_bitpos(t, Len(r) + 2, c, k) =
              IF Carries(x, c, k) THEN x.Al ELSE last_bitpos(r, Len(r) + 1, c, k)
    BY <1>1, <2>3, AppendedScan
  <2> HIDE DEF t, e
  <2>7. ASSUME NEW n \in DOMAIN t PROVE Follows(t, n, lim)
    <3>1. CASE n \in DOMAIN r
      <4>1. n \in 1..Len(r) /\ n \in 1..Len(r) + 1
        BY <1>1, <3>1
      <4>2. t[n] = r[n] /\ \A c, k : last_bitpos(t, n, c, k) = last_bitpos(r, n, c, k)
        BY <2>6, <4>1, Zenon
      <4>3. Follows(r, n, lim)
        BY <1>1, <3>1
      <4>4. ASSUME NEW c \in Range(t[n].comps)
            PROVE  /\ t[n].Ss > 0 => last_bitpos(t, n, c, 0) >= 0
                   /\ \A k \in t[n].Ss..t[n].Se : t[n].Ah = Max({last_bitpos(t, n, c, k), 0})
        <5>1. c \in Range(r[n].comps)
          BY <4>2
        <5>2. /\ r[n].Ss > 0 => last_bitpos(r, n, c, 0) >= 0
              /\ \A k \in r[n].Ss..r[n].Se : r[n].Ah = Max({last_bitpos(r, n, c, k), 0})
          BY <4>3, <5>1, Zenon DEF Follows
        <5> QED
          BY <4>2, <5>2, Zenon
      <4>5. ~BadProgression(t[n], lim) /\ t[n].Ss \in Nat /\ t[n].Se \in 0..lim
        BY <4>2, <4>3, Zenon DEF Follows
      <4> QED
        BY <4>4, <4>5, Zenon DEF Follows
    <3>2. CASE n \notin DOMAIN r
      <4>1. n = Len(r) + 1 /\ n \in 1..Len(r) + 1
        BY <1>1, <2>6, <3>2
      <4>2. t[n] = x
        BY <2>6, <4>1
      <4>3. ASSUME NEW c \in Range(x.comps)
            PROVE  \A k \in 0..lim : last_bitpos(t, n, c, k) = last_bitpos(script, i, c, k)
        <5>1. c \in Int
          <6>1. x.comps \in Seq(Int)
            BY <2>3 DEF ScanType
          <6> QED
            BY <6>1 DEF Range
        <5>2. \A k : last_bitpos(t, n, c, k) = last_bitpos(r, n, c, k)
          BY <2>6, <4>1, Zenon
        <5>3. \A k \in 0..lim : last_bitpos(r, n, c, k) = last_bitpos(script, i, c, k)
          BY <1>1, <4>1, <5>1, Zenon
        <5> QED
          BY <5>2, <5>3, Zenon
      <4>4. 0 \in 0..lim /\ \A k \in x.Ss..x.Se : k \in 0..lim
        BY <2>5
      <4> QED
        BY <2>5, <4>2, <4>3, <4>4, Zenon DEF Follows
    <3> QED
      BY <3>1, <3>2
  <2>8. ASSUME NEW c \in Int, NEW k \in 0..lim
        PROVE  last_bitpos(t, Len(t) + 1, c, k) = last_bitpos(script, i + 1, c, k)
    <3>1. Len(t) + 1 = Len(r) + 2
      BY <1>1, <2>6
    <3>2. last_bitpos(t, Len(r) + 2, c, k) =
              IF Carries(script[i], c, k) THEN script[i].Al ELSE last_bitpos(script, i, c, k)
      <4>1. last_bitpos(t, Len(r) + 2, c, k) =
              IF Carries(x, c, k) THEN x.Al ELSE last_bitpos(r, Len(r) + 1, c, k)
        BY <2>6
      <4>2. Carries(x, c, k) <=> Carries(script[i], c, k)
        BY <2>5, Zenon
      <4>3. last_bitpos(r, Len(r) + 1, c, k) = last_bitpos(script, i, c, k)
        BY <1>1
      <4>4. x.Al = script[i].Al
        BY <2>3
      <4> QED
        BY <4>1, <4>2, <4>3, <4>4, Zenon
    <3> QED
      BY <1>4, <3>1, <3>2, Zenon
  <2>9. Reduced(t, script, i, lim)
    BY <2>6, <2>7, <2>8, Zenon DEF Reduced
  <2> QED
    BY <1>6, <2>4, <2>9, Zenon DEF t
<1> QED
  BY <1>5, <1>6

LEMMA ReducedScript ==
  ASSUME NEW script \in Seq(ScanType), NEW comps, validate_script(script, comps),
         progressive_mode(script), NEW lim \in 0..63
  PROVE  Reduced(reduce_script(script, lim), script, Len(script), lim)
<1> DEFINE N == Len(script)
           B(n, r) == IF script[n].Ss > lim THEN r
                      ELSE Append(r, [script[n] EXCEPT !.Se = Min({@, lim})])
           Eq(f) == f = [n \in 0..N |-> IF n = 0 THEN <<>> ELSE B(n, f[n - 1])]
           out == CHOOSE f : Eq(f)
           T == Seq(ScanType)
<1>1. N \in Nat
  OBVIOUS
<1>2. ASSUME NEW n \in 1..N, NEW r \in T PROVE B(n, r) \in T
  <2>1. n \in DOMAIN script /\ script[n] \in ScanType
    OBVIOUS
  <2>2. script[n].Ss \in Nat /\ script[n].Se \in script[n].Ss..63
    BY <2>1, AcceptedScan
  <2>3. CASE script[n].Ss <= lim
    <3> DEFINE e == Min({script[n].Se, lim})
               x == [script[n] EXCEPT !.Se = e]
    <3>1. e \in Int
      BY <2>2, <2>3, CutEnd
    <3>2. x \in ScanType
      <4> HIDE DEF e
      <4> QED
        BY <2>1, <3>1, CutRecord
    <3>3. x = [script[n] EXCEPT !.Se = Min({@, lim})]
      OBVIOUS
    <3> HIDE DEF x
    <3>4. Append(r, x) \in T
      BY <3>2
    <3>5. ~(script[n].Ss > lim)
      BY <2>2, <2>3, NotMore
    <3>6. B(n, r) = Append(r, x)
      BY <3>3, <3>5, Zenon
    <3> QED
      BY <3>4, <3>6, ZenonT(60)
  <2>4. CASE ~(script[n].Ss <= lim)
    <3>1. script[n].Ss > lim
      BY <2>2, <2>4
    <3>2. B(n, r) = r
      BY <3>1, Zenon
    <3> QED
      BY <3>2, Zenon
  <2> QED
    BY <2>3, <2>4
<1> HIDE DEF B
<1>3. Eq(out)
  <2> DEFINE step == [p \in (1..N) \X T |-> B(p[1], p[2])]
             X == [n \in 0..N |-> T]
  <2> HIDE DEF T
  <2>1. \A n \in 0..N : X[n] = T
    OBVIOUS
  <2>2. \A n \in 1..N : \A r \in T : step[<<n, r>>] = B(n, r) /\ step[<<n, r>>] \in T
    BY <1>2
  <2>3. \A n \in 1..N : n \in 0..N /\ n - 1 \in 0..N
    BY <1>1
  <2>4. <<>> \in T /\ 0 \in 0..N
    BY <1>1 DEF T
  <2> HIDE DEF N, step, X
  <2>5. Makes(<<>>, step, N, X, T)
    BY <2>1, <2>2, <2>3, <2>4, Zenon DEF Makes
  <2>6. PICK f : IsMade(f, <<>>, step, N, X, T)
    BY <1>1, <2>5, Recursion
  <2> USE DEF IsMade
  <2>7. \A n \in 1..N : f[n - 1] \in T
    BY <2>3, <2>6, Zenon
  <2>8. \A n \in 1..N : f[n] = B(n, f[n - 1])
    BY <2>2, <2>6, <2>7, Zenon
  <2>9. Eq(f)
    BY <1>1, <2>6, <2>8
  <2> QED
    BY <2>9
<1>4. reduce_script(script, lim) = out[N]
  BY Zenon DEF reduce_script, B
<1>5. out[0] = <<>> /\ \A n \in 1..N : out[n] = B(n, out[n - 1])
  <2>1. /\ 0 \in 0..N
        /\ \A n \in 1..N : n \in 0..N /\ n # 0
    BY <1>1
  <2> HIDE DEF out, N
  <2>2. out = [n \in 0..N |-> IF n = 0 THEN <<>> ELSE B(n, out[n - 1])]
    BY <1>3
  <2> QED
    BY <2>1, <2>2
<1> DEFINE Y == [n \in 0..N |-> {r \in T : Reduced(r, script, n, lim)}]
<1>6. <<>> \in Y[0]
  <2>1. \A c, k : last_bitpos(<<>>, 1, c, k) = -1 /\ last_bitpos(script, 1, c, k) = -1
    BY NoScanBefore, Zenon
  <2>2. Reduced(<<>>, script, 0, lim)
    BY <2>1 DEF Reduced
  <2> QED
    BY <1>1, <2>2
<1>7. ASSUME NEW n \in 1..N, out[n - 1] \in Y[n - 1] PROVE out[n] \in Y[n]
  <2> DEFINE r == out[n - 1]
  <2>1. Reduced(r, script, n - 1, lim)
    BY <1>1, <1>7
  <2>2. Reduced(B(n, r), script, n, lim)
    BY <2>1, ReduceStep DEF B
  <2>3. out[n] = B(n, r)
    BY <1>5
  <2>4. Reduced(out[n], script, n, lim) /\ out[n] \in T
    BY <2>2, <2>3 DEF Reduced
  <2> QED
    BY <1>1, <2>4
<1>8. out[N] \in Y[N]
  <2> HIDE DEF Y, out, N
  <2>0. \A n \in 1..N : out[n - 1] \in Y[n - 1] => out[n] \in Y[n]
    BY <1>7
  <2>1. \A n \in 0..N : out[n] \in Y[n]
    BY <1>1, <1>5, <1>6, <2>0, Along
  <2> QED
    BY <1>1, <2>1
<1> QED
  BY <1>1, <1>4, <1>8

LEMMA FollowingDecode ==
  ASSUME NEW s \in Seq(ScanType), NEW lim \in 0..63, \A n \in DOMAIN s : Follows(s, n, lim)
  PROVE  Decodable(s, lim)
<1>1. s \in Seq(ScanType) /\ \A n \in DOMAIN s : Follows(s, n, lim)
  OBVIOUS
<1>2. ASSUME NEW n \in DOMAIN s, NEW c \in Range(s[n].comps)
      PROVE  ~BogusProgression(BitsAfter(s, n - 1, c, lim), s[n])
  <2>1. n - 1 \in Nat /\ (n - 1) + 1 = n /\ lim \in Nat
    BY <1>1
  <2> DEFINE bits == [k \in 0..lim |-> last_bitpos(s, n, c, k)]
  <2>2. BitsAfter(s, n - 1, c, lim) = bits
    BY <2>1, BitsAreLast
  <2>3. /\ s[n].Ss \in Nat /\ s[n].Se \in 0..lim
        /\ s[n].Ss > 0 => last_bitpos(s, n, c, 0) >= 0
        /\ \A k \in s[n].Ss..s[n].Se : s[n].Ah = Max({last_bitpos(s, n, c, k), 0})
    BY <1>1 DEF Follows
  <2>4. bits[0] = last_bitpos(s, n, c, 0)
    OBVIOUS
  <2>5. \A k \in s[n].Ss..s[n].Se : bits[k] = last_bitpos(s, n, c, k)
    <3>1. \A k \in s[n].Ss..s[n].Se : k \in 0..lim
      <4>1. lim \in Int
        OBVIOUS
      <4> QED
        BY <2>3, <4>1, InBlock, Zenon
    <3> QED
      BY <3>1
  <2> HIDE DEF bits
  <2>6. ~(s[n].Ss > 0 /\ bits[0] < 0)
    <3>1. last_bitpos(s, n, c, 0) \in Int
      <4>0. \A i \in DOMAIN s : s[i] \in ScanType
        BY <1>1
      <4>1. \A i \in DOMAIN s : s[i].Al \in Int
        BY <4>0 DEF ScanType
      <4>2. n \in Nat \ {0} /\ \A j \in 1..n - 1 : j \in DOMAIN s
        BY <1>1
      <4>3. last_bitpos(s, n, c, 0) \in Int \union {-1}
        BY <4>1, <4>2, LastIsOneOf
      <4> QED
        BY <4>3
    <3> QED
      BY <2>3, <2>4, <3>1
  <2>7. \A k \in s[n].Ss..s[n].Se : s[n].Ah = Max({bits[k], 0})
    BY <2>3, <2>5, Zenon
  <2> QED
    BY <2>2, <2>6, <2>7, Zenon DEF BogusProgression
<1> QED
  BY <1>1, <1>2, Zenon DEF Decodable, Follows

(* Blocks of 8 x 8 take the script as it is.                                *)
LEMMA WholeScript ==
  ASSUME NEW script \in Seq(ScanType), NEW comps, validate_script(script, comps),
         progressive_mode(script)
  PROVE  Reduced(script, script, Len(script), 63)
<1>1. 63 \in 0..63
  OBVIOUS
<1> DEFINE lim == 63
<1>2. lim \in 0..63 /\ lim = 63
  OBVIOUS
<1> HIDE DEF lim
<1>3. ASSUME NEW n \in DOMAIN script PROVE Follows(script, n, lim)
  <2>1. n \in 1..Len(script) /\ script[n] \in ScanType
    OBVIOUS
  <2>2. script[n].Ss \in Nat /\ script[n].Se \in script[n].Ss..63
    BY AcceptedScan
  <2>3. script[n].Ss <= lim /\ script[n].Se \in Int /\ lim \in Int /\ script[n].Se <= lim
    BY <1>2, <2>2
  <2>4. script[n].Se = Min({script[n].Se, lim})
    BY <2>3, MinOfTwo
  <2> DEFINE x == script[n]
  <2>5. /\ x \in ScanType /\ script[n].Ss <= lim /\ x.Se = Min({script[n].Se, lim})
        /\ x.Ss = script[n].Ss /\ x.Ah = script[n].Ah /\ x.Al = script[n].Al
        /\ x.comps = script[n].comps
    BY <2>1, <2>3, <2>4, Zenon
  <2> HIDE DEF x
  <2>6. /\ ~BadProgression(x, lim)
        /\ x.Ss \in Nat /\ x.Se \in 0..lim
        /\ \A c \in Range(x.comps) :
             /\ x.Ss > 0 => last_bitpos(script, n, c, 0) >= 0
             /\ \A k \in x.Ss..x.Se : x.Ah = Max({last_bitpos(script, n, c, k), 0})
    <3>1. n \in 1..Len(script)
      BY <2>1
    <3> QED
      BY <1>2, <3>1, <2>5, CutScan, ZenonT(60)
  <2> QED
    BY <2>6, Zenon DEF Follows, x
<1> QED
  BY <1>2, <1>3, Zenon DEF Reduced

(* What ScriptsDecode says of a script for blocks up to lim, made from      *)
(* asked.                                                                   *)
Sends(asked, comps, scans, lim) ==
  /\ Decodable(scans, lim)
  /\ \A c \in 1..comps :
       BitsAfter(scans, Len(scans), c, lim)
         = [k \in 0..lim |-> last_bitpos(asked, Len(asked) + 1, c, k)]
LEMMA ReducedSends ==
  ASSUME NEW asked, NEW comps \in Nat, NEW scans, NEW lim \in 0..63,
         Reduced(scans, asked, Len(asked), lim)
  PROVE  Sends(asked, comps, scans, lim)
<1>1. Decodable(scans, lim)
  BY FollowingDecode DEF Reduced
<1>2. ASSUME NEW c \in 1..comps
      PROVE  BitsAfter(scans, Len(scans), c, lim)
               = [k \in 0..lim |-> last_bitpos(asked, Len(asked) + 1, c, k)]
  <2>1. Len(scans) \in Nat /\ lim \in Nat
    BY DEF Reduced
  <2>2. BitsAfter(scans, Len(scans), c, lim)
          = [k \in 0..lim |-> last_bitpos(scans, Len(scans) + 1, c, k)]
    BY <2>1, BitsAreLast
  <2>3. c \in Int
    OBVIOUS
  <2>4. \A k \in 0..lim : last_bitpos(scans, Len(scans) + 1, c, k)
                             = last_bitpos(asked, Len(asked) + 1, c, k)
    BY <2>3, Zenon DEF Reduced
  <2> QED
    BY <2>2, <2>4
<1> QED
  BY <1>1, <1>2, Zenon DEF Sends

-----------------------------------------------------------------------------
(* The scripts the compressor makes.  They come in segments, in each of     *)
(* which the scans carry the same coefficients of different components.     *)
OneOf(scan, C, Ss, Se, Ah, Al) ==
  /\ scan \in ScanType
  /\ scan.Ss = Ss /\ scan.Se = Se /\ scan.Ah = Ah /\ scan.Al = Al
  /\ Len(scan.comps) \in 1..4 /\ (Ss # 0 => Len(scan.comps) = 1)
  /\ Range(scan.comps) \subseteq C
  /\ \A i \in 1..Len(scan.comps) - 1 : scan.comps[i] < scan.comps[i + 1]
Segment(q, C, Ss, Se, Ah, Al) ==
  /\ q \in Seq(ScanType) /\ q # <<>>
  /\ \A j \in DOMAIN q : OneOf(q[j], C, Ss, Se, Ah, Al)
  /\ \A c \in C : \E j \in DOMAIN q : c \in Range(q[j].comps)
  /\ \A i, j \in DOMAIN q : i # j => Range(q[i].comps) \intersect Range(q[j].comps) = {}

(* A script that has brought each coefficient so far as b tells.            *)
SoundScan(p, m, n) ==
  /\ Len(p[m].comps) \in 1..4
  /\ Range(p[m].comps) \subseteq 1..n
  /\ \A i \in 1..Len(p[m].comps) - 1 : p[m].comps[i] < p[m].comps[i + 1]
  /\ p[m].Ss \in 0..63 /\ p[m].Se \in p[m].Ss..63
  /\ p[m].Ah \in 0..10 /\ p[m].Al \in 0..10
  /\ IF p[m].Ss = 0 THEN p[m].Se = 0 ELSE Len(p[m].comps) = 1
  /\ \A c \in Range(p[m].comps) :
       /\ p[m].Ss # 0 => last_bitpos(p, m, c, 0) >= 0
       /\ \A k \in p[m].Ss..p[m].Se : ContinuesProgression(p, m, c, k)
Brings(p, n, b) ==
  /\ p \in Seq(ScanType)
  /\ \A m \in DOMAIN p : SoundScan(p, m, n)
  /\ \A c \in 1..n, k \in 0..63 : last_bitpos(p, Len(p) + 1, c, k) = b[c][k]

NoneCarries(t, m1, m2, c, k) == \A i \in m1..m2 - 1 : ~Carries(t[i], c, k)
LEMMA LastUnchanged ==
  ASSUME NEW t, NEW m1 \in Nat \ {0}, NEW m2 \in Nat, m1 <= m2, NEW c, NEW k,
         NoneCarries(t, m1, m2, c, k)
  PROVE  last_bitpos(t, m2, c, k) = last_bitpos(t, m1, c, k)
<1>1. {i \in 1..m2 - 1 : Carries(t[i], c, k)} = {i \in 1..m1 - 1 : Carries(t[i], c, k)}
  BY DEF NoneCarries
<1> QED
  BY <1>1, Zenon DEF last_bitpos

(* The coefficients a scan carries first, or once more.                     *)
Continues(b, C, Ss, Se, Ah, Al) ==
  \A c \in C :
    /\ Ss # 0 => b[c][0] >= 0
    /\ \A k \in Ss..Se : \/ b[c][k] = -1 /\ Ah = 0
                         \/ b[c][k] = Ah /\ Ah > 0 /\ Al = Ah - 1

Joined(t, p, q, b, n, C, Ss, Se, Al) ==
  /\ t \in Seq(ScanType) /\ Len(t) = Len(p) + Len(q)
  /\ \A m \in 1..Len(p) : t[m] = p[m]
  /\ \A j \in 1..Len(q) : t[Len(p) + j] = q[j]
  /\ \A m \in 1..Len(p) + 1 : \A c, k : last_bitpos(t, m, c, k) = last_bitpos(p, m, c, k)
  /\ \A j \in 1..Len(q), c \in 1..n, k \in 0..63 :
       (\A i \in 1..j - 1 : ~Carries(q[i], c, k)) => last_bitpos(t, Len(p) + j, c, k) = b[c][k]
  /\ \A c \in 1..n, k \in 0..63 :
       last_bitpos(t, Len(p) + Len(q) + 1, c, k) =
         IF c \in C /\ k \in Ss..Se THEN Al ELSE b[c][k]
LEMMA SegmentBefore ==
  ASSUME NEW n \in Nat, NEW b, NEW p, Brings(p, n, b), NEW C, C \subseteq 1..n,
         NEW Ss \in 0..63, NEW Se \in Ss..63, NEW Ah, NEW Al, Ss = 0 => Se = 0,
         NEW q, Segment(q, C, Ss, Se, Ah, Al)
  PROVE  Joined(p \o q, p, q, b, n, C, Ss, Se, Al)
<1> DEFINE t == p \o q
<1>1. p \in Seq(ScanType) /\ q \in Seq(ScanType) /\ Len(p) \in Nat /\ Len(q) \in Nat
  <2>1. p \in Seq(ScanType) /\ q \in Seq(ScanType)
    BY Zenon DEF Brings, Segment
  <2> QED
    BY <2>1
<1>2. t \in Seq(ScanType) /\ Len(t) = Len(p) + Len(q)
  BY <1>1
<1>3. \A m \in 1..Len(p) : t[m] = p[m]
  BY <1>1
<1>4. \A j \in 1..Len(q) : t[Len(p) + j] = q[j]
  BY <1>1
<1> HIDE DEF t
<1>5. ASSUME NEW m \in 1..Len(p) + 1, NEW c, NEW k
      PROVE  last_bitpos(t, m, c, k) = last_bitpos(p, m, c, k)
  <2>1. m \in Nat \ {0} /\ \A i \in 1..m - 1 : t[i] = p[i]
    BY <1>1, <1>3
  <2> QED
    BY <2>1, LastOfPrefix
<1>6. ASSUME NEW j \in 1..Len(q) + 1, NEW c \in 1..n, NEW k \in 0..63,
             \A i \in 1..j - 1 : ~Carries(q[i], c, k)
      PROVE  last_bitpos(t, Len(p) + j, c, k) = b[c][k]
  <2>1. last_bitpos(t, Len(p) + 1, c, k) = b[c][k]
    <3>1. Len(p) + 1 \in 1..Len(p) + 1
      BY <1>1
    <3>2. last_bitpos(p, Len(p) + 1, c, k) = b[c][k]
      BY Zenon DEF Brings
    <3> QED
      BY <1>5, <3>1, <3>2, Zenon
  <2>2. Len(p) + 1 \in Nat \ {0} /\ Len(p) + j \in Nat /\ Len(p) + 1 <= Len(p) + j
    BY <1>1
  <2>3. ASSUME NEW i \in Len(p) + 1..(Len(p) + j) - 1 PROVE ~Carries(t[i], c, k)
    <3>1. i - Len(p) \in 1..j - 1 /\ i - Len(p) \in 1..Len(q) /\ Len(p) + (i - Len(p)) = i
      BY <1>1
    <3>2. t[i] = q[i - Len(p)]
      BY <1>4, <3>1
    <3> QED
      BY <1>6, <3>1, <3>2
  <2>4. NoneCarries(t, Len(p) + 1, Len(p) + j, c, k)
    BY <2>3, Zenon DEF NoneCarries
  <2>5. last_bitpos(t, Len(p) + j, c, k) = last_bitpos(t, Len(p) + 1, c, k)
    BY <2>2, <2>4, LastUnchanged
  <2> QED
    BY <2>1, <2>5, Zenon
<1>7. ASSUME NEW c \in 1..n, NEW k \in 0..63
      PROVE  last_bitpos(t, Len(p) + Len(q) + 1, c, k) =
                 IF c \in C /\ k \in Ss..Se THEN Al ELSE b[c][k]
  <2>0. Len(q) + 1 \in 1..Len(q) + 1 /\ Len(p) + (Len(q) + 1) = Len(p) + Len(q) + 1
        /\ (Len(q) + 1) - 1 = Len(q)
    BY <1>1
  <2>1. CASE c \in C /\ k \in Ss..Se
    <3>1. PICK j \in DOMAIN q : c \in Range(q[j].comps)
      BY <2>1 DEF Segment
    <3>2. j \in 1..Len(q)
      BY <1>1
    <3>3. Carries(q[j], c, k) /\ q[j].Al = Al
      <4>1. q[j].Ss = Ss /\ q[j].Se = Se /\ q[j].Al = Al
        BY DEF Segment, OneOf
      <4> QED
        BY <2>1, <3>1, <4>1 DEF Carries
    <3>4. Len(p) + j \in Nat \ {0} /\ t[Len(p) + j] = q[j]
      BY <1>1, <1>4, <3>2
    <3>5. last_bitpos(t, (Len(p) + j) + 1, c, k) = Al
      BY <3>3, <3>4, LastBitpos
    <3>6. ASSUME NEW i \in (Len(p) + j) + 1..(Len(p) + Len(q) + 1) - 1 PROVE ~Carries(t[i], c, k)
      <4>1. i - Len(p) \in 1..Len(q) /\ Len(p) + (i - Len(p)) = i /\ i - Len(p) # j
        BY <1>1, <3>2
      <4>0. DOMAIN q = 1..Len(q)
        BY <1>1
      <4>2. t[i] = q[i - Len(p)] /\ i - Len(p) \in DOMAIN q
        BY <1>4, <4>0, <4>1, Zenon
      <4>3. Range(q[i - Len(p)].comps) \intersect Range(q[j].comps) = {}
        BY <4>1, <4>2 DEF Segment
      <4> QED
        BY <3>1, <4>2, <4>3 DEF Carries
    <3>7. (Len(p) + j) + 1 \in Nat \ {0} /\ Len(p) + Len(q) + 1 \in Nat
          /\ (Len(p) + j) + 1 <= Len(p) + Len(q) + 1
      BY <1>1, <3>2
    <3>8. NoneCarries(t, (Len(p) + j) + 1, Len(p) + Len(q) + 1, c, k)
      BY <3>6, Zenon DEF NoneCarries
    <3>9. last_bitpos(t, Len(p) + Len(q) + 1, c, k) = last_bitpos(t, (Len(p) + j) + 1, c, k)
      BY <3>7, <3>8, LastUnchanged
    <3> QED
      BY <2>1, <3>5, <3>9
  <2>2. CASE ~(c \in C /\ k \in Ss..Se)
    <3>1. ASSUME NEW i \in 1..Len(q) PROVE ~Carries(q[i], c, k)
      <4>1. q[i].Ss = Ss /\ q[i].Se = Se /\ Range(q[i].comps) \subseteq C
        BY <1>1 DEF Segment, OneOf
      <4> QED
        BY <2>2, <4>1 DEF Carries
    <3>2. last_bitpos(t, Len(p) + (Len(q) + 1), c, k) = b[c][k]
      BY <1>6, <2>0, <3>1
    <3> QED
      BY <2>0, <2>2, <3>2
  <2> QED
    BY <2>1, <2>2
<1>8. ASSUME NEW j \in 1..Len(q), NEW c \in 1..n, NEW k \in 0..63,
             \A i \in 1..j - 1 : ~Carries(q[i], c, k)
      PROVE  last_bitpos(t, Len(p) + j, c, k) = b[c][k]
  <2>1. j \in 1..Len(q) + 1
    BY <1>1
  <2> QED
    BY <1>6, <1>8, <2>1, Zenon
<1> QED
  BY <1>2, <1>3, <1>4, <1>5, <1>7, <1>8, Zenon DEF Joined, t

LEMMA Continuing ==
  ASSUME NEW script, NEW m, NEW c, NEW k, NEW Ah \in 0..10, NEW Al \in 0..10, NEW l,
         last_bitpos(script, m, c, k) = l, (l = -1 /\ Ah = 0) \/ (l = Ah /\ Ah > 0 /\ Al = Ah - 1),
         script[m].Ah = Ah, script[m].Al = Al
  PROVE  ContinuesProgression(script, m, c, k)
<1>1. CASE l = -1 /\ Ah = 0
  BY <1>1 DEF ContinuesProgression
<1>2. CASE l = Ah /\ Ah > 0 /\ Al = Ah - 1
  BY <1>2 DEF ContinuesProgression
<1> QED
  BY <1>1, <1>2

Brought(b2, b, n, C, Ss, Se, Al) ==
  \A c \in 1..n, k \in 0..63 :
    b2[c][k] = IF c \in C /\ k \in Ss..Se THEN Al ELSE b[c][k]
LEMMA AddSegment ==
  ASSUME NEW n \in Nat, NEW b, NEW p, Brings(p, n, b), NEW C, C \subseteq 1..n,
         NEW Ss \in 0..63, NEW Se \in Ss..63, NEW Ah \in 0..10, NEW Al \in 0..10, Ss = 0 => Se = 0,
         NEW q, Segment(q, C, Ss, Se, Ah, Al), Continues(b, C, Ss, Se, Ah, Al), NEW b2,
         Brought(b2, b, n, C, Ss, Se, Al)
  PROVE  Brings(p \o q, n, b2)
<1> DEFINE t == p \o q
<1>1. /\ t \in Seq(ScanType) /\ Len(t) = Len(p) + Len(q)
      /\ \A m \in 1..Len(p) : t[m] = p[m]
      /\ \A j \in 1..Len(q) : t[Len(p) + j] = q[j]
      /\ \A m \in 1..Len(p) + 1 : \A c, k : last_bitpos(t, m, c, k) = last_bitpos(p, m, c, k)
      /\ \A j \in 1..Len(q), c \in 1..n, k \in 0..63 :
              (\A i \in 1..j - 1 : ~Carries(q[i], c, k)) =>
                 last_bitpos(t, Len(p) + j, c, k) = b[c][k]
      /\ \A c \in 1..n, k \in 0..63 :
              last_bitpos(t, Len(p) + Len(q) + 1, c, k) =
                 IF c \in C /\ k \in Ss..Se THEN Al ELSE b[c][k]
  <2>1. Joined(t, p, q, b, n, C, Ss, Se, Al)
    BY SegmentBefore
  <2> HIDE DEF t
  <2> QED
    BY <2>1, Zenon DEF Joined
<1> HIDE DEF t
<1>1a. t \in Seq(ScanType) /\ Len(t) = Len(p) + Len(q)
  BY <1>1
<1>1c. \A j \in 1..Len(q), c \in 1..n, k \in 0..63 :
              (\A i \in 1..j - 1 : ~Carries(q[i], c, k)) =>
                 last_bitpos(t, Len(p) + j, c, k) = b[c][k]
  BY <1>1, Zenon
<1>1b. /\ \A m \in 1..Len(p) : t[m] = p[m]
       /\ \A j \in 1..Len(q) : t[Len(p) + j] = q[j]
  BY <1>1, Zenon
<1>2. p \in Seq(ScanType) /\ q \in Seq(ScanType)
  BY Zenon DEF Brings, Segment
<1>3. Len(p) \in Nat /\ Len(q) \in Nat /\ DOMAIN p = 1..Len(p) /\ DOMAIN q = 1..Len(q)
      /\ DOMAIN t = 1..Len(t)
  BY <1>1a, <1>2
<1>4. ASSUME NEW m \in 1..Len(p) PROVE SoundScan(t, m, n)
  <2>1. t[m] = p[m] /\ m \in 1..Len(p) + 1
    BY <1>1b, <1>3
  <2>2. \A c, k : last_bitpos(t, m, c, k) = last_bitpos(p, m, c, k)
    BY <1>1, <2>1, Zenon
  <2>3. SoundScan(p, m, n)
    BY <1>3, Zenon DEF Brings
  <2>4. \A c, k : ContinuesProgression(p, m, c, k) => ContinuesProgression(t, m, c, k)
    BY <2>1, <2>2, Zenon DEF ContinuesProgression
  <2>5. ASSUME NEW c \in Range(t[m].comps)
        PROVE  /\ t[m].Ss # 0 => last_bitpos(t, m, c, 0) >= 0
               /\ \A k \in t[m].Ss..t[m].Se : ContinuesProgression(t, m, c, k)
    BY <2>1, <2>2, <2>3, <2>4, <2>5, Zenon DEF SoundScan
  <2> QED
    BY <2>1, <2>3, <2>5, Zenon DEF SoundScan
<1>5. ASSUME NEW j \in 1..Len(q) PROVE SoundScan(t, Len(p) + j, n)
  <2> DEFINE m == Len(p) + j
  <2>1. t[m] = q[j] /\ j \in DOMAIN q
    BY <1>1b, <1>3, Zenon
  <2>2. /\ q[j].Ss = Ss /\ q[j].Se = Se /\ q[j].Ah = Ah /\ q[j].Al = Al
        /\ Len(q[j].comps) \in 1..4 /\ (Ss # 0 => Len(q[j].comps) = 1)
        /\ Range(q[j].comps) \subseteq C
        /\ \A i \in 1..Len(q[j].comps) - 1 : q[j].comps[i] < q[j].comps[i + 1]
    BY <2>1, Zenon DEF Segment, OneOf
  <2> HIDE DEF m
  <2>3. ASSUME NEW c \in Range(q[j].comps), NEW k \in 0..63
        PROVE  last_bitpos(t, m, c, k) = b[c][k]
    <3>1. ASSUME NEW i \in 1..j - 1 PROVE ~Carries(q[i], c, k)
      <4>0. i \in 1..Len(q) /\ i # j
        BY <1>3
      <4>1. i \in DOMAIN q /\ i # j
        BY <1>3, <4>0, Zenon
      <4>2. Range(q[i].comps) \intersect Range(q[j].comps) = {}
        BY <2>1, <4>1, Zenon DEF Segment
      <4> QED
        BY <2>3, <4>2, Zenon DEF Carries
    <3>2. c \in 1..n
      BY <2>2
    <3> QED
      BY <1>1c, <3>1, <3>2, Zenon DEF m
  <2>4. ASSUME NEW c \in Range(q[j].comps)
        PROVE  /\ Ss # 0 => last_bitpos(t, m, c, 0) >= 0
               /\ \A k \in Ss..Se : ContinuesProgression(t, m, c, k)
    <3>1. c \in C
      BY <2>2
    <3>2. 0 \in 0..63 /\ \A k \in Ss..Se : k \in 0..63
      OBVIOUS
    <3>3. Ss # 0 => last_bitpos(t, m, c, 0) >= 0
      BY <2>3, <3>1, <3>2, Zenon DEF Continues
    <3>4. ASSUME NEW k \in Ss..Se PROVE ContinuesProgression(t, m, c, k)
      <4>1. last_bitpos(t, m, c, k) = b[c][k]
        BY <2>3, <3>2, Zenon
      <4>2. \/ b[c][k] = -1 /\ Ah = 0
            \/ b[c][k] = Ah /\ Ah > 0 /\ Al = Ah - 1
        BY <3>1, Zenon DEF Continues
      <4>3. t[m].Ah = Ah /\ t[m].Al = Al
        BY <2>1, <2>2, Zenon DEF m
      <4> QED
        <5> DEFINE l == b[c][k]
        <5>1. last_bitpos(t, m, c, k) = l /\ ((l = -1 /\ Ah = 0) \/ (l = Ah /\ Ah > 0 /\ Al = Ah - 1))
          BY <4>1, <4>2
        <5> HIDE DEF l
        <5> QED
          BY <4>3, <5>1, Continuing
    <3> QED
      BY <3>3, <3>4
  <2>5. Range(q[j].comps) \subseteq 1..n
    BY <2>2
  <2>6. t[m] = q[j]
    BY <2>1 DEF m
  <2>7. SoundScan(t, m, n)
    BY <2>2, <2>4, <2>5, <2>6, Zenon DEF SoundScan
  <2> QED
    BY <2>7 DEF m
<1>6. ASSUME NEW m \in DOMAIN t PROVE SoundScan(t, m, n)
  <2>1. CASE m \in 1..Len(p)
    BY <1>4, <2>1
  <2>2. CASE m \notin 1..Len(p)
    <3>0. m \in 1..Len(p) + Len(q)
      BY <1>1a, <1>3, Zenon
    <3>1. m - Len(p) \in 1..Len(q) /\ Len(p) + (m - Len(p)) = m
      BY <1>3, <2>2, <3>0
    <3>2. SoundScan(t, Len(p) + (m - Len(p)), n)
      BY <1>5, <3>1, Zenon
    <3> QED
      BY <3>1, <3>2
  <2> QED
    BY <2>1, <2>2
<1>7. \A c \in 1..n, k \in 0..63 : last_bitpos(t, Len(t) + 1, c, k) = b2[c][k]
  <2>1. Len(t) + 1 = Len(p) + Len(q) + 1
    BY <1>1a
  <2> TAKE c \in 1..n, k \in 0..63
  <2>2. last_bitpos(t, Len(p) + Len(q) + 1, c, k) =
           IF c \in C /\ k \in Ss..Se THEN Al ELSE b[c][k]
    BY <1>1, Zenon
  <2>3. b2[c][k] = IF c \in C /\ k \in Ss..Se THEN Al ELSE b[c][k]
    BY Zenon DEF Brought
  <2> HIDE DEF t
  <2> QED
    BY <2>1, <2>2, <2>3, Zenon
<1> QED
  BY <1>1a, <1>6, <1>7, Zenon DEF Brings, t

(* The three kinds of segment.                                              *)
Single(cs, ci) == cs \in Seq(Int) /\ Len(cs) = 1 /\ \A c : c \in Range(cs) <=> c = ci
LEMMA SingleTuple ==
  ASSUME NEW ci \in Int
  PROVE  Single(<<ci>>, ci)
<1>1. <<ci>> \in Seq(Int) /\ Len(<<ci>>) = 1 /\ DOMAIN <<ci>> = 1..1 /\ <<ci>>[1] = ci
  OBVIOUS
<1>2. \A c : c \in Range(<<ci>>) <=> c = ci
  BY <1>1 DEF Range
<1> QED
  BY <1>1, <1>2 DEF Single

LEMMA RecordOf ==
  ASSUME NEW S, NEW cs \in S, NEW Ss \in Int, NEW Se \in Int, NEW Ah \in Int, NEW Al \in Int
  PROVE  [comps |-> cs, Ss |-> Ss, Se |-> Se, Ah |-> Ah, Al |-> Al] \in
            [comps : S, Ss : Int, Se : Int, Ah : Int, Al : Int]
OBVIOUS

LEMMA OneComponentScan ==
  ASSUME NEW ci, NEW cs, Single(cs, ci), NEW C, ci \in C,
         NEW Ss \in 0..63, NEW Se \in Ss..63, NEW Ah \in 0..10, NEW Al \in 0..10
  PROVE  OneOf(Scan(cs, Ss, Se, Ah, Al), C, Ss, Se, Ah, Al)
<1> DEFINE x == Scan(cs, Ss, Se, Ah, Al)
<1>1. cs \in Seq(Int) /\ Len(cs) = 1 /\ \A c : c \in Range(cs) <=> c = ci
  BY DEF Single
<1>2. x.comps = cs /\ x.Ss = Ss /\ x.Se = Se /\ x.Ah = Ah /\ x.Al = Al
  BY DEF Scan
<1>3. x \in ScanType
  <2>1. cs \in Seq(Int) /\ Ss \in Int /\ Se \in Int /\ Ah \in Int /\ Al \in Int
    BY <1>1
  <2> QED
    BY <2>1, RecordOf DEF Scan, ScanType
<1> HIDE DEF x
<1>4. \A i \in 1..Len(cs) - 1 : FALSE
  BY <1>1
<1>5. Range(cs) \subseteq C /\ 1 \in 1..4
  BY <1>1
<1> QED
  BY <1>1, <1>2, <1>3, <1>4, <1>5, Zenon DEF OneOf, x

LEMMA FillScans ==
  ASSUME NEW n \in Nat \ {0}, NEW Ss \in 0..63, NEW Se \in Ss..63, NEW Ah \in 0..10, NEW Al \in 0..10
  PROVE  Segment(fill_scans(n, Ss, Se, Ah, Al), 1..n, Ss, Se, Ah, Al)
<1> DEFINE q == fill_scans(n, Ss, Se, Ah, Al)
<1>1. DOMAIN q = 1..n /\ \A j \in 1..n : q[j] = Scan(<<j>>, Ss, Se, Ah, Al)
  BY DEF fill_scans
<1>2. \A j \in 1..n : OneOf(q[j], 1..n, Ss, Se, Ah, Al) /\ \A c : c \in Range(q[j].comps) <=> c = j
  <2> HIDE DEF q
  <2> TAKE j \in 1..n
  <2>1. j \in Int /\ q[j] = Scan(<<j>>, Ss, Se, Ah, Al)
    BY <1>1
  <2>2. Single(<<j>>, j)
    BY <2>1, SingleTuple
  <2> DEFINE cs == <<j>>
  <2>3. Single(cs, j) /\ q[j] = Scan(cs, Ss, Se, Ah, Al)
    BY <2>1, <2>2
  <2> HIDE DEF cs
  <2>4. OneOf(Scan(cs, Ss, Se, Ah, Al), 1..n, Ss, Se, Ah, Al)
    BY <2>3, OneComponentScan, Zenon
  <2>5. q[j].comps = cs
    BY <2>3 DEF Scan
  <2> QED
    BY <2>3, <2>4, <2>5, Zenon DEF Single
<1>3. q \in Seq(ScanType) /\ q # <<>>
  <2>0. \A j \in 1..n : q[j] \in ScanType
    BY <1>2 DEF OneOf
  <2>1. q = [ci \in 1..n |-> Scan(<<ci>>, Ss, Se, Ah, Al)]
    BY DEF fill_scans
  <2>2. \A j \in 1..n : Scan(<<j>>, Ss, Se, Ah, Al) \in ScanType
    BY <1>1, <2>0, Zenon
  <2> HIDE DEF q
  <2>3. q \in [1..n -> ScanType]
    BY <2>1, <2>2
  <2>4. q \in Seq(ScanType) /\ Len(q) = n
    BY <2>3
  <2> QED
    BY <2>4
<1> HIDE DEF q
<1>4. \A c \in 1..n : \E j \in DOMAIN q : c \in Range(q[j].comps)
  BY <1>1, <1>2
<1>5. ASSUME NEW i \in DOMAIN q, NEW j \in DOMAIN q, i # j
      PROVE  Range(q[i].comps) \intersect Range(q[j].comps) = {}
  <2>1. i \in 1..n /\ j \in 1..n
    BY <1>1
  <2>2. /\ \A c : c \in Range(q[i].comps) <=> c = i
        /\ \A c : c \in Range(q[j].comps) <=> c = j
    BY <1>2, <2>1, Zenon
  <2> QED
    BY <1>5, <2>2, Zenon
<1> QED
  BY <1>1, <1>2, <1>3, <1>4, <1>5, Zenon DEF Segment, q

LEMMA OneScan ==
  ASSUME NEW x, NEW C, NEW Ss, NEW Se, NEW Ah, NEW Al, OneOf(x, C, Ss, Se, Ah, Al),
         Range(x.comps) = C
  PROVE  Segment(<<x>>, C, Ss, Se, Ah, Al)
<1>1. x \in ScanType
  BY DEF OneOf
<1>2. <<x>> \in Seq(ScanType) /\ <<x>> # <<>> /\ DOMAIN <<x>> = {1} /\ <<x>>[1] = x
  BY <1>1
<1> QED
  BY <1>2, Zenon DEF Segment

LEMMA FillAScan ==
  ASSUME NEW ci \in Int, NEW Ss \in 0..63, NEW Se \in Ss..63, NEW Ah \in 0..10, NEW Al \in 0..10
  PROVE  Segment(fill_a_scan(ci, Ss, Se, Ah, Al), {ci}, Ss, Se, Ah, Al)
<1> DEFINE cs == <<ci>>
           x == Scan(cs, Ss, Se, Ah, Al)
           C == {ci}
<1>0. Single(cs, ci) /\ ci \in C
  BY SingleTuple
<1> HIDE DEF cs, C
<1>1. OneOf(x, C, Ss, Se, Ah, Al) /\ x.comps = cs
  <2>1. OneOf(x, C, Ss, Se, Ah, Al)
    BY <1>0, OneComponentScan, Zenon
  <2>2. x.comps = cs
    BY DEF Scan
  <2> QED
    BY <2>1, <2>2, Zenon
<1>2. Range(x.comps) = C
  BY <1>0, <1>1 DEF Single, C
<1> HIDE DEF x
<1>3. Segment(<<x>>, C, Ss, Se, Ah, Al)
  BY <1>1, <1>2, OneScan, Zenon
<1> QED
  BY <1>3 DEF fill_a_scan, x, cs, C

LEMMA FillDcScans ==
  ASSUME NEW n \in Nat \ {0}, NEW Ah \in 0..10, NEW Al \in 0..10
  PROVE  Segment(fill_dc_scans(n, Ah, Al), 1..n, 0, 0, Ah, Al)
<1>1. CASE n <= 4
  <2> DEFINE cs == [ci \in 1..n |-> ci]
             x == Scan(cs, 0, 0, Ah, Al)
  <2>1. cs \in Seq(Int) /\ Len(cs) = n /\ Range(cs) = 1..n /\ \A i \in 1..n : cs[i] = i
    <3>1. cs \in [1..n -> Int] /\ \A i \in 1..n : cs[i] = i
      OBVIOUS
    <3>2. cs \in Seq(Int) /\ Len(cs) = n /\ DOMAIN cs = 1..n
      BY <3>1
    <3> HIDE DEF cs
    <3>3. Range(cs) = 1..n
      BY <3>1, <3>2 DEF Range
    <3> QED
      BY <3>1, <3>2, <3>3
  <2> HIDE DEF cs
  <2>2. x \in ScanType
    BY <2>1 DEF Scan, ScanType
  <2>3. x.Ss = 0 /\ x.Se = 0 /\ x.Ah = Ah /\ x.Al = Al /\ x.comps = cs
    BY DEF Scan
  <2> HIDE DEF x
  <2>4. \A i \in 1..n - 1 : cs[i] < cs[i + 1]
    BY <2>1
  <2>5. n \in 1..4 /\ ~(0 # 0)
    BY <1>1
  <2>6. OneOf(x, 1..n, 0, 0, Ah, Al) /\ Range(x.comps) = 1..n
    <3>1. Range(x.comps) = 1..n /\ Len(x.comps) = n
      BY <2>1, <2>3
    <3> QED
      BY <2>2, <2>3, <2>4, <2>5, <3>1, Zenon DEF OneOf
  <2>7. fill_dc_scans(n, Ah, Al) = <<x>>
    BY <1>1, ZenonT(60) DEF fill_dc_scans, MAX_COMPS_IN_SCAN, x, cs
  <2> QED
    BY <2>6, <2>7, OneScan, Zenon
<1>2. CASE ~(n <= 4)
  <2>1. fill_dc_scans(n, Ah, Al) = fill_scans(n, 0, 0, Ah, Al)
    BY <1>2 DEF fill_dc_scans, MAX_COMPS_IN_SCAN
  <2>2. 0 \in 0..63 /\ 0 \in 0..63
    OBVIOUS
  <2> QED
    BY <2>1, <2>2, FillScans, ZenonT(60)
<1> QED
  BY <1>1, <1>2

LEMMA NoScans ==
  ASSUME NEW n \in Nat, NEW b, \A c \in 1..n, k \in 0..63 : b[c][k] = -1
  PROVE  Brings(<<>>, n, b)
<1>1. <<>> \in Seq(ScanType) /\ Len(<<>>) + 1 = 1 /\ DOMAIN <<>> = {}
  OBVIOUS
<1>2. \A c, k : last_bitpos(<<>>, 1, c, k) = -1
  <2>1. 1 \in Nat \ {0}
    BY SMTT(40)
  <2> QED
    BY <2>1, LastBitpos
<1> QED
  BY <1>1, <1>2, Zenon DEF Brings

(* One more piece of a script, from the levels b to the levels b2.          *)
Piece(q, n, b, b2, C, Ss, Se, Ah, Al) ==
  /\ Segment(q, C, Ss, Se, Ah, Al)
  /\ C \subseteq 1..n
  /\ Ss \in 0..63 /\ Se \in Ss..63 /\ Ah \in 0..10 /\ Al \in 0..10 /\ (Ss = 0 => Se = 0)
  /\ Continues(b, C, Ss, Se, Ah, Al)
  /\ Brought(b2, b, n, C, Ss, Se, Al)
LEMMA AddPiece ==
  ASSUME NEW n \in Nat, NEW p, NEW q, NEW b, NEW b2, NEW C, NEW Ss, NEW Se, NEW Ah, NEW Al,
         Brings(p, n, b), Piece(q, n, b, b2, C, Ss, Se, Ah, Al)
  PROVE  Brings(p \o q, n, b2)
BY AddSegment, ZenonT(60) DEF Piece

Level(v, v2, in, Ah, Al) ==
  IF in THEN v2 = Al /\ \/ v = -1 /\ Ah = 0
                        \/ v = Ah /\ Ah > 0 /\ Al = Ah - 1
  ELSE v2 = v
LEMMA PieceIs ==
  ASSUME NEW n \in Nat, NEW q, NEW b, NEW b2, NEW C, C \subseteq 1..n,
         NEW Ss \in 0..63, NEW Se \in Ss..63, NEW Ah \in 0..10, NEW Al \in 0..10,
         Ss = 0 => Se = 0, Segment(q, C, Ss, Se, Ah, Al),
         \A c \in 1..n, k \in 0..63 : Level(b[c][k], b2[c][k], c \in C /\ k \in Ss..Se, Ah, Al),
         Ss # 0 => \A c \in C : b[c][0] >= 0
  PROVE  Piece(q, n, b, b2, C, Ss, Se, Ah, Al)
<1>1. ASSUME NEW c \in C, NEW k \in Ss..Se
      PROVE  \/ b[c][k] = -1 /\ Ah = 0
             \/ b[c][k] = Ah /\ Ah > 0 /\ Al = Ah - 1
  <2>1. c \in 1..n /\ k \in 0..63
    OBVIOUS
  <2>2. Level(b[c][k], b2[c][k], c \in C /\ k \in Ss..Se, Ah, Al)
    BY <2>1, Zenon
  <2> QED
    BY <2>2, Zenon DEF Level
<1>2. Continues(b, C, Ss, Se, Ah, Al)
  BY <1>1, Zenon DEF Continues
<1>3. ASSUME NEW c \in 1..n, NEW k \in 0..63
      PROVE  b2[c][k] = IF c \in C /\ k \in Ss..Se THEN Al ELSE b[c][k]
  <2>2. Level(b[c][k], b2[c][k], c \in C /\ k \in Ss..Se, Ah, Al)
    BY Zenon
  <2> QED
    BY <2>2, Zenon DEF Level
<1>4. Brought(b2, b, n, C, Ss, Se, Al)
  BY <1>3, Zenon DEF Brought
<1> QED
  BY <1>2, <1>4, Zenon DEF Piece

(* These scripts treat the coefficients in three classes: 0, 1 to 5 and the *)
(* others.  v tells the level of each class of each component.              *)
Class(k) == IF k = 0 THEN 1 ELSE IF k <= 5 THEN 2 ELSE 3
Wide(v, n) == [c \in 1..n |-> [k \in 0..63 |-> v[c][Class(k)]]]
Classes(X, Ss, Se) ==
  \/ X = {1} /\ Ss = 0 /\ Se = 0
  \/ X = {2} /\ Ss = 1 /\ Se = 5
  \/ X = {3} /\ Ss = 6 /\ Se = 63
  \/ X = {2, 3} /\ Ss = 1 /\ Se = 63
Stage(v, v2, n, C, X, Ss, Ah, Al) ==
  /\ \A c \in C : (Ss # 0 => v[c][1] >= 0)
  /\ \A c \in C : \A x \in X : v2[c][x] = Al /\ \/ v[c][x] = -1 /\ Ah = 0
                                                \/ v[c][x] = Ah /\ Ah > 0 /\ Al = Ah - 1
  /\ \A c \in 1..n : \A x \in 1..3 : ~(c \in C /\ x \in X) => v2[c][x] = v[c][x]

LEMMA ClassOf ==
  ASSUME NEW X, NEW Ss, NEW Se, Classes(X, Ss, Se)
  PROVE  /\ Ss \in 0..63 /\ Se \in Ss..63 /\ (Ss = 0 => Se = 0)
         /\ \A k \in 0..63 : k \in Ss..Se <=> Class(k) \in X
<1>1. CASE X = {1} /\ Ss = 0 /\ Se = 0
  BY <1>1 DEF Class
<1>2. CASE X = {2} /\ Ss = 1 /\ Se = 5
  BY <1>2 DEF Class
<1>3. CASE X = {3} /\ Ss = 6 /\ Se = 63
  BY <1>3 DEF Class
<1>4. CASE X = {2, 3} /\ Ss = 1 /\ Se = 63
  BY <1>4 DEF Class
<1> QED
  BY <1>1, <1>2, <1>3, <1>4 DEF Classes

LEMMA AddStage ==
  ASSUME NEW n \in Nat, NEW p, NEW q, NEW v, NEW v2, NEW C, C \subseteq 1..n,
         NEW X, NEW Ss, NEW Se, Classes(X, Ss, Se), NEW Ah \in 0..10, NEW Al \in 0..10,
         Brings(p, n, Wide(v, n)), Segment(q, C, Ss, Se, Ah, Al),
         Stage(v, v2, n, C, X, Ss, Ah, Al)
  PROVE  Brings(p \o q, n, Wide(v2, n))
<1> DEFINE b == Wide(v, n)
           b2 == Wide(v2, n)
<1>1. /\ Ss \in 0..63 /\ Se \in Ss..63 /\ (Ss = 0 => Se = 0)
      /\ \A k \in 0..63 : k \in Ss..Se <=> Class(k) \in X
  BY ClassOf
<1>2. \A c \in 1..n : \A k \in 0..63 : b[c][k] = v[c][Class(k)] /\ b2[c][k] = v2[c][Class(k)]
  BY DEF Wide
<1>3. \A k \in 0..63 : Class(k) \in 1..3
  BY DEF Class
<1>4. Class(0) = 1 /\ 0 \in 0..63
  BY DEF Class
<1> HIDE DEF b, b2
<1>5. ASSUME NEW c \in 1..n, NEW k \in 0..63
      PROVE  Level(b[c][k], b2[c][k], c \in C /\ k \in Ss..Se, Ah, Al)
  <2> DEFINE x == Class(k)
  <2>1. b[c][k] = v[c][x] /\ b2[c][k] = v2[c][x] /\ x \in 1..3
    BY <1>2, <1>3, Zenon
  <2>2. k \in Ss..Se <=> x \in X
    BY <1>1, Zenon
  <2> HIDE DEF x
  <2>3. CASE c \in C /\ x \in X
    BY <2>1, <2>2, <2>3, Zenon DEF Stage, Level
  <2>4. CASE ~(c \in C /\ x \in X)
    BY <2>1, <2>2, <2>4, Zenon DEF Stage, Level
  <2> QED
    BY <2>3, <2>4
<1>6. Ss # 0 => \A c \in C : b[c][0] >= 0
  <2> SUFFICES ASSUME Ss # 0, NEW c \in C PROVE b[c][0] >= 0
    OBVIOUS
  <2>1. c \in 1..n
    OBVIOUS
  <2>2. b[c][0] = v[c][1]
    BY <1>2, <1>4, <2>1, Zenon
  <2> QED
    BY <2>2, Zenon DEF Stage
<1>7. Piece(q, n, b, b2, C, Ss, Se, Ah, Al)
  BY <1>1, <1>5, <1>6, PieceIs, Zenon
<1>8. Brings(p, n, b)
  BY DEF b
<1>9. Brings(p \o q, n, b2)
  BY <1>7, <1>8, AddPiece, Zenon
<1> QED
  BY <1>9 DEF b2

Starts(p) == p \in Seq(ScanType) /\ p # <<>> /\ p[1].Se = 0
AddsStage(q, v, v2, n, C, X, Ss, Se, Ah, Al) ==
  /\ C \subseteq 1..n /\ Classes(X, Ss, Se) /\ Ah \in 0..10 /\ Al \in 0..10
  /\ Segment(q, C, Ss, Se, Ah, Al)
  /\ Stage(v, v2, n, C, X, Ss, Ah, Al)
LEMMA NextStage ==
  ASSUME NEW n \in Nat, NEW p, NEW q, NEW v, NEW v2, NEW C, NEW X, NEW Ss, NEW Se, NEW Ah, NEW Al,
         Brings(p, n, Wide(v, n)), AddsStage(q, v, v2, n, C, X, Ss, Se, Ah, Al)
  PROVE  Brings(p \o q, n, Wide(v2, n)) /\ (Starts(p) => Starts(p \o q))
<1>1. Brings(p \o q, n, Wide(v2, n))
  BY AddStage, Zenon DEF AddsStage
<1>2. ASSUME Starts(p) PROVE Starts(p \o q)
  <2>1. p \in Seq(ScanType) /\ p # <<>> /\ p[1].Se = 0
    BY <1>2, Zenon DEF Starts
  <2>2. q \in Seq(ScanType)
    BY Zenon DEF AddsStage, Segment
  <2>3. p \o q \in Seq(ScanType) /\ p \o q # <<>> /\ (p \o q)[1] = p[1]
    BY <2>1, <2>2
  <2> QED
    BY <2>1, <2>3, Zenon DEF Starts
<1> QED
  BY <1>1, <1>2

LEMMA FirstSegment ==
  ASSUME NEW q, NEW C, NEW Ah, NEW Al, Segment(q, C, 0, 0, Ah, Al)
  PROVE  Starts(q)
<1>1. q \in Seq(ScanType) /\ q # <<>> /\ \A j \in DOMAIN q : q[j].Se = 0
  BY Zenon DEF Segment, OneOf
<1>2. 1 \in DOMAIN q
  BY <1>1
<1> QED
  BY <1>1, <1>2, Zenon DEF Starts

(* A script that sends every bit.                                           *)
Complete(s, n) ==
  \E v : /\ \A c \in 1..n : v[c][1] = 0 /\ v[c][2] = 0 /\ v[c][3] = 0
         /\ Brings(s, n, Wide(v, n)) /\ Starts(s)

(* The scripts for n components of any colour space.                        *)
LEMMA AnyColours ==
  ASSUME NEW n \in Nat \ {0}
  PROVE  Complete(fill_dc_scans(n, 0, 1)
                    \o fill_scans(n, 1, 5, 0, 2) \o fill_scans(n, 6, 63, 0, 2)
                    \o fill_scans(n, 1, 63, 2, 1) \o fill_dc_scans(n, 1, 0)
                    \o fill_scans(n, 1, 63, 1, 0), n)
<1> DEFINE C == 1..n
           v0 == [c \in 1..n |-> <<-1, -1, -1>>]
           v1 == [c \in 1..n |-> <<1, -1, -1>>]
           v2 == [c \in 1..n |-> <<1, 2, -1>>]
           v3 == [c \in 1..n |-> <<1, 2, 2>>]
           v4 == [c \in 1..n |-> <<1, 1, 1>>]
           v5 == [c \in 1..n |-> <<0, 1, 1>>]
           v6 == [c \in 1..n |-> <<0, 0, 0>>]
           q1 == fill_dc_scans(n, 0, 1)
           q2 == fill_scans(n, 1, 5, 0, 2)
           q3 == fill_scans(n, 6, 63, 0, 2)
           q4 == fill_scans(n, 1, 63, 2, 1)
           q5 == fill_dc_scans(n, 1, 0)
           q6 == fill_scans(n, 1, 63, 1, 0)
<1>1. \A c \in 1..n :
        /\ v0[c][1] = -1 /\ v0[c][2] = -1 /\ v0[c][3] = -1
        /\ v1[c][1] = 1 /\ v1[c][2] = -1 /\ v1[c][3] = -1
        /\ v2[c][1] = 1 /\ v2[c][2] = 2 /\ v2[c][3] = -1
        /\ v3[c][1] = 1 /\ v3[c][2] = 2 /\ v3[c][3] = 2
        /\ v4[c][1] = 1 /\ v4[c][2] = 1 /\ v4[c][3] = 1
        /\ v5[c][1] = 0 /\ v5[c][2] = 1 /\ v5[c][3] = 1
        /\ v6[c][1] = 0 /\ v6[c][2] = 0 /\ v6[c][3] = 0
  OBVIOUS
<1> HIDE DEF C, v0, v1, v2, v3, v4, v5, v6
<1>2. Brings(<<>>, n, Wide(v0, n))
  <2>1. \A c \in 1..n, k \in 0..63 : Wide(v0, n)[c][k] = -1
    BY <1>1 DEF Wide, Class
  <2> QED
    BY <2>1, NoScans
<1>3. C \subseteq 1..n
  BY DEF C
<1>11. Segment(q1, C, 0, 0, 0, 1)
  <2>1. 0 \in 0..63 /\ 0 \in 0..63 /\ 0 \in 0..10 /\ 1 \in 0..10
    OBVIOUS
  <2> QED
    BY <2>1, FillDcScans, Zenon DEF C
<1>21. Stage(v0, v1, n, C, {1}, 0, 0, 1)
  BY <1>1 DEF C, Stage
<1>31. AddsStage(q1, v0, v1, n, C, {1}, 0, 0, 0, 1)
  <2>1. Classes({1}, 0, 0) /\ 0 \in 0..10 /\ 1 \in 0..10
    BY DEF Classes
  <2> QED
    BY <1>3, <1>11, <1>21, <2>1, Zenon DEF AddsStage
<1>12. Segment(q2, C, 1, 5, 0, 2)
  <2>1. 1 \in 0..63 /\ 5 \in 1..63 /\ 0 \in 0..10 /\ 2 \in 0..10
    OBVIOUS
  <2> QED
    BY <2>1, FillScans, Zenon DEF C
<1>22. Stage(v1, v2, n, C, {2}, 1, 0, 2)
  BY <1>1 DEF C, Stage
<1>32. AddsStage(q2, v1, v2, n, C, {2}, 1, 5, 0, 2)
  <2>1. Classes({2}, 1, 5) /\ 0 \in 0..10 /\ 2 \in 0..10
    BY DEF Classes
  <2> QED
    BY <1>3, <1>12, <1>22, <2>1, Zenon DEF AddsStage
<1>13. Segment(q3, C, 6, 63, 0, 2)
  <2>1. 6 \in 0..63 /\ 63 \in 6..63 /\ 0 \in 0..10 /\ 2 \in 0..10
    OBVIOUS
  <2> QED
    BY <2>1, FillScans, Zenon DEF C
<1>23. Stage(v2, v3, n, C, {3}, 6, 0, 2)
  BY <1>1 DEF C, Stage
<1>33. AddsStage(q3, v2, v3, n, C, {3}, 6, 63, 0, 2)
  <2>1. Classes({3}, 6, 63) /\ 0 \in 0..10 /\ 2 \in 0..10
    BY DEF Classes
  <2> QED
    BY <1>3, <1>13, <1>23, <2>1, Zenon DEF AddsStage
<1>14. Segment(q4, C, 1, 63, 2, 1)
  <2>1. 1 \in 0..63 /\ 63 \in 1..63 /\ 2 \in 0..10 /\ 1 \in 0..10
    OBVIOUS
  <2> QED
    BY <2>1, FillScans, Zenon DEF C
<1>24. Stage(v3, v4, n, C, {2, 3}, 1, 2, 1)
  BY <1>1 DEF C, Stage
<1>34. AddsStage(q4, v3, v4, n, C, {2, 3}, 1, 63, 2, 1)
  <2>1. Classes({2, 3}, 1, 63) /\ 2 \in 0..10 /\ 1 \in 0..10
    BY DEF Classes
  <2> QED
    BY <1>3, <1>14, <1>24, <2>1, Zenon DEF AddsStage
<1>15. Segment(q5, C, 0, 0, 1, 0)
  <2>1. 0 \in 0..63 /\ 0 \in 0..63 /\ 1 \in 0..10 /\ 0 \in 0..10
    OBVIOUS
  <2> QED
    BY <2>1, FillDcScans, Zenon DEF C
<1>25. Stage(v4, v5, n, C, {1}, 0, 1, 0)
  BY <1>1 DEF C, Stage
<1>35. AddsStage(q5, v4, v5, n, C, {1}, 0, 0, 1, 0)
  <2>1. Classes({1}, 0, 0) /\ 1 \in 0..10 /\ 0 \in 0..10
    BY DEF Classes
  <2> QED
    BY <1>3, <1>15, <1>25, <2>1, Zenon DEF AddsStage
<1>16. Segment(q6, C, 1, 63, 1, 0)
  <2>1. 1 \in 0..63 /\ 63 \in 1..63 /\ 1 \in 0..10 /\ 0 \in 0..10
    OBVIOUS
  <2> QED
    BY <2>1, FillScans, Zenon DEF C
<1>26. Stage(v5, v6, n, C, {2, 3}, 1, 1, 0)
  BY <1>1 DEF C, Stage
<1>36. AddsStage(q6, v5, v6, n, C, {2, 3}, 1, 63, 1, 0)
  <2>1. Classes({2, 3}, 1, 63) /\ 1 \in 0..10 /\ 0 \in 0..10
    BY DEF Classes
  <2> QED
    BY <1>3, <1>16, <1>26, <2>1, Zenon DEF AddsStage
<1>4. <<>> \o q1 = q1
  BY <1>11 DEF Segment
<1> HIDE DEF q1, q2, q3, q4, q5, q6
<1>41. Brings(q1, n, Wide(v1, n)) /\ Starts(q1)
  BY <1>31, <1>2, <1>4, <1>11, NextStage, FirstSegment
<1>42. Brings(q1 \o q2, n, Wide(v2, n)) /\ Starts(q1 \o q2)
  BY <1>32, <1>41, NextStage
<1>43. Brings(q1 \o q2 \o q3, n, Wide(v3, n)) /\ Starts(q1 \o q2 \o q3)
  BY <1>33, <1>42, NextStage
<1>44. Brings(q1 \o q2 \o q3 \o q4, n, Wide(v4, n)) /\ Starts(q1 \o q2 \o q3 \o q4)
  BY <1>34, <1>43, NextStage
<1>45. Brings(q1 \o q2 \o q3 \o q4 \o q5, n, Wide(v5, n)) /\ Starts(q1 \o q2 \o q3 \o q4 \o q5)
  BY <1>35, <1>44, NextStage
<1>46. Brings(q1 \o q2 \o q3 \o q4 \o q5 \o q6, n, Wide(v6, n)) /\ Starts(q1 \o q2 \o q3 \o q4 \o q5 \o q6)
  BY <1>36, <1>45, NextStage
<1> QED
  BY <1>1, <1>46, Zenon DEF Complete, q1, q2, q3, q4, q5, q6

(* The script for YCbCr.                                                    *)
LEMMA YccColours ==
  Complete(fill_dc_scans(3, 0, 1)
             \o fill_a_scan(1, 1, 5, 0, 2) \o fill_a_scan(3, 1, 63, 0, 1)
             \o fill_a_scan(2, 1, 63, 0, 1) \o fill_a_scan(1, 6, 63, 0, 2)
             \o fill_a_scan(1, 1, 63, 2, 1) \o fill_dc_scans(3, 1, 0)
             \o fill_a_scan(3, 1, 63, 1, 0) \o fill_a_scan(2, 1, 63, 1, 0)
             \o fill_a_scan(1, 1, 63, 1, 0), 3)
<1> DEFINE v0 == <<<<-1, -1, -1>>, <<-1, -1, -1>>, <<-1, -1, -1>>>>
           v1 == <<<<1, -1, -1>>, <<1, -1, -1>>, <<1, -1, -1>>>>
           v2 == <<<<1, 2, -1>>, <<1, -1, -1>>, <<1, -1, -1>>>>
           v3 == <<<<1, 2, -1>>, <<1, -1, -1>>, <<1, 1, 1>>>>
           v4 == <<<<1, 2, -1>>, <<1, 1, 1>>, <<1, 1, 1>>>>
           v5 == <<<<1, 2, 2>>, <<1, 1, 1>>, <<1, 1, 1>>>>
           v6 == <<<<1, 1, 1>>, <<1, 1, 1>>, <<1, 1, 1>>>>
           v7 == <<<<0, 1, 1>>, <<0, 1, 1>>, <<0, 1, 1>>>>
           v8 == <<<<0, 1, 1>>, <<0, 1, 1>>, <<0, 0, 0>>>>
           v9 == <<<<0, 1, 1>>, <<0, 0, 0>>, <<0, 0, 0>>>>
           v10 == <<<<0, 0, 0>>, <<0, 0, 0>>, <<0, 0, 0>>>>
           q1 == fill_dc_scans(3, 0, 1)
           q2 == fill_a_scan(1, 1, 5, 0, 2)
           q3 == fill_a_scan(3, 1, 63, 0, 1)
           q4 == fill_a_scan(2, 1, 63, 0, 1)
           q5 == fill_a_scan(1, 6, 63, 0, 2)
           q6 == fill_a_scan(1, 1, 63, 2, 1)
           q7 == fill_dc_scans(3, 1, 0)
           q8 == fill_a_scan(3, 1, 63, 1, 0)
           q9 == fill_a_scan(2, 1, 63, 1, 0)
           q10 == fill_a_scan(1, 1, 63, 1, 0)
<1>100. /\ v0[1][1] = -1 /\ v0[1][2] = -1 /\ v0[1][3] = -1
       /\ v0[2][1] = -1 /\ v0[2][2] = -1 /\ v0[2][3] = -1
       /\ v0[3][1] = -1 /\ v0[3][2] = -1 /\ v0[3][3] = -1
  OBVIOUS
<1>101. /\ v1[1][1] = 1 /\ v1[1][2] = -1 /\ v1[1][3] = -1
       /\ v1[2][1] = 1 /\ v1[2][2] = -1 /\ v1[2][3] = -1
       /\ v1[3][1] = 1 /\ v1[3][2] = -1 /\ v1[3][3] = -1
  OBVIOUS
<1>102. /\ v2[1][1] = 1 /\ v2[1][2] = 2 /\ v2[1][3] = -1
       /\ v2[2][1] = 1 /\ v2[2][2] = -1 /\ v2[2][3] = -1
       /\ v2[3][1] = 1 /\ v2[3][2] = -1 /\ v2[3][3] = -1
  OBVIOUS
<1>103. /\ v3[1][1] = 1 /\ v3[1][2] = 2 /\ v3[1][3] = -1
       /\ v3[2][1] = 1 /\ v3[2][2] = -1 /\ v3[2][3] = -1
       /\ v3[3][1] = 1 /\ v3[3][2] = 1 /\ v3[3][3] = 1
  OBVIOUS
<1>104. /\ v4[1][1] = 1 /\ v4[1][2] = 2 /\ v4[1][3] = -1
       /\ v4[2][1] = 1 /\ v4[2][2] = 1 /\ v4[2][3] = 1
       /\ v4[3][1] = 1 /\ v4[3][2] = 1 /\ v4[3][3] = 1
  OBVIOUS
<1>105. /\ v5[1][1] = 1 /\ v5[1][2] = 2 /\ v5[1][3] = 2
       /\ v5[2][1] = 1 /\ v5[2][2] = 1 /\ v5[2][3] = 1
       /\ v5[3][1] = 1 /\ v5[3][2] = 1 /\ v5[3][3] = 1
  OBVIOUS
<1>106. /\ v6[1][1] = 1 /\ v6[1][2] = 1 /\ v6[1][3] = 1
       /\ v6[2][1] = 1 /\ v6[2][2] = 1 /\ v6[2][3] = 1
       /\ v6[3][1] = 1 /\ v6[3][2] = 1 /\ v6[3][3] = 1
  OBVIOUS
<1>107. /\ v7[1][1] = 0 /\ v7[1][2] = 1 /\ v7[1][3] = 1
       /\ v7[2][1] = 0 /\ v7[2][2] = 1 /\ v7[2][3] = 1
       /\ v7[3][1] = 0 /\ v7[3][2] = 1 /\ v7[3][3] = 1
  OBVIOUS
<1>108. /\ v8[1][1] = 0 /\ v8[1][2] = 1 /\ v8[1][3] = 1
       /\ v8[2][1] = 0 /\ v8[2][2] = 1 /\ v8[2][3] = 1
       /\ v8[3][1] = 0 /\ v8[3][2] = 0 /\ v8[3][3] = 0
  OBVIOUS
<1>109. /\ v9[1][1] = 0 /\ v9[1][2] = 1 /\ v9[1][3] = 1
       /\ v9[2][1] = 0 /\ v9[2][2] = 0 /\ v9[2][3] = 0
       /\ v9[3][1] = 0 /\ v9[3][2] = 0 /\ v9[3][3] = 0
  OBVIOUS
<1>110. /\ v10[1][1] = 0 /\ v10[1][2] = 0 /\ v10[1][3] = 0
       /\ v10[2][1] = 0 /\ v10[2][2] = 0 /\ v10[2][3] = 0
       /\ v10[3][1] = 0 /\ v10[3][2] = 0 /\ v10[3][3] = 0
  OBVIOUS
<1> HIDE DEF v0, v1, v2, v3, v4, v5, v6, v7, v8, v9, v10
<1>1. \A c : c \in 1..3 <=> (c = 1 \/ c = 2 \/ c = 3)
  OBVIOUS
<1>2. Brings(<<>>, 3, Wide(v0, 3))
  <2>1. \A c \in 1..3 : v0[c][1] = -1 /\ v0[c][2] = -1 /\ v0[c][3] = -1
    BY <1>1, <1>100, Zenon
  <2>2. \A c \in 1..3, k \in 0..63 : Wide(v0, 3)[c][k] = -1
    BY <2>1 DEF Wide, Class
  <2> QED
    BY <2>2, NoScans
<1>11. Segment(q1, 1..3, 0, 0, 0, 1)
  <2>1. 3 \in Nat \ {0} /\ 0 \in 0..10 /\ 1 \in 0..10
    OBVIOUS
  <2> QED
    BY <2>1, FillDcScans, Zenon
<1>21. Stage(v0, v1, 3, 1..3, {1}, 0, 0, 1)
  BY <1>100, <1>101 DEF Stage
<1>31. AddsStage(q1, v0, v1, 3, 1..3, {1}, 0, 0, 0, 1)
  <2>1. Classes({1}, 0, 0) /\ 0 \in 0..10 /\ 1 \in 0..10 /\ 1..3 \subseteq 1..3
    BY DEF Classes
  <2> QED
    BY <1>11, <1>21, <2>1, Zenon DEF AddsStage
<1>12. Segment(q2, {1}, 1, 5, 0, 2)
  <2>1. 1 \in Int /\ 1 \in 0..63 /\ 5 \in 1..63 /\ 0 \in 0..10 /\ 2 \in 0..10
    OBVIOUS
  <2> QED
    BY <2>1, FillAScan, Zenon
<1>22. Stage(v1, v2, 3, {1}, {2}, 1, 0, 2)
  BY <1>101, <1>102 DEF Stage
<1>32. AddsStage(q2, v1, v2, 3, {1}, {2}, 1, 5, 0, 2)
  <2>1. Classes({2}, 1, 5) /\ 0 \in 0..10 /\ 2 \in 0..10 /\ {1} \subseteq 1..3
    BY DEF Classes
  <2> QED
    BY <1>12, <1>22, <2>1, Zenon DEF AddsStage
<1>13. Segment(q3, {3}, 1, 63, 0, 1)
  <2>1. 3 \in Int /\ 1 \in 0..63 /\ 63 \in 1..63 /\ 0 \in 0..10 /\ 1 \in 0..10
    OBVIOUS
  <2> QED
    BY <2>1, FillAScan, Zenon
<1>23. Stage(v2, v3, 3, {3}, {2, 3}, 1, 0, 1)
  BY <1>102, <1>103 DEF Stage
<1>33. AddsStage(q3, v2, v3, 3, {3}, {2, 3}, 1, 63, 0, 1)
  <2>1. Classes({2, 3}, 1, 63) /\ 0 \in 0..10 /\ 1 \in 0..10 /\ {3} \subseteq 1..3
    BY DEF Classes
  <2> QED
    BY <1>13, <1>23, <2>1, Zenon DEF AddsStage
<1>14. Segment(q4, {2}, 1, 63, 0, 1)
  <2>1. 2 \in Int /\ 1 \in 0..63 /\ 63 \in 1..63 /\ 0 \in 0..10 /\ 1 \in 0..10
    OBVIOUS
  <2> QED
    BY <2>1, FillAScan, Zenon
<1>24. Stage(v3, v4, 3, {2}, {2, 3}, 1, 0, 1)
  BY <1>103, <1>104 DEF Stage
<1>34. AddsStage(q4, v3, v4, 3, {2}, {2, 3}, 1, 63, 0, 1)
  <2>1. Classes({2, 3}, 1, 63) /\ 0 \in 0..10 /\ 1 \in 0..10 /\ {2} \subseteq 1..3
    BY DEF Classes
  <2> QED
    BY <1>14, <1>24, <2>1, Zenon DEF AddsStage
<1>15. Segment(q5, {1}, 6, 63, 0, 2)
  <2>1. 1 \in Int /\ 6 \in 0..63 /\ 63 \in 6..63 /\ 0 \in 0..10 /\ 2 \in 0..10
    OBVIOUS
  <2> QED
    BY <2>1, FillAScan, Zenon
<1>25. Stage(v4, v5, 3, {1}, {3}, 6, 0, 2)
  BY <1>104, <1>105 DEF Stage
<1>35. AddsStage(q5, v4, v5, 3, {1}, {3}, 6, 63, 0, 2)
  <2>1. Classes({3}, 6, 63) /\ 0 \in 0..10 /\ 2 \in 0..10 /\ {1} \subseteq 1..3
    BY DEF Classes
  <2> QED
    BY <1>15, <1>25, <2>1, Zenon DEF AddsStage
<1>16. Segment(q6, {1}, 1, 63, 2, 1)
  <2>1. 1 \in Int /\ 1 \in 0..63 /\ 63 \in 1..63 /\ 2 \in 0..10 /\ 1 \in 0..10
    OBVIOUS
  <2> QED
    BY <2>1, FillAScan, Zenon
<1>26. Stage(v5, v6, 3, {1}, {2, 3}, 1, 2, 1)
  BY <1>105, <1>106 DEF Stage
<1>36. AddsStage(q6, v5, v6, 3, {1}, {2, 3}, 1, 63, 2, 1)
  <2>1. Classes({2, 3}, 1, 63) /\ 2 \in 0..10 /\ 1 \in 0..10 /\ {1} \subseteq 1..3
    BY DEF Classes
  <2> QED
    BY <1>16, <1>26, <2>1, Zenon DEF AddsStage
<1>17. Segment(q7, 1..3, 0, 0, 1, 0)
  <2>1. 3 \in Nat \ {0} /\ 1 \in 0..10 /\ 0 \in 0..10
    OBVIOUS
  <2> QED
    BY <2>1, FillDcScans, Zenon
<1>27. Stage(v6, v7, 3, 1..3, {1}, 0, 1, 0)
  BY <1>106, <1>107 DEF Stage
<1>37. AddsStage(q7, v6, v7, 3, 1..3, {1}, 0, 0, 1, 0)
  <2>1. Classes({1}, 0, 0) /\ 1 \in 0..10 /\ 0 \in 0..10 /\ 1..3 \subseteq 1..3
    BY DEF Classes
  <2> QED
    BY <1>17, <1>27, <2>1, Zenon DEF AddsStage
<1>18. Segment(q8, {3}, 1, 63, 1, 0)
  <2>1. 3 \in Int /\ 1 \in 0..63 /\ 63 \in 1..63 /\ 1 \in 0..10 /\ 0 \in 0..10
    OBVIOUS
  <2> QED
    BY <2>1, FillAScan, Zenon
<1>28. Stage(v7, v8, 3, {3}, {2, 3}, 1, 1, 0)
  BY <1>107, <1>108 DEF Stage
<1>38. AddsStage(q8, v7, v8, 3, {3}, {2, 3}, 1, 63, 1, 0)
  <2>1. Classes({2, 3}, 1, 63) /\ 1 \in 0..10 /\ 0 \in 0..10 /\ {3} \subseteq 1..3
    BY DEF Classes
  <2> QED
    BY <1>18, <1>28, <2>1, Zenon DEF AddsStage
<1>19. Segment(q9, {2}, 1, 63, 1, 0)
  <2>1. 2 \in Int /\ 1 \in 0..63 /\ 63 \in 1..63 /\ 1 \in 0..10 /\ 0 \in 0..10
    OBVIOUS
  <2> QED
    BY <2>1, FillAScan, Zenon
<1>29. Stage(v8, v9, 3, {2}, {2, 3}, 1, 1, 0)
  BY <1>108, <1>109 DEF Stage
<1>39. AddsStage(q9, v8, v9, 3, {2}, {2, 3}, 1, 63, 1, 0)
  <2>1. Classes({2, 3}, 1, 63) /\ 1 \in 0..10 /\ 0 \in 0..10 /\ {2} \subseteq 1..3
    BY DEF Classes
  <2> QED
    BY <1>19, <1>29, <2>1, Zenon DEF AddsStage
<1>20. Segment(q10, {1}, 1, 63, 1, 0)
  <2>1. 1 \in Int /\ 1 \in 0..63 /\ 63 \in 1..63 /\ 1 \in 0..10 /\ 0 \in 0..10
    OBVIOUS
  <2> QED
    BY <2>1, FillAScan, Zenon
<1>30. Stage(v9, v10, 3, {1}, {2, 3}, 1, 1, 0)
  BY <1>109, <1>110 DEF Stage
<1>40. AddsStage(q10, v9, v10, 3, {1}, {2, 3}, 1, 63, 1, 0)
  <2>1. Classes({2, 3}, 1, 63) /\ 1 \in 0..10 /\ 0 \in 0..10 /\ {1} \subseteq 1..3
    BY DEF Classes
  <2> QED
    BY <1>20, <1>30, <2>1, Zenon DEF AddsStage
<1>4. <<>> \o q1 = q1
  BY <1>11 DEF Segment
<1> HIDE DEF q1, q2, q3, q4, q5, q6, q7, q8, q9, q10
<1>5. 3 \in Nat
  OBVIOUS
<1>41. Brings(q1, 3, Wide(v1, 3)) /\ Starts(q1)
  BY <1>5, <1>31, <1>2, <1>4, <1>11, NextStage, FirstSegment
<1>42. Brings(q1 \o q2, 3, Wide(v2, 3)) /\ Starts(q1 \o q2)
  BY <1>5, <1>32, <1>41, NextStage
<1>43. Brings(q1 \o q2 \o q3, 3, Wide(v3, 3)) /\ Starts(q1 \o q2 \o q3)
  BY <1>5, <1>33, <1>42, NextStage
<1>44. Brings(q1 \o q2 \o q3 \o q4, 3, Wide(v4, 3)) /\ Starts(q1 \o q2 \o q3 \o q4)
  BY <1>5, <1>34, <1>43, NextStage
<1>45. Brings(q1 \o q2 \o q3 \o q4 \o q5, 3, Wide(v5, 3)) /\ Starts(q1 \o q2 \o q3 \o q4 \o q5)
  BY <1>5, <1>35, <1>44, NextStage
<1>46. Brings(q1 \o q2 \o q3 \o q4 \o q5 \o q6, 3, Wide(v6, 3)) /\ Starts(q1 \o q2 \o q3 \o q4 \o q5 \o q6)
  BY <1>5, <1>36, <1>45, NextStage
<1>47. Brings(q1 \o q2 \o q3 \o q4 \o q5 \o q6 \o q7, 3, Wide(v7, 3)) /\ Starts(q1 \o q2 \o q3 \o q4 \o q5 \o q6 \o q7)
  BY <1>5, <1>37, <1>46, NextStage
<1>48. Brings(q1 \o q2 \o q3 \o q4 \o q5 \o q6 \o q7 \o q8, 3, Wide(v8, 3)) /\ Starts(q1 \o q2 \o q3 \o q4 \o q5 \o q6 \o q7 \o q8)
  BY <1>5, <1>38, <1>47, NextStage
<1>49. Brings(q1 \o q2 \o q3 \o q4 \o q5 \o q6 \o q7 \o q8 \o q9, 3, Wide(v9, 3)) /\ Starts(q1 \o q2 \o q3 \o q4 \o q5 \o q6 \o q7 \o q8 \o q9)
  BY <1>5, <1>39, <1>48, NextStage
<1>50. Brings(q1 \o q2 \o q3 \o q4 \o q5 \o q6 \o q7 \o q8 \o q9 \o q10, 3, Wide(v10, 3)) /\ Starts(q1 \o q2 \o q3 \o q4 \o q5 \o q6 \o q7 \o q8 \o q9 \o q10)
  BY <1>5, <1>40, <1>49, NextStage
<1>6. \A c \in 1..3 : v10[c][1] = 0 /\ v10[c][2] = 0 /\ v10[c][3] = 0
  BY <1>1, <1>110, Zenon
<1> QED
  BY <1>6, <1>50, Zenon DEF Complete, q1, q2, q3, q4, q5, q6, q7, q8, q9, q10

LEMMA CompleteScript ==
  ASSUME NEW n \in Nat \ {0}, NEW s, Complete(s, n)
  PROVE  /\ s \in Seq(ScanType)
         /\ validate_script(s, n) /\ progressive_mode(s)
         /\ \A c \in 1..n : \A k \in 0..63 : last_bitpos(s, Len(s) + 1, c, k) = 0
<1>0. PICK v : /\ \A c \in 1..n : v[c][1] = 0 /\ v[c][2] = 0 /\ v[c][3] = 0
               /\ Brings(s, n, Wide(v, n)) /\ Starts(s)
  BY Zenon DEF Complete
<1>1. s \in Seq(ScanType) /\ \A m \in DOMAIN s : SoundScan(s, m, n)
  BY <1>0, Zenon DEF Brings
<1>2. Len(s) \in Nat
  BY <1>1
<1>3. ASSUME NEW c \in 1..n, NEW k \in 0..63 PROVE last_bitpos(s, Len(s) + 1, c, k) = 0
  <2>1. Class(k) = 1 \/ Class(k) = 2 \/ Class(k) = 3
    BY DEF Class
  <2>2. Wide(v, n)[c][k] = v[c][Class(k)]
    BY DEF Wide
  <2>3. v[c][1] = 0 /\ v[c][2] = 0 /\ v[c][3] = 0
    BY <1>0
  <2>4. last_bitpos(s, Len(s) + 1, c, k) = Wide(v, n)[c][k]
    BY <1>0, Zenon DEF Brings
  <2> QED
    BY <2>1, <2>2, <2>3, <2>4, Zenon
<1>5. ASSUME NEW c \in 1..n PROVE \E m \in DOMAIN s : Carries(s[m], c, 0)
  <2> SUFFICES ASSUME \A m \in DOMAIN s : ~Carries(s[m], c, 0) PROVE FALSE
    OBVIOUS
  <2>1. DOMAIN s = 1..(Len(s) + 1) - 1
    BY <1>1, <1>2
  <2>2. {i \in 1..(Len(s) + 1) - 1 : Carries(s[i], c, 0)} = {}
    BY <2>1
  <2>3. last_bitpos(s, Len(s) + 1, c, 0) = -1
    BY <2>2, Zenon DEF last_bitpos
  <2>4. 0 \in 0..63
    OBVIOUS
  <2>5. last_bitpos(s, Len(s) + 1, c, 0) = 0
    BY <1>3, <2>4, Zenon
  <2> QED
    BY <2>3, <2>5
<1>8. progressive_mode(s)
  <2>1. s[1].Se = 0 /\ 0 # DCTSIZE2 - 1
    BY <1>0 DEF Starts, DCTSIZE2
  <2> QED
    BY <2>1, Zenon DEF progressive_mode
<1>9. s # <<>>
  BY <1>0, Zenon DEF Starts
<1>6. ASSUME NEW m \in DOMAIN s
      PROVE  /\ Len(s[m].comps) \in 1..4
             /\ Range(s[m].comps) \subseteq 1..n
             /\ \A i \in 1..Len(s[m].comps) - 1 : s[m].comps[i] < s[m].comps[i + 1]
             /\ GoodScan(s, m)
  <2>1. SoundScan(s, m, n)
    BY <1>1
  <2>2. 63 = DCTSIZE2 - 1 /\ 10 = MAX_AH_AL
    BY DEF DCTSIZE2, MAX_AH_AL
  <2>3. GoodScan(s, m)
    BY <1>8, <2>1, <2>2, Zenon DEF GoodScan, SoundScan
  <2> QED
    BY <2>1, <2>3, Zenon DEF SoundScan
<1>7. validate_script(s, n)
  <2>1. 4 = MAX_COMPS_IN_SCAN
    BY DEF MAX_COMPS_IN_SCAN
  <2> QED
    BY <1>5, <1>6, <1>9, <2>1, Zenon DEF validate_script
<1> QED
  BY <1>1, <1>3, <1>7, <1>8, Zenon

LEMMA SimpleProgression ==
  ASSUME NEW n \in Nat \ {0}, NEW ycc
  PROVE  Complete(jpeg_simple_progression(n, ycc), n)
<1>1. CASE n = 3 /\ ycc
  BY <1>1, YccColours, Zenon DEF jpeg_simple_progression
<1>2. CASE ~(n = 3 /\ ycc)
  BY <1>2, AnyColours, Zenon DEF jpeg_simple_progression
<1> QED
  BY <1>1, <1>2

LEMMA SmallLimits ==
  ASSUME NEW lim \in Limits
  PROVE  lim \in 0..63
<1>1. PICK n \in 1..8 : lim = n * n - 1
  BY DEF Limits
<1>2. n = 1 \/ n = 2 \/ n = 3 \/ n = 4 \/ n = 5 \/ n = 6 \/ n = 7 \/ n = 8
  OBVIOUS
<1> QED
  BY <1>1, <1>2

(* What jinit_c_master_control settles on.                                  *)
LEMMA Settled ==
  ASSUME NEW script \in Seq(ScanType), NEW comps \in Nat, validate_script(script, comps),
         progressive_mode(script), NEW lim \in Limits
  PROVE  Sends(script, comps, IF lim < DCTSIZE2 - 1 THEN reduce_script(script, lim) ELSE script,
               lim)
<1>1. lim \in 0..63
  BY SmallLimits
<1>2. CASE lim < DCTSIZE2 - 1
  <2>1. Reduced(reduce_script(script, lim), script, Len(script), lim)
    BY <1>1, ReducedScript
  <2> QED
    BY <1>1, <1>2, <2>1, ReducedSends
<1>3. CASE ~(lim < DCTSIZE2 - 1)
  <2>1. lim = 63
    BY <1>1, <1>3 DEF DCTSIZE2
  <2>2. Reduced(script, script, Len(script), lim)
    BY <2>1, WholeScript
  <2> QED
    BY <1>1, <1>3, <2>2, ReducedSends
<1> QED
  BY <1>2, <1>3

(***************************************************************************)
(* Tables.                                                                 *)
(***************************************************************************)
(* Whatever the counts of codes a file's table has, as long as it is not    *)
(* refused, jpeg_huff_decode finds every code bit by bit, none too early,   *)
(* and takes it to its own value.                                           *)
THEOREM TableCodesAreFound == SetupSpec => []CodesAreFound
<1>1. CodesAreFound <=> (setup.kind = "derived" => AllFound(setup.tbl, setup.derived))
  BY Zenon DEF CodesAreFound, AllFound, Found
<1>2. CodesAreFound' <=> (setup'.kind = "derived" => AllFound(setup'.tbl, setup'.derived))
  BY Zenon DEF CodesAreFound, AllFound, Found
<1>3. SetupInit => CodesAreFound
  <2>1. SetupInit => setup.kind # "derived"
    BY DEF SetupInit
  <2> QED
    BY <1>1, <2>1
<1>4. CodesAreFound /\ [SetupNext]_setup => CodesAreFound'
  <2> SUFFICES ASSUME CodesAreFound, SetupNext PROVE CodesAreFound'
    BY <1>1, <1>2
  <2>1. CASE set_scan_info
    BY <1>2, <2>1 DEF set_scan_info
  <2>2. CASE simple_progression
    BY <1>2, <2>2 DEF simple_progression
  <2>3. CASE settle_script
    <3>1. setup'.kind # "derived"
      BY <2>3 DEF settle_script
    <3> QED
      BY <1>2, <3>1
  <2>4. CASE make_optimal_table
    <3>1. setup'.kind # "derived"
      BY <2>4 DEF make_optimal_table, Refuse
    <3> QED
      BY <1>2, <3>1
  <2>5. CASE derive_table
    <3>1. PICK tbl \in Tables :
            IF BadTable(tbl, FALSE) THEN Refuse
            ELSE setup' = [kind |-> "derived", tbl |-> tbl, derived |-> DerivedTbl(tbl)]
      BY <2>5 DEF derive_table
    <3>2. CASE BadTable(tbl, FALSE)
      BY <1>2, <3>1, <3>2 DEF Refuse
    <3>3. CASE ~BadTable(tbl, FALSE)
      <4>1. setup'.tbl = tbl /\ setup'.derived = DerivedTbl(tbl)
        BY <3>1, <3>3
      <4>2. AllFound(tbl, DerivedTbl(tbl))
        BY <3>3, EachTable, TablesAssumption, Zenon
      <4> QED
        BY <1>2, <4>1, <4>2, Zenon
    <3> QED
      BY <3>2, <3>3
  <2> QED
    BY <2>1, <2>2, <2>3, <2>4, <2>5 DEF SetupNext
<1> QED
  BY <1>3, <1>4, PTL DEF SetupSpec

(***************************************************************************)
(* Scripts: those asked for are as the facts about them need them.         *)
(***************************************************************************)
Asked ==
  setup.kind = "asked" =>
    /\ setup.scans \in Seq(ScanType) /\ setup.comps \in Nat /\ setup.simple \in BOOLEAN
    /\ setup.simple => setup.comps \in Nat \ {0} /\ Complete(setup.scans, setup.comps)

LEMMA StartPass ==
  ASSUME derive_table
  PROVE  setup'.kind = "derived" \/ (setup'.kind = "refused" /\ ~setup'.simple)
<1>1. PICK tbl \in Tables :
        IF BadTable(tbl, FALSE) THEN Refuse
        ELSE setup' = [kind |-> "derived", tbl |-> tbl, derived |-> DerivedTbl(tbl)]
  BY DEF derive_table
<1>2. CASE BadTable(tbl, FALSE)
  BY <1>1, <1>2 DEF Refuse
<1>3. CASE ~BadTable(tbl, FALSE)
  BY <1>1, <1>3
<1> QED
  BY <1>2, <1>3

LEMMA AskedInitially == SetupInit => Asked
  BY DEF SetupInit, Asked

LEMMA AskedKept ==
  ASSUME Asked, [SetupNext]_setup
  PROVE  Asked'
<1>1. CASE set_scan_info
  <2>1. PICK s \in Scripts :
          setup' = [kind |-> "asked", simple |-> FALSE, comps |-> s.comps, scans |-> s.scans]
    BY <1>1 DEF set_scan_info
  <2>2. s.scans \in Seq(ScanType) /\ s.comps \in Nat
    BY ScriptsAssumption DEF ScanType
  <2> QED
    BY <2>1, <2>2 DEF Asked
<1>2. CASE simple_progression
  <2>1. PICK n \in Components, ycc \in BOOLEAN :
          setup' = [kind |-> "asked", simple |-> TRUE, comps |-> n,
                    scans |-> jpeg_simple_progression(n, ycc)]
    BY <1>2 DEF simple_progression
  <2>2. n \in Nat \ {0}
    BY ComponentsAssumption DEF MAX_COMPONENTS
  <2>3. Complete(jpeg_simple_progression(n, ycc), n)
    BY <2>2, SimpleProgression
  <2>4. jpeg_simple_progression(n, ycc) \in Seq(ScanType)
    BY <2>2, <2>3, CompleteScript
  <2> QED
    BY <2>1, <2>2, <2>3, <2>4 DEF Asked
<1>3. CASE settle_script
  <2>1. setup'.kind # "asked"
    BY <1>3 DEF settle_script
  <2> QED
    BY <2>1 DEF Asked
<1>4. CASE make_optimal_table
  <2>1. setup'.kind # "asked"
    BY <1>4 DEF make_optimal_table, Refuse
  <2> QED
    BY <2>1 DEF Asked
<1>5. CASE derive_table
  <2>1. setup'.kind # "asked"
    BY <1>5, StartPass
  <2> QED
    BY <2>1 DEF Asked
<1>6. CASE UNCHANGED setup
  BY <1>6 DEF Asked
<1> QED
  BY <1>1, <1>2, <1>3, <1>4, <1>5, <1>6 DEF SetupNext

LEMMA MasterControl ==
  ASSUME Asked, settle_script
  PROVE  ScriptsDecode'
<1> DEFINE script == setup.scans
           n == setup.comps
           progressive == progressive_mode(script)
<1>1. script \in Seq(ScanType) /\ n \in Nat /\ setup.simple \in BOOLEAN
  BY DEF Asked, settle_script
<1>2. ASSUME setup.simple
      PROVE  /\ validate_script(script, n) /\ progressive
             /\ \A c \in 1..n : \A k \in 0..63 : last_bitpos(script, Len(script) + 1, c, k) = 0
  <2>1. n \in Nat \ {0} /\ Complete(script, n)
    BY <1>2, Zenon DEF Asked, settle_script
  <2> QED
    BY <2>1, CompleteScript, Zenon
<1>3. CASE ~validate_script(script, n)
  <2>1. setup' = [kind |-> "refused", simple |-> setup.simple]
    BY <1>3 DEF settle_script
  <2>2. ~setup.simple
    BY <1>2, <1>3, Zenon
  <2> HIDE DEF script, n
  <2> QED
    BY <2>1, <2>2 DEF ScriptsDecode
<1>4. CASE validate_script(script, n)
  <2> DEFINE reduced(lim) == IF lim < DCTSIZE2 - 1 THEN reduce_script(script, lim) ELSE script
  <2>1. PICK lim \in Limits :
          setup' = [kind |-> "scans", simple |-> setup.simple, comps |-> n, asked |-> script,
                    lim |-> lim, progressive |-> progressive, scans |-> reduced(lim)]
    BY <1>4, Zenon DEF settle_script
  <2>2. ASSUME progressive PROVE Sends(script, n, reduced(lim), lim)
    BY <1>1, <1>4, <2>2, Settled, Zenon
  <2>3. lim \in 0..63 /\ \A k \in 0..lim : k \in 0..63
    BY SmallLimits
  <2> HIDE DEF script, n, progressive, reduced
  <2>4. /\ setup'.kind = "scans" /\ setup'.simple = setup.simple /\ setup'.comps = n
        /\ setup'.asked = script /\ setup'.lim = lim /\ setup'.progressive = progressive
        /\ setup'.scans = reduced(lim)
    BY <2>1
  <2>5. ASSUME progressive, NEW c \in 1..n
        PROVE  BitsAfter(reduced(lim), Len(reduced(lim)), c, lim)
                 = [k \in 0..lim |->
                      IF setup.simple THEN 0 ELSE last_bitpos(script, Len(script) + 1, c, k)]
    <3>1. BitsAfter(reduced(lim), Len(reduced(lim)), c, lim)
            = [k \in 0..lim |-> last_bitpos(script, Len(script) + 1, c, k)]
      BY <2>2, <2>5, Zenon DEF Sends
    <3>2. \A k \in 0..lim :
            last_bitpos(script, Len(script) + 1, c, k)
              = IF setup.simple THEN 0 ELSE last_bitpos(script, Len(script) + 1, c, k)
      BY <1>2, <2>3, <2>5, Zenon
    <3> QED
      BY <3>1, <3>2, Zenon
  <2>6. progressive => Decodable(reduced(lim), lim)
    BY <2>2, Zenon DEF Sends
  <2> QED
    BY <1>2, <2>4, <2>5, <2>6, ZenonT(60) DEF ScriptsDecode
<1> QED
  BY <1>3, <1>4

(* Every script the compressor accepts or makes, whatever the scripts it is *)
(* given, is one the decoder takes without an error or a warning, and that  *)
(* brings the coefficients to the bits it was to bring them to.             *)
THEOREM AcceptedScriptsDecode == SetupSpec => []ScriptsDecode
<1>1. SetupInit => ScriptsDecode
  BY DEF SetupInit, ScriptsDecode
<1>2. Asked /\ ScriptsDecode /\ [SetupNext]_setup => ScriptsDecode'
  <2> SUFFICES ASSUME Asked, ScriptsDecode, [SetupNext]_setup PROVE ScriptsDecode'
    OBVIOUS
  <2>1. CASE set_scan_info
    <3>1. setup'.kind = "asked"
      BY <2>1 DEF set_scan_info
    <3> QED
      BY <3>1 DEF ScriptsDecode
  <2>2. CASE simple_progression
    <3>1. setup'.kind = "asked"
      BY <2>2 DEF simple_progression
    <3> QED
      BY <3>1 DEF ScriptsDecode
  <2>3. CASE settle_script
    BY <2>3, MasterControl
  <2>4. CASE make_optimal_table
    <3>1. setup'.kind # "scans" /\ (setup'.kind = "refused" => ~setup'.simple)
      BY <2>4 DEF make_optimal_table, Refuse
    <3> QED
      BY <3>1 DEF ScriptsDecode
  <2>5. CASE derive_table
    <3>1. setup'.kind # "scans" /\ (setup'.kind = "refused" => ~setup'.simple)
      BY <2>5, StartPass
    <3> QED
      BY <3>1 DEF ScriptsDecode
  <2>6. CASE UNCHANGED setup
    BY <2>6 DEF ScriptsDecode
  <2> QED
    BY <2>1, <2>2, <2>3, <2>4, <2>5, <2>6 DEF SetupNext
<1> QED
  BY <1>1, <1>2, AskedInitially, AskedKept, PTL DEF SetupSpec

(***************************************************************************)
(* Optimal tables.                                                         *)
(***************************************************************************)
(* Every count of symbols: of 1 to 254 bytes, none of them coded too often. *)
Proper(freq) ==
  /\ DOMAIN freq \subseteq 0..255 /\ Cardinality(DOMAIN freq) \in 1..254
  /\ freq \in [DOMAIN freq -> Nat \ {0}] /\ Cardinality(Occurrences(freq)) < MAX_WEIGHT
LEMMA EachIsProper == \A freq \in Frequencies : Proper(freq)
BY FrequenciesAssumption DEF Proper

(* Whatever the counts of the symbols, jpeg_gen_optimal_table makes a       *)
(* prefix code of at most 16 bits that both sides accept, and no symbol has *)
(* a longer code than a rarer one, but for those that change places.        *)
THEOREM OptimalTablesAreCodes == SetupSpec => []TablesAreCodes
<1> DEFINE Good(k, freq, size, tbl) ==
             k = "optimal" =>
               /\ ~BadTable(tbl, FALSE) /\ Decodes(DOMAIN freq, CodesOf(tbl))
               /\ Fair(DOMAIN freq, freq, size, CodesOf(tbl))
<1>1. TablesAreCodes <=> Good(setup.kind, setup.freq, setup.size, setup.tbl)
  BY Zenon DEF TablesAreCodes, Decodes, Fair
<1>2. TablesAreCodes' <=> Good(setup'.kind, setup'.freq, setup'.size, setup'.tbl)
  BY Zenon DEF TablesAreCodes, Decodes, Fair
<1> HIDE DEF Good
<1>3. SetupInit => TablesAreCodes
  <2>1. SetupInit => setup.kind # "optimal"
    BY DEF SetupInit
  <2> QED
    BY <1>1, <2>1 DEF Good
<1>4. TablesAreCodes /\ [SetupNext]_setup => TablesAreCodes'
  <2> SUFFICES ASSUME TablesAreCodes, [SetupNext]_setup PROVE TablesAreCodes'
    OBVIOUS
  <2>0. setup'.kind # "optimal" => TablesAreCodes'
    BY <1>2 DEF Good
  <2>1. CASE set_scan_info
    <3>1. setup'.kind # "optimal"
      BY <2>1 DEF set_scan_info
    <3> QED
      BY <2>0, <3>1
  <2>2. CASE simple_progression
    <3>1. setup'.kind # "optimal"
      BY <2>2 DEF simple_progression
    <3> QED
      BY <2>0, <3>1
  <2>3. CASE settle_script
    <3>1. setup'.kind # "optimal"
      BY <2>3 DEF settle_script
    <3> QED
      BY <2>0, <3>1
  <2>4. CASE make_optimal_table
    <3>1. PICK freq \in Frequencies :
            \E size \in {codesizes(Counted(freq))} :
              IF \E s \in DOMAIN size : size[s] > MAX_CLEN THEN Refuse
              ELSE setup' = [kind |-> "optimal", freq |-> freq, size |-> size, tbl |-> TableOf(size)]
      BY <2>4, Zenon DEF make_optimal_table
    <3> DEFINE cs == codesizes(Counted(freq))
               E == DOMAIN freq
    <3>2. IF \E s \in DOMAIN cs : cs[s] > MAX_CLEN THEN Refuse
          ELSE setup' = [kind |-> "optimal", freq |-> freq, size |-> cs, tbl |-> TableOf(cs)]
      BY <3>1, Zenon
    <3>3. /\ E \subseteq 0..255 /\ Cardinality(E) \in 1..254 /\ freq \in [E -> Nat \ {0}]
          /\ Cardinality(Occurrences(freq)) < MAX_WEIGHT
      <4>1. Proper(freq)
        BY EachIsProper, Zenon
      <4> QED
        BY <4>1, Zenon DEF Proper
    <3> HIDE DEF E
    <3>4. SizesOf(E, freq, cs)
      BY <3>3, TreeSizes, Zenon
    <3> HIDE DEF cs
    <3>5. CASE \E s \in DOMAIN cs : cs[s] > MAX_CLEN
      <4>1. setup'.kind # "optimal"
        BY <3>2, <3>5 DEF Refuse
      <4> QED
        BY <2>0, <4>1
    <3>6. CASE ~\E s \in DOMAIN cs : cs[s] > MAX_CLEN
      <4>1. setup' = [kind |-> "optimal", freq |-> freq, size |-> cs, tbl |-> TableOf(cs)]
        BY <3>2, <3>6, Zenon
      <4>2. setup'.freq = freq /\ setup'.size = cs /\ setup'.tbl = TableOf(cs)
        BY <4>1
      <4>3. /\ ~BadTable(TableOf(cs), FALSE) /\ Decodes(E, CodesOf(TableOf(cs)))
            /\ Fair(E, freq, cs, CodesOf(TableOf(cs)))
        BY <3>3, <3>4, <3>6, OptimalIs
      <4> QED
        BY <1>2, <4>2, <4>3, Zenon DEF Good, E
    <3> QED
      BY <3>5, <3>6
  <2>5. CASE derive_table
    <3>1. setup'.kind # "optimal"
      BY <2>5, StartPass
    <3> QED
      BY <2>0, <3>1
  <2>6. CASE UNCHANGED setup
    BY <1>1, <1>2, <2>6
  <2> QED
    BY <2>1, <2>2, <2>3, <2>4, <2>5, <2>6 DEF SetupNext
<1> QED
  BY <1>3, <1>4, PTL DEF SetupSpec
============================================================================
