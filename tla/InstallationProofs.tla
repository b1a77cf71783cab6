------------------------- MODULE InstallationProofs -------------------------
(***************************************************************************)
(* Proofs about what a user sets up: the skills and the prompt made from   *)
(* them, the files of the sandbox, the workspaces and the channels of      *)
(* config.yaml; then the types of these and of a running gateway (proved   *)
(* in GatewayProofs), as MCInstallation composes them.                     *)
(***************************************************************************)
EXTENDS MCInstallation, GatewayProofs, FiniteSetTheorems, SequenceTheorems, WellFoundedInduction

-----------------------------------------------------------------------------
(***************************************************************************)
(* The system prompt, for any lines and any skills.                        *)
(*                                                                         *)
(* A prompt is cut at its first header and at the next heading             *)
(* (SectionReplaced).  What is counted are the fences before a line: lines *)
(* put in where a line stands outside blocks of code have the blocks they  *)
(* have by themselves (StandsCode), and when they leave none open nothing  *)
(* after them moves in or out of one (CodeAfter).  So the lines before the *)
(* section stay first (AheadKept), those after it stay in one piece, right *)
(* after no header (BehindKept), and a section without headings leaves a   *)
(* tidy prompt tidy (OwnLinesKept).                                        *)
(***************************************************************************)

LEMMA LeastIn ==
    ASSUME NEW S, S \subseteq Nat, S # {}
    PROVE  Least(S) \in S /\ \A j \in S : Least(S) <= j
<1>1. PICK i \in S : \A j \in S : ~ (<<j, i>> \in OpToRel(<, Nat))
  BY NatLessThanWellFounded, WFMin
<1>2. \A j \in S : ~(j < i)
  BY <1>1 DEF OpToRel
<1>3. \A j \in S : j \in Nat
  OBVIOUS
<1>4. \A j \in S : i <= j
  BY <1>2, <1>3
<1>. QED BY <1>4 DEF Least

LEMMA ExtremesAre ==
    ASSUME NEW S, S \subseteq Int, NEW i \in S
    PROVE  /\ (\A j \in S : i <= j) => Least(S) = i
           /\ (\A j \in S : j <= i) => Greatest(S) = i
<1>0. \A j \in S : j \in Int
  OBVIOUS
<1>1. ASSUME \A j \in S : i <= j PROVE Least(S) = i
  <2>1. \A k \in S : (\A j \in S : k <= j) => k = i
    BY <1>0, <1>1
  <2>2. Least(S) \in S /\ \A j \in S : Least(S) <= j
    BY <1>1 DEF Least
  <2>. QED BY <2>1, <2>2
<1>2. ASSUME \A j \in S : j <= i PROVE Greatest(S) = i
  <2>1. \A k \in S : (\A j \in S : j <= k) => k = i
    BY <1>0, <1>2
  <2>2. Greatest(S) \in S /\ \A j \in S : j <= Greatest(S)
    BY <1>2 DEF Greatest
  <2>. QED BY <2>1, <2>2
<1>. QED BY <1>1, <1>2

(* The fences of the lines a, ..., b - 1. *)
Fences(p, a, b) == {j \in a .. (b - 1) : p[j].kind = "fence"}

LEMMA FencesFinite ==
    ASSUME NEW p, NEW a \in Int, NEW b \in Int
    PROVE  IsFiniteSet(Fences(p, a, b)) /\ Cardinality(Fences(p, a, b)) \in Nat
<1>1. b - 1 \in Int /\ IsFiniteSet(a .. (b - 1))
  BY FS_Interval
<1>2. Fences(p, a, b) \in SUBSET (a .. (b - 1))
  BY DEF Fences
<1>. QED BY <1>1, <1>2, FS_Subset, FS_CardinalityType

LEMMA FencesSplit ==
    ASSUME NEW p, NEW a \in Int, NEW b \in Int, NEW c \in Int, a <= b, b <= c
    PROVE  Cardinality(Fences(p, a, c)) = Cardinality(Fences(p, a, b)) + Cardinality(Fences(p, b, c))
<1>1. Fences(p, a, c) = Fences(p, a, b) \cup Fences(p, b, c)
  BY DEF Fences
<1>2. Fences(p, a, b) \cap Fences(p, b, c) = {}
  BY DEF Fences
<1>3. Cardinality({}) = 0
  BY FS_EmptySet
<1>4. /\ IsFiniteSet(Fences(p, a, b)) /\ Cardinality(Fences(p, a, b)) \in Nat
      /\ IsFiniteSet(Fences(p, b, c)) /\ Cardinality(Fences(p, b, c)) \in Nat
  BY FencesFinite
<1>5. Cardinality(Fences(p, a, b) \cup Fences(p, b, c)) =
         Cardinality(Fences(p, a, b)) + Cardinality(Fences(p, b, c))
            - Cardinality(Fences(p, a, b) \cap Fences(p, b, c))
  BY <1>4, FS_Union
<1>. QED BY <1>1, <1>2, <1>3, <1>4, <1>5

LEMMA FencesSame ==
    ASSUME NEW p, NEW q, NEW a \in Int, NEW b \in Int,
           \A j \in a .. (b - 1) : q[j].kind = p[j].kind
    PROVE  Fences(q, a, b) = Fences(p, a, b)
BY DEF Fences

(* The lines a, ..., b - 1 of p are d lines further on in q. *)
Moved(p, q, a, b, d) == \A j \in a .. (b - 1) : q[j + d].kind = p[j].kind

LEMMA FencesShift ==
    ASSUME NEW p, NEW q, NEW a \in Int, NEW b \in Int, NEW d \in Int,
           NEW c, NEW e, c = a + d, e = b + d,
           Moved(p, q, a, b, d)
    PROVE  Cardinality(Fences(q, c, e)) = Cardinality(Fences(p, a, b))
<1>0. \A j \in a .. (b - 1) : q[j + d].kind = p[j].kind
  BY DEF Moved
<1>. DEFINE S == Fences(p, a, b)
            T == Fences(q, c, e)
            f == [j \in S |-> j + d]
<1>1. ASSUME NEW j \in S PROVE f[j] \in T
  <2>1. j \in a .. (b - 1) /\ p[j].kind = "fence"
    BY DEF Fences
  <2>2. j + d \in c .. (e - 1)
    BY <2>1
  <2>. QED BY <2>1, <2>2, <1>0 DEF Fences
<1>2. ASSUME NEW k \in T PROVE \E j \in S : f[j] = k
  <2>1. k \in c .. (e - 1) /\ q[k].kind = "fence"
    BY DEF Fences
  <2>2. k - d \in a .. (b - 1) /\ (k - d) + d = k
    BY <2>1
  <2>3. k - d \in S
    BY <2>1, <2>2, <1>0 DEF Fences
  <2>. QED BY <2>2, <2>3
<1>3. \A i, j \in S : f[i] = f[j] => i = j
  <2>1. \A i \in S : i \in Int /\ f[i] = i + d
    BY DEF Fences
  <2>2. ASSUME NEW i \in S, NEW j \in S, f[i] = f[j] PROVE i = j
    <3>1. i \in Int /\ j \in Int /\ d \in Int /\ i + d = j + d
      BY <2>1, <2>2
    <3>. QED BY <3>1
  <2>. QED BY <2>2
<1>. HIDE DEF S, T
<1>4. f \in Bijection(S, T)
  <2>1. f \in [S -> T]
    BY <1>1
  <2>. HIDE DEF f
  <2>. QED BY <2>1, <1>2, <1>3, Zenon DEF Bijection, Injection, Surjection, IsInjective
<1>5. ExistsBijection(S, T)
  BY <1>4 DEF ExistsBijection
<1>6. IsFiniteSet(S)
  BY FencesFinite DEF S
<1>. QED BY <1>5, <1>6, FS_Bijection DEF S, T

LEMMA InsideIs ==
    ASSUME NEW p, NEW i
    PROVE  InsideCode(p, i) <=> Cardinality(Fences(p, 1, i)) % 2 = 1
BY DEF InsideCode, Fences

LEMMA Parity ==
    ASSUME NEW x \in Nat, NEW y \in Nat, NEW z \in Nat, x % 2 # 1, y % 2 # 1
    PROVE  ((x + z) % 2 = 1) <=> ((y + z) % 2 = 1)
OBVIOUS

(* The section of a prompt: from its first header m to the line e. *)
EndsAt(p, m, e) ==
    /\ m \in Headers(p) /\ \A n \in Headers(p) : m <= n
    /\ e \in (m + 1) .. (Len(p) + 1)
    /\ \A j \in (m + 1) .. (e - 1) : p[j].kind \notin {"heading", "marker"} \/ InsideCode(p, j)
    /\ e <= Len(p) => p[e].kind \in {"heading", "marker"} /\ ~InsideCode(p, e)

LEMMA SectionIs ==
    ASSUME NEW p \in Seq(Line), NEW m, NEW e, EndsAt(p, m, e)
    PROVE  /\ LinesBefore(p) = SubSeq(p, 1, m - 1)
           /\ LinesAfter(p) = SubSeq(p, e, Len(p))
<1>. DEFINE section == SectionOf(p)
<1>1. Len(p) \in Nat /\ DOMAIN p = 1 .. Len(p)
  OBVIOUS
<1>2. /\ m \in Headers(p) /\ m \in 1 .. Len(p) /\ \A n \in Headers(p) : m <= n
      /\ \A n \in Headers(p) : n \in 1 .. Len(p)
  BY <1>1 DEF EndsAt, Headers
<1>3. e \in Int /\ m < e /\ e <= Len(p) + 1
  BY <1>1, <1>2 DEF EndsAt
<1>4. ASSUME NEW i \in m .. (e - 1) PROVE i \in section
  <2>1. i \in 1 .. Len(p) /\ m <= i
    BY <1>1, <1>2, <1>3
  <2>2. ASSUME NEW j \in (m + 1) .. i, p[j].kind \in {"heading", "marker"}
        PROVE  InsideCode(p, j)
    <3>1. j \in (m + 1) .. (e - 1)
      BY <1>2, <1>3
    <3>. QED BY <2>2, <3>1 DEF EndsAt
  <2>. QED BY <2>1, <2>2, <1>1, <1>2 DEF SectionOf
<1>5. ASSUME NEW i \in section PROVE i \in m .. (e - 1)
  <2>1. i \in 1 .. Len(p)
    BY <1>1 DEF SectionOf
  <2>2. PICK n \in Headers(p) :
           /\ n <= i /\ \A l \in Headers(p) : n <= l
           /\ \A j \in (n + 1) .. i : p[j].kind \in {"heading", "marker"} => InsideCode(p, j)
    BY DEF SectionOf
  <2>3. n = m
    <3>1. n \in 1 .. Len(p) /\ m \in 1 .. Len(p)
      BY <2>2, <1>2
    <3>2. n <= m /\ m <= n
      BY <2>2, <1>2
    <3>. QED BY <3>1, <3>2, <1>1
  <2>4. ASSUME e <= i PROVE FALSE
    <3>1. e \in (n + 1) .. i /\ e <= Len(p)
      BY <2>1, <2>3, <2>4, <1>1, <1>2, <1>3
    <3>2. p[e].kind \in {"heading", "marker"} /\ ~InsideCode(p, e)
      BY <3>1 DEF EndsAt
    <3>. QED BY <2>2, <3>1, <3>2
  <2>. QED BY <2>1, <2>2, <2>3, <2>4, <1>1, <1>2, <1>3
<1>6. section = m .. (e - 1)
  <2>. HIDE DEF section
  <2>. QED BY <1>4, <1>5
<1>7. m \in section /\ e - 1 \in section /\ section \subseteq Int
  BY <1>1, <1>2, <1>3, <1>6
<1>8. Least(section) = m /\ Greatest(section) = e - 1
  <2>1. \A j \in section : m <= j /\ j <= e - 1
    BY <1>2, <1>3, <1>6
  <2>. HIDE DEF section
  <2>. QED BY <1>7, <2>1, ExtremesAre
<1>9. section # {} /\ (e - 1) + 1 = e
  BY <1>3, <1>7
<1>. QED BY <1>8, <1>9 DEF LinesBefore, LinesAfter

LEMMA NoSectionIs ==
    ASSUME NEW p \in Seq(Line), Headers(p) = {}
    PROVE  LinesBefore(p) = p /\ LinesAfter(p) = <<>>
<1>1. SectionOf(p) = {}
  BY DEF SectionOf
<1>. QED BY <1>1 DEF LinesBefore, LinesAfter

LEMMA HeaderAt ==
    ASSUME NEW p \in Seq(Line), NEW i
    PROVE  i \in Headers(p) <=> i \in 1 .. Len(p) /\ p[i].kind = "marker" /\ ~InsideCode(p, i)
BY DEF Headers

LEMMA FirstHeader ==
    ASSUME NEW p \in Seq(Line), Headers(p) # {}
    PROVE  Least(Headers(p)) \in Headers(p) /\ \A n \in Headers(p) : Least(Headers(p)) <= n
<1>1. Headers(p) \subseteq Nat
  BY HeaderAt
<1>. QED BY <1>1, LeastIn

LEMMA SectionEnds ==
    ASSUME NEW p \in Seq(Line), Headers(p) # {}
    PROVE  \E e : EndsAt(p, Least(Headers(p)), e)
<1>. DEFINE m == Least(Headers(p))
            ends == {i \in 1 .. Len(p) : /\ i > m /\ p[i].kind \in {"heading", "marker"}
                                         /\ ~InsideCode(p, i)}
            e == IF ends = {} THEN Len(p) + 1 ELSE Least(ends)
<1>1. m \in Headers(p) /\ \A n \in Headers(p) : m <= n
  BY FirstHeader
<1>2. m \in 1 .. Len(p) /\ Len(p) \in Nat
  BY <1>1, HeaderAt
<1>. HIDE DEF m
<1>3. ends # {} => Least(ends) \in ends /\ \A j \in ends : Least(ends) <= j
  <2>1. ends \subseteq Nat
    OBVIOUS
  <2>. HIDE DEF ends
  <2>. QED BY <2>1, LeastIn
<1>4. \A i : i \in ends <=> /\ i \in 1 .. Len(p) /\ i > m
                            /\ p[i].kind \in {"heading", "marker"} /\ ~InsideCode(p, i)
  OBVIOUS
<1>. HIDE DEF ends
<1>5. e \in (m + 1) .. (Len(p) + 1) /\ (e <= Len(p) => e \in ends)
  BY <1>2, <1>3, <1>4
<1>6. \A j \in ends : e <= j
  BY <1>3
<1>. HIDE DEF e
<1>7. ASSUME NEW j \in (m + 1) .. (e - 1)
      PROVE  p[j].kind \notin {"heading", "marker"} \/ InsideCode(p, j)
  <2>1. j \in 1 .. Len(p) /\ j > m /\ ~(e <= j)
    BY <1>2, <1>5
  <2>. QED BY <2>1, <1>4, <1>6
<1>8. EndsAt(p, m, e)
  BY <1>1, <1>4, <1>5, <1>7 DEF EndsAt
<1>. QED BY <1>8 DEF m

(* Lines that stand in a prompt outside blocks of code have the same lines in  *)
(* blocks of code as by themselves. *)
LEMMA StandsCode ==
    ASSUME NEW p \in Seq(Line), NEW s \in Seq(Line), NEW k \in Nat, 1 <= k,
           StandAt(p, k, s), ~InsideCode(p, k), NEW i \in 1 .. (Len(s) + 1)
    PROVE  InsideCode(p, (k - 1) + i) <=> InsideCode(s, i)
<1>. DEFINE d == k - 1
            x == Cardinality(Fences(p, 1, k))
            z == Cardinality(Fences(s, 1, i))
<1>0. Len(s) \in Nat /\ DOMAIN s = 1 .. Len(s) /\ DOMAIN p = 1 .. Len(p)
  OBVIOUS
<1>1. /\ d \in Int /\ i \in Int /\ 1 <= i /\ k = 1 + d /\ k \in Int
      /\ d + i \in Int /\ k <= d + i /\ d + i = i + d
  BY <1>0
<1>2. Cardinality(Fences(p, 1, d + i)) = x + Cardinality(Fences(p, k, d + i))
  <2>. HIDE DEF d
  <2>. QED BY <1>1, FencesSplit
<1>3. Cardinality(Fences(p, k, d + i)) = z
  <2>1. ASSUME NEW j \in 1 .. (i - 1) PROVE p[j + d].kind = s[j].kind
    <3>1. j \in DOMAIN s /\ k + j - 1 = j + d
      BY <1>0
    <3>2. p[k + j - 1] = s[j]
      BY <3>1 DEF StandAt
    <3>. QED BY <3>1, <3>2
  <2>. HIDE DEF d
  <2>2. Moved(s, p, 1, i, d)
    BY <2>1 DEF Moved
  <2>. HIDE DEF z
  <2>3. Cardinality(Fences(p, k, d + i)) = Cardinality(Fences(s, 1, i))
    BY <2>2, <1>1, FencesShift
  <2>. QED BY <2>3 DEF z
<1>4. x \in Nat /\ z \in Nat
  BY <1>1, FencesFinite
<1>5. x % 2 # 1
  BY InsideIs
<1>. HIDE DEF d, x, z
<1>6. ((x + z) % 2 = 1) <=> ((0 + z) % 2 = 1)
  BY <1>4, <1>5, Parity
<1>7. 0 + z = z
  BY <1>4
<1>8. InsideCode(p, d + i) <=> (x + z) % 2 = 1
  BY <1>2, <1>3, InsideIs
<1>9. InsideCode(s, i) <=> z % 2 = 1
  BY InsideIs DEF z
<1>. QED BY <1>6, <1>7, <1>8, <1>9 DEF d

LEMMA OutsideFirst == ASSUME NEW p PROVE ~InsideCode(p, 1)
<1>1. Fences(p, 1, 1) = {}
  BY DEF Fences
<1>2. Cardinality(Fences(p, 1, 1)) = 0
  BY <1>1, FS_EmptySet
<1>. QED BY <1>2, InsideIs

(* So their headers are headers of the prompt, and no others stand among them. *)
LEMMA StandsHeaders ==
    ASSUME NEW p \in Seq(Line), NEW s \in Seq(Line), NEW k \in Nat, 1 <= k,
           StandAt(p, k, s), ~InsideCode(p, k), NEW i \in 1 .. Len(s)
    PROVE  i \in Headers(s) <=> (k - 1) + i \in Headers(p)
<1>1. Len(s) \in Nat /\ DOMAIN s = 1 .. Len(s) /\ Len(p) \in Nat
  OBVIOUS
<1>2. p[k + i - 1] = s[i] /\ k + Len(s) - 1 <= Len(p)
  BY <1>1 DEF StandAt
<1>3. k + i - 1 = (k - 1) + i /\ (k - 1) + i \in 1 .. Len(p) /\ i \in 1 .. (Len(s) + 1)
  BY <1>1, <1>2
<1>4. InsideCode(p, (k - 1) + i) <=> InsideCode(s, i)
  BY <1>3, StandsCode
<1>. QED BY <1>2, <1>3, <1>4, HeaderAt

LEMMA SubSeqIs ==
    ASSUME NEW p \in Seq(Line), NEW a \in Int, NEW b \in Int, 1 <= a, a <= b + 1, b <= Len(p)
    PROVE  /\ SubSeq(p, a, b) \in Seq(Line) /\ Len(SubSeq(p, a, b)) = b - a + 1
           /\ \A i \in 1 .. (b - a + 1) : SubSeq(p, a, b)[i] = p[a + i - 1]
           /\ StandAt(p, a, SubSeq(p, a, b))
<1>. DEFINE t == SubSeq(p, a, b)
<1>1. \A i \in a .. b : p[i] \in Line
  BY ElementOfSeq
<1>2. /\ t \in Seq(Line) /\ Len(t) = IF a <= b THEN b - a + 1 ELSE 0
      /\ \A i \in 1 .. (b - a + 1) : t[i] = p[a + i - 1]
  BY <1>1, SubSeqProperties
<1>3. Len(t) = b - a + 1
  BY <1>2
<1>. HIDE DEF t
<1>4. DOMAIN t = 1 .. (b - a + 1)
  BY <1>2, <1>3
<1>5. StandAt(p, a, t)
  BY <1>2, <1>3, <1>4 DEF StandAt
<1>. QED BY <1>2, <1>3, <1>5 DEF t

(* The same lines, d lines further on. *)
LEMMA SubSeqShift ==
    ASSUME NEW p \in Seq(Line), NEW q \in Seq(Line), NEW a \in Int, NEW b \in Int, NEW d \in Int,
           NEW c \in Int, NEW f \in Int, c = a + d, f = b + d, a <= b + 1, 1 <= a, b <= Len(p),
           1 <= c, f <= Len(q), \A j \in a .. b : q[j + d] = p[j]
    PROVE  SubSeq(q, c, f) = SubSeq(p, a, b)
<1>. DEFINE s == SubSeq(p, a, b)
            t == SubSeq(q, c, f)
<1>1. /\ s \in Seq(Line) /\ Len(s) = b - a + 1
      /\ \A i \in 1 .. (b - a + 1) : s[i] = p[a + i - 1]
  BY SubSeqIs
<1>2. /\ t \in Seq(Line) /\ Len(t) = f - c + 1
      /\ \A i \in 1 .. (f - c + 1) : t[i] = q[c + i - 1]
  <2>1. c <= f + 1
    OBVIOUS
  <2>. QED BY <2>1, SubSeqIs
<1>. HIDE DEF s, t
<1>3. f - c + 1 = b - a + 1
  OBVIOUS
<1>4. ASSUME NEW i \in 1 .. (b - a + 1) PROVE t[i] = s[i]
  <2>1. a + i - 1 \in a .. b /\ (a + i - 1) + d = c + i - 1
    OBVIOUS
  <2>2. q[(a + i - 1) + d] = p[a + i - 1]
    BY <2>1
  <2>. QED BY <2>1, <2>2, <1>1, <1>2, <1>3
<1>5. t = s
  BY <1>1, <1>2, <1>3, <1>4, SeqEqual
<1>. QED BY <1>5 DEF s, t

(* Where a prompt is cut: at its first header m, or at its end, and at the line *)
(* e from which on it is kept. *)
CutAt(p, m, e) ==
    /\ m \in 1 .. (Len(p) + 1) /\ e \in m .. (Len(p) + 1)
    /\ \A n \in Headers(p) : m <= n
    /\ Headers(p) = {} => m = Len(p) + 1
    /\ m <= Len(p) => m \in Headers(p) /\ m < e /\ \A j \in EndsOf(p, m) : e <= j
    /\ e <= Len(p) => e \in EndsOf(p, m)

LEMMA CutSomewhere ==
    ASSUME NEW p \in Seq(Line)
    PROVE  \E m, e : CutAt(p, m, e) /\ Cut(p) = <<SubSeq(p, 1, m - 1), SubSeq(p, e, Len(p))>>
<1>1. Len(p) \in Nat /\ DOMAIN p = 1 .. Len(p)
  OBVIOUS
<1>2. CASE Headers(p) = {}
  <2>. DEFINE n == Len(p) + 1
  <2>1. n - 1 = Len(p) /\ n \in 1 .. (Len(p) + 1) /\ n \in n .. (Len(p) + 1) /\ Len(p) < n
        /\ ~(n <= Len(p))
    BY <1>1
  <2>2. SubSeq(p, 1, Len(p)) = p
    BY SubSeqFull
  <2>3. SubSeq(p, n, Len(p)) = <<>>
    BY <2>1, SubSeqEmpty
  <2>4. Cut(p) = <<p, <<>>>>
    BY <1>2 DEF Cut
  <2>5. CutAt(p, n, n)
    BY <2>1, <1>2 DEF CutAt
  <2>. QED BY <2>1, <2>2, <2>3, <2>4, <2>5
<1>3. CASE Headers(p) # {}
  <2>. DEFINE m == Least(Headers(p))
              ends == EndsOf(p, m)
              e == IF ends = {} THEN Len(p) + 1 ELSE Least(ends)
  <2>1. m \in Headers(p) /\ \A n \in Headers(p) : m <= n
    BY <1>3, FirstHeader
  <2>2. m \in 1 .. Len(p)
    BY <2>1, HeaderAt
  <2>3. Cut(p) = <<SubSeq(p, 1, m - 1), IF ends = {} THEN <<>> ELSE SubSeq(p, Least(ends), Len(p))>>
    BY <1>3 DEF Cut
  <2>. HIDE DEF m
  <2>4. \A i \in ends : i \in 1 .. Len(p) /\ i > m + 1
    BY <1>1 DEF EndsOf
  <2>5. ends # {} => Least(ends) \in ends /\ \A j \in ends : Least(ends) <= j
    <3>1. ends \subseteq Nat
      BY <2>4
    <3>. QED BY <3>1, LeastIn
  <2>. HIDE DEF ends
  <2>6. e \in (m + 1) .. (Len(p) + 1) /\ (e <= Len(p) => e \in ends) /\ \A j \in ends : e <= j
    BY <2>2, <2>4, <2>5, <1>1
  <2>7. Cut(p) = <<SubSeq(p, 1, m - 1), SubSeq(p, e, Len(p))>>
    <3>1. SubSeq(p, Len(p) + 1, Len(p)) = <<>>
      BY <1>1, SubSeqEmpty
    <3>. QED BY <2>3, <3>1
  <2>. HIDE DEF e
  <2>8. m \in 1 .. (Len(p) + 1) /\ e \in m .. (Len(p) + 1) /\ m < e
    BY <2>2, <2>6, <1>1
  <2>9. CutAt(p, m, e)
    BY <1>3, <2>1, <2>6, <2>8 DEF CutAt, ends
  <2>. QED BY <2>7, <2>9
<1>. QED BY <1>2, <1>3

(* q is p with the lines s in the place of its lines m, ..., e - 1. *)
Spliced(p, q, s, m, e) ==
    /\ q \in Seq(Line) /\ Len(q) = Len(p) + (m + Len(s) - e)
    /\ \A i \in 1 .. (m - 1) : q[i] = p[i]
    /\ \A i \in m .. (m + Len(s) - 1) : q[i] = s[i - m + 1]
    /\ \A i \in (m + Len(s)) .. Len(q) : q[i] = p[i - (m + Len(s) - e)]

LEMMA SectionReplaced ==
    ASSUME NEW p \in Seq(Line), NEW s \in Seq(Line)
    PROVE  \E m, e : /\ CutAt(p, m, e) /\ Cut(p) = <<SubSeq(p, 1, m - 1), SubSeq(p, e, Len(p))>>
                     /\ Spliced(p, ReplaceSection(p, s), s, m, e)
<1>0. PICK m, e : CutAt(p, m, e) /\ Cut(p) = <<SubSeq(p, 1, m - 1), SubSeq(p, e, Len(p))>>
  BY CutSomewhere
<1>. DEFINE n == Len(p)
            k == Len(s)
            A == SubSeq(p, 1, m - 1)
            B == SubSeq(p, e, Len(p))
            q == A \o s \o B
            d == m + k - e
<1>1. /\ n \in Nat /\ k \in Nat /\ m \in Int /\ e \in Int
      /\ 1 <= m /\ m <= e /\ e <= n + 1
  BY <1>0 DEF CutAt
<1>2. \A i \in 1 .. n : p[i] \in Line
  OBVIOUS
<1>3. A \in Seq(Line) /\ Len(A) = m - 1 /\ \A i \in 1 .. (m - 1) : A[i] = p[i]
  <2>1. \A i \in 1 .. (m - 1) : p[i] \in Line
    BY <1>1, <1>2
  <2>2. m - 1 \in Int
    BY <1>1
  <2>3. /\ A \in Seq(Line) /\ Len(A) = IF 1 <= m - 1 THEN (m - 1) - 1 + 1 ELSE 0
        /\ \A i \in 1 .. ((m - 1) - 1 + 1) : A[i] = p[1 + i - 1]
    BY <2>1, <2>2, SubSeqProperties
  <2>4. ASSUME NEW i \in 1 .. (m - 1) PROVE A[i] = p[i]
    <3>1. i \in 1 .. ((m - 1) - 1 + 1) /\ 1 + i - 1 = i
      BY <1>1
    <3>. QED BY <2>3, <3>1
  <2>5. Len(A) = m - 1
    BY <2>3, <1>1
  <2>. QED BY <2>3, <2>4, <2>5
<1>4. B \in Seq(Line) /\ Len(B) = n - e + 1 /\ \A i \in 1 .. (n - e + 1) : B[i] = p[e + i - 1]
  <2>1. \A i \in e .. n : p[i] \in Line
    BY <1>1, <1>2
  <2>2. /\ B \in Seq(Line) /\ Len(B) = IF e <= n THEN n - e + 1 ELSE 0
        /\ \A i \in 1 .. (n - e + 1) : B[i] = p[e + i - 1]
    BY <2>1, <1>1, SubSeqProperties
  <2>3. Len(B) = n - e + 1
    BY <2>2, <1>1
  <2>. QED BY <2>2, <2>3
<1>7. ReplaceSection(p, s) = q
  <2>1. Cut(p) = <<A, B>>
    BY <1>0
  <2>. HIDE DEF A, B
  <2>2. Cut(p)[1] = A /\ Cut(p)[2] = B
    BY <2>1
  <2>. QED BY <2>2 DEF ReplaceSection
<1>. HIDE DEF A, B
<1>5. /\ q \in Seq(Line) /\ Len(q) = n + d
      /\ \A i \in 1 .. (m - 1) : q[i] = p[i]
      /\ \A i \in m .. (m + k - 1) : q[i] = s[i - m + 1]
      /\ \A i \in (m + k) .. (n + d) : q[i] = p[i - d]
  <2>. DEFINE As == A \o s
  <2>1. /\ As \in Seq(Line) /\ Len(As) = (m - 1) + k
        /\ \A i \in 1 .. ((m - 1) + k) : As[i] = IF i <= m - 1 THEN A[i] ELSE s[i - (m - 1)]
    <3>1. /\ As \in Seq(Line) /\ Len(As) = Len(A) + Len(s)
          /\ \A i \in 1 .. (Len(A) + Len(s)) : As[i] = IF i <= Len(A) THEN A[i] ELSE s[i - Len(A)]
      BY <1>3, ConcatProperties
    <3>. HIDE DEF As
    <3>. QED BY <3>1, <1>3
  <2>. HIDE DEF As
  <2>2. /\ As \o B \in Seq(Line) /\ Len(As \o B) = ((m - 1) + k) + (n - e + 1)
        /\ \A i \in 1 .. (((m - 1) + k) + (n - e + 1)) :
              (As \o B)[i] = IF i <= (m - 1) + k THEN As[i] ELSE B[i - ((m - 1) + k)]
    <3>1. /\ As \o B \in Seq(Line) /\ Len(As \o B) = Len(As) + Len(B)
          /\ \A i \in 1 .. (Len(As) + Len(B)) :
                (As \o B)[i] = IF i <= Len(As) THEN As[i] ELSE B[i - Len(As)]
      BY <2>1, <1>4, ConcatProperties
    <3>. HIDE DEF B
    <3>. QED BY <3>1, <2>1, <1>4
  <2>3. q = As \o B
    BY DEF As
  <2>. HIDE DEF q
  <2>4. q \in Seq(Line) /\ Len(q) = n + d
    <3>1. Len(q) = ((m - 1) + k) + (n - e + 1) /\ q \in Seq(Line)
      BY <2>2, <2>3
    <3>2. ((m - 1) + k) + (n - e + 1) = n + d
      BY <1>1
    <3>. QED BY <3>1, <3>2
  <2>5. ASSUME NEW i \in 1 .. (m - 1) PROVE q[i] = p[i]
    <3>1. i \in 1 .. (((m - 1) + k) + (n - e + 1)) /\ i <= (m - 1) + k
          /\ i \in 1 .. ((m - 1) + k) /\ i <= m - 1
      BY <1>1
    <3>. QED BY <3>1, <2>1, <2>2, <2>3, <1>3
  <2>6. ASSUME NEW i \in m .. (m + k - 1) PROVE q[i] = s[i - m + 1]
    <3>1. i \in 1 .. (((m - 1) + k) + (n - e + 1)) /\ i <= (m - 1) + k
          /\ i \in 1 .. ((m - 1) + k) /\ ~(i <= m - 1) /\ i - (m - 1) = i - m + 1
      BY <1>1
    <3>. QED BY <3>1, <2>1, <2>2, <2>3
  <2>7. ASSUME NEW i \in (m + k) .. (n + d) PROVE q[i] = p[i - d]
    <3>. DEFINE j == i - ((m - 1) + k)
    <3>1. i \in 1 .. (((m - 1) + k) + (n - e + 1)) /\ ~(i <= (m - 1) + k)
          /\ j \in 1 .. (n - e + 1) /\ e + j - 1 = i - d
      BY <1>1
    <3>. HIDE DEF j
    <3>2. q[i] = B[j]
      BY <3>1, <2>2, <2>3 DEF j
    <3>. QED BY <3>1, <3>2, <1>4
  <2>. QED BY <2>4, <2>5, <2>6, <2>7
<1>6. Spliced(p, q, s, m, e)
  <2>. HIDE DEF q
  <2>. QED BY <1>5 DEF Spliced
<1>. QED BY <1>0, <1>6, <1>7

LEMMA SplicedNumbers ==
    ASSUME NEW p \in Seq(Line), NEW q, NEW s \in Seq(Line), NEW m, NEW e,
           CutAt(p, m, e), Spliced(p, q, s, m, e)
    PROVE  /\ Len(p) \in Nat /\ Len(s) \in Nat /\ Len(q) \in Nat /\ m \in Nat /\ e \in Nat
           /\ 1 <= m /\ m <= e /\ e <= Len(p) + 1
           /\ Len(q) = Len(p) + (m + Len(s) - e) /\ DOMAIN q = 1 .. Len(q)
BY DEF CutAt, Spliced

(* Before the new lines, nothing moves in or out of a block of code ... *)
LEMMA CodeBefore ==
    ASSUME NEW p \in Seq(Line), NEW q, NEW s \in Seq(Line), NEW m, NEW e,
           CutAt(p, m, e), Spliced(p, q, s, m, e), NEW i \in 1 .. m
    PROVE  InsideCode(q, i) <=> InsideCode(p, i)
<1>1. m \in Nat
  BY SplicedNumbers
<1>2. ASSUME NEW j \in 1 .. (i - 1) PROVE q[j].kind = p[j].kind
  <2>1. j \in 1 .. (m - 1)
    BY <1>1
  <2>. QED BY <2>1 DEF Spliced
<1>3. Fences(q, 1, i) = Fences(p, 1, i)
  BY <1>1, <1>2, FencesSame
<1>. QED BY <1>3, InsideIs

(* ... in them, it is as they have it by themselves ... *)
LEMMA CodeIn ==
    ASSUME NEW p \in Seq(Line), NEW q, NEW s \in Seq(Line), NEW m, NEW e,
           CutAt(p, m, e), Spliced(p, q, s, m, e), ~InsideCode(p, m),
           NEW i \in 1 .. (Len(s) + 1)
    PROVE  InsideCode(q, (m - 1) + i) <=> InsideCode(s, i)
<1>0. /\ Len(p) \in Nat /\ Len(s) \in Nat /\ Len(q) \in Nat /\ m \in Nat /\ e \in Nat
      /\ 1 <= m /\ m <= e /\ e <= Len(p) + 1 /\ Len(q) = Len(p) + (m + Len(s) - e)
  BY SplicedNumbers
<1>1. m \in 1 .. m /\ m + Len(s) - 1 <= Len(q)
  BY <1>0
<1>2. ~InsideCode(q, m)
  BY <1>1, CodeBefore
<1>3. ASSUME NEW j \in DOMAIN s PROVE q[m + j - 1] = s[j]
  <2>1. j \in 1 .. Len(s)
    OBVIOUS
  <2>2. m + j - 1 \in m .. (m + Len(s) - 1) /\ (m + j - 1) - m + 1 = j
    BY <1>0, <2>1
  <2>. QED BY <2>2 DEF Spliced
<1>4. StandAt(q, m, s)
  BY <1>1, <1>3 DEF StandAt
<1>5. q \in Seq(Line)
  BY DEF Spliced
<1>. QED BY <1>0, <1>2, <1>4, <1>5, StandsCode

(* ... and after them it is as it was, when they leave no block of code open. *)
LEMMA CodeAfter ==
    ASSUME NEW p \in Seq(Line), NEW q, NEW s \in Seq(Line), NEW m, NEW e,
           CutAt(p, m, e), Spliced(p, q, s, m, e), ~InsideCode(p, m), ~InsideCode(p, e),
           ~InsideCode(s, Len(s) + 1), NEW i \in e .. (Len(p) + 1)
    PROVE  InsideCode(q, i + (m + Len(s) - e)) <=> InsideCode(p, i)
<1>. DEFINE d == m + Len(s) - e
            c == m + Len(s)
            x == Cardinality(Fences(q, 1, c))
            y == Cardinality(Fences(p, 1, e))
            z == Cardinality(Fences(p, e, i))
<1>0. /\ Len(p) \in Nat /\ Len(s) \in Nat /\ Len(q) \in Nat /\ m \in Nat /\ e \in Nat
      /\ 1 <= m /\ m <= e /\ e <= Len(p) + 1 /\ Len(q) = Len(p) + (m + Len(s) - e)
  BY SplicedNumbers
<1>1. /\ i \in Int /\ c \in Int /\ e \in Int /\ d \in Int /\ i + d \in Int /\ 1 <= c /\ c <= i + d
      /\ 1 <= e /\ e <= i /\ c = e + d
  BY <1>0
<1>2. Cardinality(Fences(q, 1, i + d)) = x + Cardinality(Fences(q, c, i + d))
  <2>. HIDE DEF d, c
  <2>. QED BY <1>1, FencesSplit
<1>3. Cardinality(Fences(p, 1, i)) = y + z
  BY <1>1, FencesSplit
<1>4. Cardinality(Fences(q, c, i + d)) = z
  <2>1. ASSUME NEW j \in e .. (i - 1) PROVE q[j + d].kind = p[j].kind
    <3>1. j + d \in (m + Len(s)) .. Len(q) /\ (j + d) - d = j
      BY <1>0
    <3>. QED BY <3>1 DEF Spliced
  <2>. HIDE DEF d, c
  <2>2. Moved(p, q, e, i, d)
    BY <2>1 DEF Moved
  <2>. HIDE DEF z
  <2>3. Cardinality(Fences(q, c, i + d)) = Cardinality(Fences(p, e, i))
    BY <2>2, <1>1, FencesShift
  <2>. QED BY <2>3 DEF z
<1>5. x \in Nat /\ y \in Nat /\ z \in Nat
  BY <1>1, FencesFinite
<1>6. x % 2 # 1 /\ y % 2 # 1
  <2>1. Len(s) + 1 \in 1 .. (Len(s) + 1) /\ (m - 1) + (Len(s) + 1) = m + Len(s)
    BY <1>0
  <2>2. ~InsideCode(q, m + Len(s))
    BY <2>1, CodeIn
  <2>. QED BY <2>2, InsideIs
<1>. HIDE DEF d, c, x, y, z
<1>7. InsideCode(q, i + d) <=> (x + z) % 2 = 1
  BY <1>2, <1>4, InsideIs
<1>8. InsideCode(p, i) <=> (y + z) % 2 = 1
  BY <1>3, InsideIs
<1>9. ((x + z) % 2 = 1) <=> ((y + z) % 2 = 1)
  BY <1>5, <1>6, Parity
<1>. QED BY <1>7, <1>8, <1>9 DEF d

(* What is said of a prompt p with respect to the configured prompt b: the lines *)
(* before the section of b come first, those after it stand further on, outside  *)
(* blocks of code and not right after a header. *)
Ahead(b, p) == StandAt(p, 1, LinesBefore(b))
BehindAt(b, p, k) ==
    /\ k \in (Len(LinesBefore(b)) + 1) .. (Len(p) + 1)
    /\ StandAt(p, k, LinesAfter(b))
    /\ LinesAfter(b) # <<>> => ~InsideCode(p, k) /\ k - 1 \notin Headers(p)
Behind(b, p) == \E k \in Nat : BehindAt(b, p, k)

LEMMA BaseBefore ==
    ASSUME NEW b \in Seq(Line)
    PROVE  /\ LinesBefore(b) \in Seq(Line) /\ Headers(LinesBefore(b)) = {}
           /\ Ahead(b, b) /\ Len(LinesBefore(b)) <= Len(b)
<1>. DEFINE A == LinesBefore(b)
<1>0. Len(b) \in Nat /\ DOMAIN b = 1 .. Len(b)
  OBVIOUS
<1>1. CASE Headers(b) = {}
  <2>1. A = b
    BY <1>1, NoSectionIs
  <2>2. StandAt(b, 1, b)
    BY <1>0 DEF StandAt
  <2>. QED BY <1>0, <1>1, <2>1, <2>2 DEF Ahead
<1>2. CASE Headers(b) # {}
  <2>. DEFINE m == Least(Headers(b))
  <2>1. m \in Headers(b) /\ \A n \in Headers(b) : m <= n
    BY <1>2, FirstHeader
  <2>2. m \in 1 .. Len(b)
    BY <2>1, HeaderAt
  <2>3. PICK e : EndsAt(b, m, e)
    BY <1>2, SectionEnds
  <2>. HIDE DEF m
  <2>4. A = SubSeq(b, 1, m - 1)
    BY <2>3, SectionIs
  <2>5. m - 1 \in Int /\ 1 <= (m - 1) + 1 /\ m - 1 <= Len(b) /\ (m - 1) - 1 + 1 = m - 1
    BY <2>2, <1>0
  <2>. HIDE DEF A
  <2>6. A \in Seq(Line) /\ Len(A) = m - 1 /\ StandAt(b, 1, A)
    BY <2>4, <2>5, SubSeqIs
  <2>7. ASSUME NEW i \in Headers(A) PROVE FALSE
    <3>1. i \in 1 .. Len(A)
      BY <2>6, HeaderAt
    <3>2. ~InsideCode(b, 1)
      BY OutsideFirst
    <3>3. (1 - 1) + i \in Headers(b)
      BY <2>6, <2>7, <3>1, <3>2, StandsHeaders
    <3>4. (1 - 1) + i = i /\ i < m
      BY <2>2, <2>6, <3>1, <1>0
    <3>. QED BY <2>1, <2>2, <3>1, <3>3, <3>4
  <2>. QED BY <2>5, <2>6, <2>7 DEF A, Ahead
<1>. QED BY <1>1, <1>2

(* The header of a prompt comes after the lines of the configured one. *)
LEMMA HeadersFollow ==
    ASSUME NEW b \in Seq(Line), NEW p \in Seq(Line), Ahead(b, p), NEW m, NEW e, CutAt(p, m, e)
    PROVE  Len(LinesBefore(b)) \in Nat /\ m \in Nat /\ Len(LinesBefore(b)) < m
<1>. DEFINE A == LinesBefore(b)
<1>1. A \in Seq(Line) /\ Headers(A) = {}
  BY BaseBefore
<1>2. Len(A) \in Nat /\ Len(p) \in Nat /\ m \in Nat
  BY <1>1 DEF CutAt
<1>3. StandAt(p, 1, A) /\ 1 + Len(A) - 1 <= Len(p)
  BY DEF Ahead, StandAt
<1>. HIDE DEF A
<1>4. CASE m = Len(p) + 1
  BY <1>2, <1>3, <1>4 DEF A
<1>5. CASE m # Len(p) + 1
  <2>1. m <= Len(p)
    BY <1>2, <1>5 DEF CutAt
  <2>2. m \in Headers(p)
    BY <2>1 DEF CutAt
  <2>3. ASSUME m <= Len(A) PROVE FALSE
    <3>1. m \in 1 .. Len(A) /\ (1 - 1) + m = m
      BY <2>3, <1>2 DEF CutAt
    <3>2. ~InsideCode(p, 1)
      BY OutsideFirst
    <3>3. m \in Headers(A) <=> (1 - 1) + m \in Headers(p)
      BY <1>1, <1>3, <3>1, <3>2, StandsHeaders
    <3>. QED BY <2>2, <3>1, <3>3, <1>1
  <2>. QED BY <2>3, <1>2 DEF A
<1>. QED BY <1>4, <1>5

LEMMA AheadKept ==
    ASSUME NEW b \in Seq(Line), NEW p \in Seq(Line), NEW s \in Seq(Line), Ahead(b, p)
    PROVE  LET q == ReplaceSection(p, s) IN q \in Seq(Line) /\ Ahead(b, q)
<1>. DEFINE q == ReplaceSection(p, s)
            A == LinesBefore(b)
<1>1. PICK m, e : CutAt(p, m, e) /\ Spliced(p, q, s, m, e)
  BY SectionReplaced
<1>. HIDE DEF q
<1>2. /\ Len(p) \in Nat /\ Len(s) \in Nat /\ Len(q) \in Nat /\ m \in Nat /\ e \in Nat
      /\ 1 <= m /\ m <= e /\ e <= Len(p) + 1 /\ Len(q) = Len(p) + (m + Len(s) - e)
  BY <1>1, SplicedNumbers
<1>3. Len(A) \in Nat /\ Len(A) < m
  BY <1>1, HeadersFollow
<1>4. A \in Seq(Line)
  BY BaseBefore
<1>. HIDE DEF A
<1>5. ASSUME NEW i \in DOMAIN A PROVE q[1 + i - 1] = A[i]
  <2>1. i \in 1 .. (m - 1) /\ 1 + i - 1 = i
    BY <1>2, <1>3, <1>4
  <2>2. p[1 + i - 1] = A[i]
    BY DEF Ahead, StandAt, A
  <2>. QED BY <2>1, <2>2, <1>1 DEF Spliced
<1>6. 1 + Len(A) - 1 <= Len(q)
  BY <1>2, <1>3
<1>7. Ahead(b, q)
  BY <1>5, <1>6 DEF Ahead, StandAt, A
<1>8. q \in Seq(Line)
  BY <1>1 DEF Spliced
<1>. QED BY <1>7, <1>8 DEF q

LEMMA BaseAfter ==
    ASSUME NEW b \in Seq(Line), OneSection(b)
    PROVE  /\ LinesAfter(b) \in Seq(Line)
           /\ LinesAfter(b) # <<>> => /\ LinesAfter(b)[1].kind \in {"heading", "marker"}
                                      /\ Headers(LinesAfter(b)) = {}
           /\ Behind(b, b)
<1>. DEFINE B == LinesAfter(b)
<1>0. Len(b) \in Nat /\ DOMAIN b = 1 .. Len(b) /\ Len(LinesBefore(b)) \in Nat /\ Len(LinesBefore(b)) <= Len(b)
  BY BaseBefore
<1>1. CASE B = <<>>
  <2>1. BehindAt(b, b, Len(b) + 1)
    BY <1>0, <1>1 DEF BehindAt, StandAt
  <2>. QED BY <1>0, <1>1, <2>1 DEF Behind
<1>2. CASE B # <<>>
  <2>. DEFINE m == Least(Headers(b))
  <2>0. Headers(b) # {}
    BY <1>2, NoSectionIs
  <2>1. m \in Headers(b) /\ \A n \in Headers(b) : n = m
    BY <2>0, FirstHeader DEF OneSection
  <2>2. m \in 1 .. Len(b)
    BY <2>1, HeaderAt
  <2>3. PICK e : EndsAt(b, m, e)
    BY <2>0, SectionEnds
  <2>. HIDE DEF m
  <2>4. B = SubSeq(b, e, Len(b)) /\ LinesBefore(b) = SubSeq(b, 1, m - 1)
    BY <2>3, SectionIs
  <2>5. e \in (m + 1) .. (Len(b) + 1)
    BY <2>3 DEF EndsAt
  <2>6. e <= Len(b)
    <3>1. CASE e = Len(b) + 1
      <4>1. SubSeq(b, e, Len(b)) = <<>>
        BY <3>1, <1>0, SubSeqEmpty
      <4>. QED BY <4>1, <2>4, <1>2
    <3>. QED BY <3>1, <2>2, <2>5, <1>0
  <2>7. b[e].kind \in {"heading", "marker"} /\ ~InsideCode(b, e)
    BY <2>3, <2>6 DEF EndsAt
  <2>8. e # m + 1
    <3>1. m < Len(b) => b[m + 1].kind \notin {"heading", "marker"}
      BY <2>1 DEF OneSection
    <3>. QED BY <3>1, <2>2, <2>6, <2>7, <1>0
  <2>9. e - 1 \notin Headers(b)
    BY <2>1, <2>2, <2>5, <2>8
  <2>. HIDE DEF B
  <2>10. B \in Seq(Line) /\ Len(B) = Len(b) - e + 1 /\ StandAt(b, e, B) /\ B[1] = b[e]
    <3>1. e \in Int /\ Len(b) \in Int /\ 1 <= e /\ e <= Len(b) + 1
      BY <2>2, <2>5, <2>6, <1>0
    <3>2. B \in Seq(Line) /\ Len(B) = Len(b) - e + 1 /\ StandAt(b, e, B)
      BY <2>4, <3>1, SubSeqIs
    <3>3. 1 \in DOMAIN B /\ e + 1 - 1 = e
      BY <3>1, <3>2, <2>6
    <3>. QED BY <3>2, <3>3 DEF StandAt
  <2>11. ASSUME NEW i \in Headers(B) PROVE FALSE
    <3>1. i \in 1 .. Len(B) /\ e \in Nat /\ 1 <= e
      BY <2>2, <2>5, <2>10, HeaderAt
    <3>2. (e - 1) + i \in Headers(b)
      BY <2>7, <2>10, <2>11, <3>1, StandsHeaders
    <3>. QED BY <3>1, <3>2, <2>1, <2>2, <2>5, <2>10, <1>0
  <2>12. Len(LinesBefore(b)) = m - 1
    <3>1. m - 1 \in Int /\ 1 <= (m - 1) + 1 /\ m - 1 <= Len(b) /\ (m - 1) - 1 + 1 = m - 1
      BY <2>2, <1>0
    <3>. QED BY <2>4, <3>1, SubSeqIs
  <2>13. e \in Nat /\ e \in (Len(LinesBefore(b)) + 1) .. (Len(b) + 1)
    BY <2>2, <2>5, <2>6, <2>12, <1>0
  <2>14. BehindAt(b, b, e)
    BY <2>7, <2>9, <2>10, <2>13 DEF BehindAt, B
  <2>. QED BY <2>7, <2>10, <2>11, <2>13, <2>14 DEF Behind, B
<1>. QED BY <1>1, <1>2

(* A section that leaves no block of code open and ends with text, if at all. *)
Closed(s) == ~InsideCode(s, Len(s) + 1) /\ (s # <<>> => s[Len(s)].kind = "text")

LEMMA CutCode ==
    ASSUME NEW p \in Seq(Line), NEW m, NEW e, CutAt(p, m, e), m <= Len(p)
    PROVE  /\ m \in Headers(p) /\ ~InsideCode(p, m)
           /\ e <= Len(p) => ~InsideCode(p, e) /\ e > m + 1 /\ p[e].kind \in {"heading", "marker"}
<1>1. m \in Headers(p) /\ (e <= Len(p) => e \in EndsOf(p, m))
  BY DEF CutAt
<1>. QED BY <1>1, HeaderAt DEF EndsOf

(* The lines after a section are kept by a section that is closed. *)
LEMMA BehindKept ==
    ASSUME NEW b \in Seq(Line), OneSection(b), NEW p \in Seq(Line), NEW s \in Seq(Line),
           Ahead(b, p), Behind(b, p), Closed(s)
    PROVE  Behind(b, ReplaceSection(p, s))
<1>. DEFINE q == ReplaceSection(p, s)
            A == LinesBefore(b)
            B == LinesAfter(b)
<1>1. PICK m, e : CutAt(p, m, e) /\ Spliced(p, q, s, m, e)
  BY SectionReplaced
<1>. HIDE DEF q
<1>2. /\ Len(p) \in Nat /\ Len(s) \in Nat /\ Len(q) \in Nat /\ m \in Nat /\ e \in Nat
      /\ 1 <= m /\ m <= e /\ e <= Len(p) + 1 /\ Len(q) = Len(p) + (m + Len(s) - e)
  BY <1>1, SplicedNumbers
<1>3. Len(A) \in Nat /\ Len(A) < m
  BY <1>1, HeadersFollow
<1>4. /\ B \in Seq(Line)
      /\ B # <<>> => B[1].kind \in {"heading", "marker"} /\ Headers(B) = {}
  BY BaseAfter
<1>5. PICK k \in Nat : BehindAt(b, p, k)
  BY DEF Behind
<1>6. /\ k \in (Len(A) + 1) .. (Len(p) + 1) /\ StandAt(p, k, B)
      /\ B # <<>> => ~InsideCode(p, k) /\ k - 1 \notin Headers(p)
  BY <1>5 DEF BehindAt
<1>. HIDE DEF A, B
<1>7. q \in Seq(Line) /\ Len(B) \in Nat /\ DOMAIN B = 1 .. Len(B)
  BY <1>1, <1>4 DEF Spliced
<1>8. CASE B = <<>>
  <2>1. Len(q) + 1 \in Nat /\ Len(q) + 1 \in (Len(A) + 1) .. (Len(q) + 1)
    BY <1>2, <1>3
  <2>2. StandAt(q, Len(q) + 1, B)
    BY <1>2, <1>8 DEF StandAt
  <2>3. BehindAt(b, q, Len(q) + 1)
    BY <2>1, <2>2, <1>8 DEF BehindAt, A, B
  <2>. QED BY <2>1, <2>3 DEF Behind, q
<1>9. CASE B # <<>>
  <2>1. Len(B) >= 1 /\ k + Len(B) - 1 <= Len(p) /\ 1 <= k
    <3>1. Len(B) # 0
      BY <1>4, <1>9, EmptySeq
    <3>. QED BY <3>1, <1>3, <1>6, <1>7 DEF StandAt
  <2>2. ASSUME NEW i \in 1 .. Len(B) PROVE p[k + i - 1] = B[i]
    BY <1>6, <1>7 DEF StandAt
  <2>3. m < k \/ k + Len(B) <= m
    <3>1. ASSUME k <= m, m < k + Len(B) PROVE FALSE
      <4>1. m <= Len(p)
        BY <3>1, <2>1, <1>2
      <4>2. m \in Headers(p)
        BY <4>1, <1>1, CutCode
      <4>3. m - k + 1 \in 1 .. Len(B) /\ (k - 1) + (m - k + 1) = m
        BY <3>1, <1>2, <1>7
      <4>4. m - k + 1 \in Headers(B) <=> (k - 1) + (m - k + 1) \in Headers(p)
        BY <4>3, <1>4, <1>6, <1>9, <2>1, StandsHeaders
      <4>. QED BY <4>2, <4>3, <4>4, <1>4, <1>9
    <3>. QED BY <3>1, <1>2, <1>7
  <2>4. CASE k + Len(B) <= m
    <3>1. k \in (Len(A) + 1) .. (Len(q) + 1) /\ k + Len(B) - 1 <= Len(q) /\ k \in 1 .. m
      BY <2>1, <2>4, <1>2, <1>6, <1>7
    <3>2. ASSUME NEW i \in DOMAIN B PROVE q[k + i - 1] = B[i]
      <4>1. i \in 1 .. Len(B) /\ k + i - 1 \in 1 .. (m - 1)
        BY <2>1, <2>4, <1>2, <1>7
      <4>. QED BY <4>1, <2>2, <1>1 DEF Spliced
    <3>3. ~InsideCode(q, k)
      BY <3>1, <1>1, <1>6, <1>9, CodeBefore
    <3>4. k - 1 \notin Headers(q)
      <4>1. ASSUME k - 1 \in Headers(q) PROVE FALSE
        <5>1. k - 1 \in 1 .. Len(q) /\ q[k - 1].kind = "marker" /\ ~InsideCode(q, k - 1)
          BY <4>1, <1>7, HeaderAt
        <5>2. k - 1 \in 1 .. (m - 1) /\ k - 1 \in 1 .. m /\ k - 1 \in 1 .. Len(p)
          BY <5>1, <2>1, <2>4, <1>2, <1>6
        <5>3. p[k - 1].kind = "marker"
          BY <5>1, <5>2, <1>1 DEF Spliced
        <5>4. ~InsideCode(p, k - 1)
          BY <5>1, <5>2, <1>1, CodeBefore
        <5>. QED BY <5>2, <5>3, <5>4, <1>6, <1>9, HeaderAt
      <4>. QED BY <4>1
    <3>5. StandAt(q, k, B)
      BY <3>1, <3>2 DEF StandAt
    <3>6. BehindAt(b, q, k)
      BY <3>1, <3>3, <3>4, <3>5 DEF BehindAt, A, B
    <3>. QED BY <3>6 DEF Behind, q
  <2>5. CASE m < k
    <3>. DEFINE d == m + Len(s) - e
                j == k + d
    <3>1. m <= Len(p) /\ k <= Len(p)
      BY <2>1, <2>5, <1>2, <1>7
    <3>2. m \in Headers(p) /\ ~InsideCode(p, m)
      BY <3>1, <1>1, CutCode
    <3>3. k # m + 1
      <4>1. k - 1 # m
        BY <3>2, <1>6, <1>9
      <4>. QED BY <4>1, <1>2
    <3>4. k \in EndsOf(p, m)
      <4>1. 1 \in 1 .. Len(B) /\ k + 1 - 1 = k
        BY <2>1
      <4>2. p[k].kind \in {"heading", "marker"}
        BY <4>1, <2>2, <1>4, <1>9
      <4>3. k \in DOMAIN p /\ k > m + 1
        BY <3>1, <3>3, <2>1, <2>5, <1>2
      <4>. QED BY <4>2, <4>3, <1>6, <1>9 DEF EndsOf
    <3>5. e <= k
      BY <3>1, <3>4, <1>1 DEF CutAt
    <3>6. ~InsideCode(p, e)
      <4>1. e <= Len(p)
        BY <3>1, <3>5, <1>2
      <4>. QED BY <4>1, <3>1, <1>1, CutCode
    <3>7. d \in Int /\ j \in Nat /\ e + d = m + Len(s) /\ Len(q) = Len(p) + d /\ j - 1 \in Int
      BY <3>5, <1>2
    <3>8. /\ j \in (Len(A) + 1) .. (Len(q) + 1) /\ j + Len(B) - 1 <= Len(q)
          /\ k \in e .. (Len(p) + 1)
      BY <3>5, <3>7, <2>1, <1>2, <1>3, <1>6, <1>7
    <3>9. ASSUME NEW i \in e .. (Len(p) + 1) PROVE InsideCode(q, i + d) <=> InsideCode(p, i)
      BY <3>2, <3>6, <1>1, CodeAfter DEF Closed
    <3>10. ASSUME NEW i \in e .. Len(p) PROVE q[i + d] = p[i]
      <4>1. i + d \in (m + Len(s)) .. Len(q) /\ (i + d) - (m + Len(s) - e) = i
        BY <3>7, <1>2
      <4>. QED BY <4>1, <1>1 DEF Spliced
    <3>11. ~InsideCode(q, j)
      BY <3>8, <3>9, <1>6, <1>9
    <3>. HIDE DEF d
    <3>12. ASSUME NEW i \in DOMAIN B PROVE q[j + i - 1] = B[i]
      <4>0. i \in 1 .. Len(B) /\ k \in Int /\ d \in Int
        BY <3>7, <1>7
      <4>1. k + i - 1 \in e .. Len(p) /\ (k + i - 1) + d = j + i - 1
        BY <4>0, <3>5, <2>1, <1>2, <1>7
      <4>2. q[(k + i - 1) + d] = p[k + i - 1]
        BY <4>1, <3>10
      <4>. QED BY <4>0, <4>1, <4>2, <2>2
    <3>13. ASSUME j - 1 \in Headers(q) PROVE FALSE
      <4>1. j - 1 \in 1 .. Len(q) /\ q[j - 1].kind = "marker" /\ ~InsideCode(q, j - 1)
        BY <3>13, <1>7, HeaderAt
      <4>2. CASE e < k
        <5>1. k - 1 \in e .. Len(p) /\ k - 1 \in e .. (Len(p) + 1) /\ (k - 1) + d = j - 1
              /\ k - 1 \in 1 .. Len(p)
          BY <4>2, <3>1, <3>7, <1>2
        <5>2. p[k - 1].kind = "marker" /\ ~InsideCode(p, k - 1)
          BY <4>1, <5>1, <3>9, <3>10
        <5>. QED BY <5>1, <5>2, <1>6, <1>9, HeaderAt
      <4>3. CASE e = k /\ s = <<>>
        <5>1. j - 1 = m - 1 /\ Len(s) = 0
          BY <4>3, <3>7, <1>2, EmptySeq
        <5>2. j - 1 \in 1 .. (m - 1) /\ j - 1 \in 1 .. m /\ j - 1 \in 1 .. Len(p)
          BY <5>1, <4>1, <3>1, <1>2
        <5>3. p[j - 1].kind = "marker" /\ ~InsideCode(p, j - 1)
          <6>1. q[j - 1] = p[j - 1]
            BY <5>2, <1>1 DEF Spliced
          <6>2. InsideCode(q, j - 1) <=> InsideCode(p, j - 1)
            BY <5>2, <1>1, CodeBefore
          <6>. QED BY <6>1, <6>2, <4>1
        <5>4. j - 1 \in Headers(p)
          BY <5>2, <5>3, HeaderAt
        <5>5. m <= j - 1
          BY <5>4, <1>1 DEF CutAt
        <5>. QED BY <5>1, <5>5, <1>2
      <4>4. CASE e = k /\ s # <<>>
        <5>1. Len(s) # 0
          BY <4>4, EmptySeq
        <5>2. j - 1 \in m .. (m + Len(s) - 1) /\ (j - 1) - m + 1 = Len(s)
          BY <5>1, <4>4, <3>7, <1>2
        <5>3. q[j - 1] = s[(j - 1) - m + 1]
          BY <5>2, <1>1 DEF Spliced
        <5>4. s[Len(s)].kind = "text"
          BY <4>4 DEF Closed
        <5>. QED BY <5>2, <5>3, <5>4, <4>1
      <4>. QED BY <4>2, <4>3, <4>4, <3>5, <1>2
    <3>14. StandAt(q, j, B)
      BY <3>8, <3>12 DEF StandAt
    <3>. HIDE DEF j
    <3>15. BehindAt(b, q, j)
      BY <3>8, <3>11, <3>13, <3>14 DEF BehindAt, A, B
    <3>. QED BY <3>7, <3>15 DEF Behind, q
  <2>. QED BY <2>3, <2>4, <2>5
<1>. QED BY <1>8, <1>9

(* A section without flaws: its header, text, and headings in blocks of code only. *)
Sound(s) ==
    /\ Closed(s)
    /\ s # <<>> => /\ s[1].kind = "marker" /\ Len(s) >= 2
                   /\ s[2].kind \notin {"heading", "marker"}
    /\ \A i \in 2 .. Len(s) : s[i].kind \in {"heading", "marker"} => InsideCode(s, i)

(* A prompt with one section is cut where its section is. *)
LEMMA PartsAre ==
    ASSUME NEW p \in Seq(Line), OneSection(p), NEW m, NEW e, CutAt(p, m, e)
    PROVE  LinesBefore(p) = SubSeq(p, 1, m - 1) /\ LinesAfter(p) = SubSeq(p, e, Len(p))
<1>0. Len(p) \in Nat /\ m \in Nat /\ e \in Nat /\ 1 <= m /\ m <= e /\ e <= Len(p) + 1
  BY DEF CutAt
<1>1. CASE m = Len(p) + 1
  <2>1. Headers(p) = {}
    <3>1. ASSUME NEW n \in Headers(p) PROVE FALSE
      <4>1. n \in 1 .. Len(p) /\ m <= n
        BY HeaderAt DEF CutAt
      <4>. QED BY <4>1, <1>0, <1>1
    <3>. QED BY <3>1
  <2>2. m - 1 = Len(p) /\ Len(p) < e
    BY <1>0, <1>1
  <2>3. SubSeq(p, 1, Len(p)) = p
    BY SubSeqFull
  <2>4. SubSeq(p, e, Len(p)) = <<>>
    BY <1>0, <2>2, SubSeqEmpty
  <2>. QED BY <2>1, <2>2, <2>3, <2>4, NoSectionIs
<1>2. CASE m # Len(p) + 1
  <2>1. m <= Len(p)
    BY <1>0, <1>2
  <2>2. /\ m \in Headers(p) /\ m < e /\ \A j \in EndsOf(p, m) : e <= j
        /\ \A n \in Headers(p) : m <= n
        /\ e <= Len(p) => p[e].kind \in {"heading", "marker"} /\ ~InsideCode(p, e)
    BY <2>1, CutCode DEF CutAt
  <2>3. ASSUME NEW j \in (m + 1) .. (e - 1), p[j].kind \in {"heading", "marker"}
        PROVE  InsideCode(p, j)
    <3>1. j \in 1 .. Len(p) /\ j < e /\ m < j
      BY <1>0
    <3>2. j # m + 1
      <4>1. m < Len(p) => p[m + 1].kind \notin {"heading", "marker"}
        BY <2>2 DEF OneSection
      <4>. QED BY <4>1, <3>1, <2>3, <1>0
    <3>3. j > m + 1 /\ j \in DOMAIN p
      BY <3>1, <3>2, <1>0
    <3>4. ~(e <= j)
      BY <3>1, <1>0
    <3>. QED BY <2>2, <2>3, <3>3, <3>4 DEF EndsOf
  <2>4. e \in (m + 1) .. (Len(p) + 1)
    BY <2>2, <1>0
  <2>5. EndsAt(p, m, e)
    BY <2>2, <2>3, <2>4 DEF EndsAt
  <2>. QED BY <2>5, SectionIs
<1>. QED BY <1>1, <1>2

LEMMA OwnLinesKept ==
    ASSUME NEW p \in Seq(Line), Tidy(p), NEW s \in Seq(Line), Sound(s)
    PROVE  LET q == ReplaceSection(p, s) IN Tidy(q) /\ OwnLines(q) = OwnLines(p)
<1>. DEFINE q == ReplaceSection(p, s)
            A == LinesBefore(p)
            B == LinesAfter(p)
            k == Len(s)
<1>1. PICK m, e : /\ CutAt(p, m, e) /\ Cut(p) = <<SubSeq(p, 1, m - 1), SubSeq(p, e, Len(p))>>
                  /\ Spliced(p, q, s, m, e)
  BY SectionReplaced
<1>2. q = A \o s \o B /\ A = SubSeq(p, 1, m - 1) /\ B = SubSeq(p, e, Len(p))
  <2>1. A = SubSeq(p, 1, m - 1) /\ B = SubSeq(p, e, Len(p))
    BY <1>1, PartsAre DEF Tidy
  <2>2. Cut(p) = <<A, B>>
    BY <1>1, <2>1
  <2>. HIDE DEF A, B
  <2>3. Cut(p)[1] = A /\ Cut(p)[2] = B
    BY <2>2
  <2>4. q = A \o s \o B
    BY <2>3 DEF ReplaceSection
  <2>. QED BY <2>1, <2>4
<1>. HIDE DEF q, A, B, k
<1>. DEFINE d == m + k - e
<1>3. /\ Len(p) \in Nat /\ k \in Nat /\ Len(q) \in Nat /\ m \in Nat /\ e \in Nat
      /\ 1 <= m /\ m <= e /\ e <= Len(p) + 1 /\ Len(q) = Len(p) + d /\ d \in Int
      /\ e + d = m + k
  BY <1>1, SplicedNumbers DEF k
<1>4. q \in Seq(Line)
  BY <1>1 DEF Spliced
<1>5. ~InsideCode(p, m) /\ ~InsideCode(p, e)
  <2>1. ~InsideCode(p, Len(p) + 1)
    BY DEF Tidy
  <2>2. m <= Len(p) => ~InsideCode(p, m) /\ (e <= Len(p) => ~InsideCode(p, e))
    BY <1>1, CutCode
  <2>3. (m = Len(p) + 1 \/ m <= Len(p)) /\ (e = Len(p) + 1 \/ e <= Len(p))
        /\ (e <= Len(p) => m <= Len(p))
    BY <1>3
  <2>. QED BY <2>1, <2>2, <2>3
<1>6. k # 0 => s[1].kind = "marker" /\ k >= 2 /\ s[2].kind \notin {"heading", "marker"}
  <2>1. s = <<>> => k = 0
    BY EmptySeq DEF k
  <2>. QED BY <2>1 DEF Sound, k
<1>7. ASSUME NEW i \in 1 .. (k + 1) PROVE InsideCode(q, (m - 1) + i) <=> InsideCode(s, i)
  BY <1>1, <1>5, CodeIn DEF k
<1>8. ASSUME NEW i \in e .. (Len(p) + 1) PROVE InsideCode(q, i + d) <=> InsideCode(p, i)
  BY <1>1, <1>5, CodeAfter DEF k, Sound, Closed
<1>9. ASSUME NEW i \in 1 .. k PROVE q[(m - 1) + i] = s[i]
  <2>1. (m - 1) + i \in m .. (m + Len(s) - 1) /\ ((m - 1) + i) - m + 1 = i
    BY <1>3 DEF k
  <2>. QED BY <2>1, <1>1 DEF Spliced
<1>10. ASSUME NEW i \in e .. Len(p) PROVE q[i + d] = p[i]
  <2>1. i + d \in (m + Len(s)) .. Len(q) /\ (i + d) - (m + Len(s) - e) = i
    BY <1>3 DEF k
  <2>. QED BY <2>1, <1>1 DEF Spliced
<1>11. ~InsideCode(q, Len(q) + 1)
  <2>1. Len(p) + 1 \in e .. (Len(p) + 1) /\ (Len(p) + 1) + d = Len(q) + 1
    BY <1>3
  <2>2. ~InsideCode(p, Len(p) + 1)
    BY DEF Tidy
  <2>. QED BY <2>1, <2>2, <1>8
<1>12. ASSUME NEW i \in Headers(q) PROVE k # 0 /\ i = m
  <2>1. i \in 1 .. Len(q) /\ q[i].kind = "marker" /\ ~InsideCode(q, i)
    BY <1>4, HeaderAt
  <2>2. CASE i < m
    <3>1. i \in 1 .. (m - 1) /\ i \in 1 .. m /\ i \in 1 .. Len(p) /\ ~(m <= i)
      BY <2>1, <2>2, <1>3
    <3>2. q[i] = p[i]
      BY <3>1, <1>1 DEF Spliced
    <3>3. InsideCode(q, i) <=> InsideCode(p, i)
      BY <3>1, <1>1, CodeBefore
    <3>4. i \in Headers(p)
      BY <2>1, <3>1, <3>2, <3>3, HeaderAt
    <3>. QED BY <3>1, <3>4, <1>1 DEF CutAt
  <2>3. CASE m + k <= i
    <3>1. /\ i - d \in e .. Len(p) /\ i - d \in e .. (Len(p) + 1) /\ (i - d) + d = i
          /\ i - d \in 1 .. Len(p) /\ m <= Len(p) /\ e <= Len(p)
      <4>. HIDE DEF d
      <4>. QED BY <2>1, <2>3, <1>3
    <3>. DEFINE j == i - d
    <3>. HIDE DEF j
    <3>2. p[j].kind = "marker" /\ ~InsideCode(p, j)
      BY <2>1, <3>1, <1>8, <1>10 DEF j
    <3>3. j \in Headers(p)
      BY <3>1, <3>2, HeaderAt DEF j
    <3>4. m \in Headers(p) /\ m < e
      BY <3>1, <1>1 DEF CutAt
    <3>5. m = j
      BY <3>3, <3>4 DEF Tidy, OneSection
    <3>. QED BY <3>1, <3>4, <3>5, <1>3 DEF j
  <2>4. CASE m <= i /\ i < m + k
    <3>. DEFINE j == i - m + 1
    <3>1. j \in 1 .. k /\ j \in 1 .. (k + 1) /\ (m - 1) + j = i /\ k # 0
          /\ (j = 1 => i = m) /\ (j # 1 => j \in 2 .. k)
      BY <2>1, <2>4, <1>3
    <3>. HIDE DEF j
    <3>2. s[j].kind = "marker" /\ ~InsideCode(s, j)
      BY <2>1, <3>1, <1>7, <1>9
    <3>. QED BY <3>1, <3>2 DEF Sound, k
  <2>. QED BY <2>1, <2>2, <2>3, <2>4, <1>3
<1>13. ASSUME NEW i \in Headers(q), i < Len(q)
       PROVE  q[i + 1].kind \notin {"heading", "marker"}
  <2>1. k # 0 /\ i = m
    BY <1>12
  <2>2. 2 \in 1 .. k /\ (m - 1) + 2 = i + 1
    BY <2>1, <1>3, <1>6
  <2>3. q[i + 1] = s[2]
    BY <2>2, <1>9
  <2>. QED BY <2>1, <2>3, <1>6
<1>14. Tidy(q)
  BY <1>11, <1>12, <1>13 DEF Tidy, OneSection
<1>15. A \in Seq(Line) /\ B \in Seq(Line)
  <2>1. 1 \in Int /\ m - 1 \in Int /\ 1 <= (m - 1) + 1 /\ m - 1 <= Len(p)
        /\ e \in Int /\ Len(p) \in Int /\ 1 <= e /\ Len(p) <= Len(p)
    BY <1>3
  <2>. HIDE DEF d
  <2>. QED BY <1>2, <1>3, <2>1, SubSeqIs
<1>16. OwnLines(q) = A \o B
  <2>1. CASE k = 0
    <3>1. Headers(q) = {}
      BY <2>1, <1>12
    <3>2. OwnLines(q) = q
      BY <3>1, <1>4, NoSectionIs, ConcatEmptySeq DEF OwnLines
    <3>3. s = <<>>
      BY <2>1, EmptySeq DEF k
    <3>4. A \o s = A
      BY <3>3, <1>15, ConcatEmptySeq
    <3>. QED BY <3>2, <3>4, <1>2
  <2>2. CASE k # 0
    <3>1. m \in 1 .. Len(q) /\ 1 \in 1 .. k /\ 1 \in 1 .. (k + 1) /\ (m - 1) + 1 = m
      BY <2>2, <1>3
    <3>2. q[m].kind = "marker" /\ ~InsideCode(q, m)
      <4>1. q[m] = s[1] /\ (InsideCode(q, m) <=> InsideCode(s, 1))
        BY <3>1, <1>7, <1>9
      <4>. QED BY <4>1, <2>2, <1>6, OutsideFirst
    <3>3. m \in Headers(q) /\ \A n \in Headers(q) : n = m
      BY <3>1, <3>2, <1>4, <1>12, HeaderAt
    <3>4. (m + k) \in (m + 1) .. (Len(q) + 1)
      BY <2>2, <1>3
    <3>5. ASSUME NEW j \in (m + 1) .. ((m + k) - 1), q[j].kind \in {"heading", "marker"}
          PROVE  InsideCode(q, j)
      <4>. DEFINE i == j - m + 1
      <4>1. i \in 2 .. k /\ i \in 1 .. k /\ i \in 1 .. (k + 1) /\ (m - 1) + i = j
        BY <1>3
      <4>. HIDE DEF i
      <4>2. q[j] = s[i] /\ (InsideCode(q, j) <=> InsideCode(s, i))
        BY <4>1, <1>7, <1>9
      <4>. QED BY <4>1, <4>2, <3>5 DEF Sound, k
    <3>6. ASSUME m + k <= Len(q)
          PROVE  q[m + k].kind \in {"heading", "marker"} /\ ~InsideCode(q, m + k)
      <4>1. e \in e .. Len(p) /\ e \in e .. (Len(p) + 1) /\ e + d = m + k /\ e <= Len(p) /\ m <= Len(p)
        BY <3>6, <1>3
      <4>2. p[e].kind \in {"heading", "marker"}
        BY <4>1, <1>1, CutCode
      <4>3. q[e + d] = p[e] /\ (InsideCode(q, e + d) <=> InsideCode(p, e))
        BY <4>1, <1>8, <1>10
      <4>. QED BY <4>1, <4>2, <4>3, <1>5
    <3>7. EndsAt(q, m, m + k)
      <4>1. \A n \in Headers(q) : m <= n
        BY <3>3, <1>3
      <4>. QED BY <4>1, <3>3, <3>4, <3>5, <3>6 DEF EndsAt
    <3>8. OwnLines(q) = SubSeq(q, 1, m - 1) \o SubSeq(q, m + k, Len(q))
      BY <3>7, <1>4, SectionIs DEF OwnLines
    <3>9. SubSeq(q, 1, m - 1) = A
      <4>1. /\ 1 \in Int /\ m - 1 \in Int /\ 0 \in Int /\ 1 = 1 + 0 /\ m - 1 = (m - 1) + 0
            /\ 1 <= (m - 1) + 1 /\ m - 1 <= Len(p) /\ m - 1 <= Len(q)
        BY <3>1, <1>3
      <4>2. ASSUME NEW j \in 1 .. (m - 1) PROVE q[j + 0] = p[j]
        <5>1. j + 0 = j
          OBVIOUS
        <5>. QED BY <5>1, <1>1 DEF Spliced
      <4>3. SubSeq(q, 1, m - 1) = SubSeq(p, 1, m - 1)
        <5>. HIDE DEF d
        <5>. QED BY <4>1, <4>2, <1>4, SubSeqShift
      <4>. QED BY <4>3, <1>2
    <3>10. SubSeq(q, m + k, Len(q)) = B
      <4>1. /\ e \in Int /\ Len(p) \in Int /\ d \in Int /\ m + k \in Int /\ Len(q) \in Int
            /\ m + k = e + d /\ Len(q) = Len(p) + d /\ e <= Len(p) + 1 /\ 1 <= e /\ 1 <= m + k
            /\ Len(p) <= Len(p) /\ Len(q) <= Len(q)
        BY <1>3
      <4>. DEFINE c == m + k
                  f == Len(q)
                  b == Len(p)
      <4>2. \A i \in e .. b : q[i + d] = p[i]
        BY <1>10
      <4>. HIDE DEF c, d, f, b
      <4>3. SubSeq(q, c, f) = SubSeq(p, e, b)
        <5>1. /\ e \in Int /\ b \in Int /\ d \in Int /\ c \in Int /\ f \in Int
              /\ c = e + d /\ f = b + d /\ e <= b + 1 /\ 1 <= e /\ 1 <= c
              /\ b <= Len(p) /\ f <= Len(q)
          BY <4>1 DEF c, f, b
        <5>. QED BY <5>1, <4>2, <1>4, SubSeqShift
      <4>. QED BY <4>3, <1>2 DEF c, f, b
    <3>. QED BY <3>8, <3>9, <3>10
  <2>. QED BY <2>1, <2>2
<1>17. OwnLines(p) = A \o B
  BY DEF OwnLines, A, B
<1>. QED BY <1>14, <1>16, <1>17 DEF q

LEMMA SectionLines ==
    ASSUME NEW skills \in Catalogs
    PROVE  LET s == SkillsSection(skills) IN
           /\ s \in Seq(Line)
           /\ "open" \notin FlawsOf(s) => Closed(s)
           /\ FlawsOf(s) = {} => Sound(s)
<1>. DEFINE L == Below[skills]
            H == <<MarkerLine, ListLine(skills)>>
            E == <<EndLine>>
            s == SkillsSection(skills)
<1>1. MarkerLine \in Line /\ MarkerLine.kind = "marker"
  BY DEF MarkerLine, Line
<1>2. ListLine(skills) \in Line /\ ListLine(skills).kind = "list"
  BY DEF ListLine, Line
<1>3. EndLine \in Line /\ EndLine.kind = "text"
  BY DEF EndLine, Line
<1>4. L \in Seq(Line) /\ Len(L) \in Nat
  <2>1. Below \in [Catalogs -> Seq(Line)]
    BY SkillsAssumption
  <2>. QED BY <2>1
<1>5. H \in Seq(Line) /\ Len(H) = 2 /\ H[1] = MarkerLine /\ H[2] = ListLine(skills)
  BY <1>1, <1>2
<1>6. E \in Seq(Line) /\ Len(E) = 1 /\ E[1] = EndLine
  BY <1>3
<1>7. s = <<>> \/ s = H \o L \o E
  BY DEF SkillsSection
<1>. HIDE DEF L, H, E, s
<1>8. /\ H \o L \in Seq(Line) /\ Len(H \o L) = 2 + Len(L)
      /\ (H \o L)[1] = MarkerLine /\ (H \o L)[2] = ListLine(skills)
  <2>1. /\ H \o L \in Seq(Line) /\ Len(H \o L) = Len(H) + Len(L)
        /\ \A i \in 1 .. (Len(H) + Len(L)) :
              (H \o L)[i] = IF i <= Len(H) THEN H[i] ELSE L[i - Len(H)]
    BY <1>4, <1>5, ConcatProperties
  <2>2. 1 \in 1 .. (Len(H) + Len(L)) /\ 2 \in 1 .. (Len(H) + Len(L)) /\ 1 <= Len(H) /\ 2 <= Len(H)
    BY <1>4, <1>5
  <2>. QED BY <2>1, <2>2, <1>5
<1>9. s # <<>> => /\ s \in Seq(Line) /\ Len(s) = 3 + Len(L)
                  /\ s[1].kind = "marker" /\ s[2].kind = "list" /\ s[Len(s)].kind = "text"
  <2>. DEFINE G == H \o L
  <2>1. G \in Seq(Line) /\ Len(G) = 2 + Len(L) /\ G[1] = MarkerLine /\ G[2] = ListLine(skills)
    BY <1>8
  <2>2. s # <<>> => s = G \o E
    BY <1>7
  <2>. HIDE DEF G
  <2>3. /\ G \o E \in Seq(Line) /\ Len(G \o E) = Len(G) + Len(E)
        /\ \A i \in 1 .. (Len(G) + Len(E)) :
              (G \o E)[i] = IF i <= Len(G) THEN G[i] ELSE E[i - Len(G)]
    <3>1. G \in Seq(Line) /\ E \in Seq(Line)
      BY <2>1, <1>6
    <3>. QED BY <3>1, ConcatProperties
  <2>. DEFINE n == 3 + Len(L)
  <2>4. /\ n \in Nat /\ Len(G) + Len(E) = n /\ 1 \in 1 .. n /\ 2 \in 1 .. n /\ n \in 1 .. n
        /\ 1 <= Len(G) /\ 2 <= Len(G) /\ ~(n <= Len(G)) /\ n - Len(G) = 1
    BY <2>1, <1>4, <1>6
  <2>. HIDE DEF n
  <2>5. (G \o E)[1] = MarkerLine /\ (G \o E)[2] = ListLine(skills) /\ (G \o E)[n] = EndLine
    BY <2>1, <2>3, <2>4, <1>6
  <2>6. Len(G \o E) = n
    BY <2>3, <2>4
  <2>. QED BY <2>2, <2>3, <2>5, <2>6, <1>1, <1>2, <1>3 DEF n
<1>10. s \in Seq(Line)
  <2>1. <<>> \in Seq(Line)
    OBVIOUS
  <2>. QED BY <2>1, <1>9
<1>11. "open" \notin FlawsOf(s) => ~InsideCode(s, Len(s) + 1)
  BY DEF FlawsOf, Flaws
<1>12. "heading" \notin FlawsOf(s) =>
         \A i \in DOMAIN s : i > 1 /\ s[i].kind \in {"heading", "marker"} => InsideCode(s, i)
  BY DEF FlawsOf, Flaws
<1>13. "open" \notin FlawsOf(s) => Closed(s)
  BY <1>9, <1>11 DEF Closed
<1>14. ASSUME FlawsOf(s) = {} PROVE Sound(s)
  <2>1. Len(s) \in Nat /\ DOMAIN s = 1 .. Len(s)
    BY <1>10
  <2>2. ASSUME NEW i \in 2 .. Len(s), s[i].kind \in {"heading", "marker"}
        PROVE  InsideCode(s, i)
    <3>1. i \in DOMAIN s /\ i > 1
      BY <2>1
    <3>. QED BY <2>2, <3>1, <1>12, <1>14
  <2>3. s # <<>> => /\ s[1].kind = "marker" /\ Len(s) >= 2
                    /\ s[2].kind \notin {"heading", "marker"}
    BY <1>4, <1>9
  <2>. QED BY <2>2, <2>3, <1>13, <1>14 DEF Sound
<1>. QED BY <1>10, <1>13, <1>14 DEF s

(* What a prompt p keeps of the configured prompt b when the sections put in it *)
(* had the flaws f. *)
PromptFits(b, f, p) ==
    /\ p \in Seq(Line) /\ Ahead(b, p)
    /\ OneSection(b) /\ "open" \notin f => Behind(b, p)
    /\ Tidy(b) /\ f = {} => Tidy(p) /\ OwnLines(p) = OwnLines(b)

LEMMA BaseFits == \A b \in Seq(Line) : PromptFits(b, {}, b)
BY BaseBefore, BaseAfter DEF PromptFits

LEMMA FitsStays ==
    ASSUME NEW b, NEW f, NEW g, f \subseteq g, NEW p, PromptFits(b, f, p)
    PROVE  PromptFits(b, g, p)
BY DEF PromptFits

LEMMA FitsRefreshed ==
    ASSUME NEW b \in Seq(Line), NEW f, NEW p, PromptFits(b, f, p), NEW skills \in Catalogs
    PROVE  LET s == SkillsSection(skills)
           IN  PromptFits(b, f \cup FlawsOf(s), ReplaceSection(p, s))
<1>. DEFINE s == SkillsSection(skills)
            g == f \cup FlawsOf(s)
            q == ReplaceSection(p, s)
<1>1. p \in Seq(Line) /\ Ahead(b, p)
  BY DEF PromptFits
<1>2. /\ s \in Seq(Line)
      /\ "open" \notin FlawsOf(s) => Closed(s)
      /\ FlawsOf(s) = {} => Sound(s)
  BY SectionLines
<1>3. /\ "open" \notin g => "open" \notin f /\ "open" \notin FlawsOf(s)
      /\ g = {} => f = {} /\ FlawsOf(s) = {}
  OBVIOUS
<1>. HIDE DEF s, g
<1>4. q \in Seq(Line) /\ Ahead(b, q)
  BY <1>1, <1>2, AheadKept
<1>5. ASSUME OneSection(b), "open" \notin g PROVE Behind(b, q)
  <2>1. Closed(s) /\ Behind(b, p)
    BY <1>2, <1>3, <1>5 DEF PromptFits
  <2>. QED BY <2>1, <1>1, <1>2, <1>5, BehindKept
<1>6. ASSUME Tidy(b), g = {} PROVE Tidy(q) /\ OwnLines(q) = OwnLines(b)
  <2>1. Sound(s) /\ Tidy(p) /\ OwnLines(p) = OwnLines(b)
    BY <1>2, <1>3, <1>6 DEF PromptFits
  <2>2. Tidy(q) /\ OwnLines(q) = OwnLines(p)
    BY <2>1, <1>1, <1>2, OwnLinesKept
  <2>. QED BY <2>1, <2>2
<1>. HIDE DEF q
<1>7. PromptFits(b, g, q)
  BY <1>4, <1>5, <1>6 DEF PromptFits
<1>. QED BY <1>7 DEF s, g, q

-----------------------------------------------------------------------------
(***************************************************************************)
(* The skills, for any places, calls and entries of the directory.         *)
(*                                                                         *)
(* A call holds a prompt between reading and writing it, and meanwhile     *)
(* other calls write theirs: so it is said of every prompt a call holds,   *)
(* as of the current one, what it keeps of the configured prompt           *)
(* (PromptOK).  A creation is counted only where no file was, and a        *)
(* counted place has its file (FilesOK).                                   *)
(***************************************************************************)

(* Where a step works on a place, the place has been found. *)
Placed == {"check", "mkdir", "open", "read", "fill", "drop", "put"}

TaskRec == [op : Operations, step : Steps \cup {"set"}, place : Targets,
            text : Texts \cup {"", "bad"}, seen : Catalogs \cup Seq(Line), fd : BOOLEAN]

PromptOK(p) == PromptFits(base, flaws, p)

TaskFits(r) ==
    /\ r.step = "set" => PromptOK(r.seen)
    /\ r.step # "set" => r.seen \in Catalogs
    /\ r.step \in Placed => r.place \in Places
    /\ r.op \in {"create", "edit", "patch", "sync"} => r.text \in Texts \cup {"bad"}

TasksOK == task \in [Procs -> TaskRec] /\ \A c \in Procs : TaskFits(task[c])

FilesOK ==
    /\ disk \in [Places -> {"none", "bare", "torn", "bad"} \cup Texts]
    /\ linked \subseteq {p \in Places : disk[p] # "none"}
    /\ creations \in [Places -> Nat]
    /\ \A p \in Places : creations[p] <= 1 /\ (creations[p] # 0 => HasFile(p))

PromptsOK ==
    /\ calls \in 0 .. MaxCalls
    /\ catalog \in Catalogs
    /\ lastHash \in {"none", "bad"} \cup Texts
    /\ base \in BasePrompts /\ flaws \subseteq Flaws
    /\ PromptOK(prompt)

SkillsInv == TasksOK /\ FilesOK /\ PromptsOK

LEMMA SkillsBounds ==
    MaxCalls \in Nat /\ Len(Entries) \in Nat /\ DOMAIN Entries = 1 .. Len(Entries)
<1>1. Entries \in Seq({p[1] : p \in Places} \cup SkillName)
  BY SkillsAssumption
<1>2. MaxCalls \in Nat
  BY SkillsAssumption
<1>. QED BY <1>1, <1>2

LEMMA GreatestIn ==
    ASSUME NEW n \in Nat, NEW S, S \subseteq 0 .. n, S # {}
    PROVE  Greatest(S) \in S /\ \A j \in S : j <= Greatest(S)
<1>. DEFINE T == {n - i : i \in S}
<1>0. \A i \in S : i \in Nat /\ n - i \in Nat
  OBVIOUS
<1>1. T \subseteq Nat /\ T # {}
  BY <1>0
<1>2. PICK i \in S : n - i = Least(T)
  BY <1>1, LeastIn
<1>3. \A j \in S : n - i <= n - j
  BY <1>1, <1>2, LeastIn
<1>4. \A j \in S : j <= i
  BY <1>3, <1>0
<1>. QED BY <1>4 DEF Greatest

-----------------------------------------------------------------------------
(* The files. *)

LEMMA ListingIn == ASSUME FilesOK PROVE Listing \in Catalogs
<1>1. ASSUME NEW name \in Local
      PROVE  disk[PlaceVia(Entries[Greatest(Valid(name))], name)] \in Texts
  <2>1. Valid(name) # {} /\ Valid(name) \subseteq DOMAIN Entries
    BY DEF Local, Valid
  <2>2. Len(Entries) \in Nat /\ DOMAIN Entries = 1 .. Len(Entries)
    BY SkillsBounds
  <2>3. Valid(name) \subseteq 0 .. Len(Entries)
    BY <2>1, <2>2
  <2>4. Greatest(Valid(name)) \in Valid(name)
    BY <2>1, <2>2, <2>3, GreatestIn
  <2>. QED BY <2>4 DEF Valid
<1>2. PICK names \in SUBSET (SkillName \cup DOMAIN GlobalSkills) : GlobalSkills \in [names -> Texts]
  BY SkillsAssumption DEF Catalogs
<1>3. \A n \in DOMAIN GlobalSkills : GlobalSkills[n] \in Texts
  BY <1>2
<1>4. Local \cup DOMAIN GlobalSkills \in SUBSET (SkillName \cup DOMAIN GlobalSkills)
  BY DEF Local
<1>5. Listing \in [Local \cup DOMAIN GlobalSkills -> Texts]
  BY <1>1, <1>3 DEF Listing
<1>. QED BY <1>4, <1>5 DEF Catalogs

LEMMA FoundIn ==
    ASSUME NEW name
    PROVE  FoundAt(name) \in Targets /\ (FoundAt(name) # Nowhere => FoundAt(name) \in Places)
<1>. DEFINE Holding(p) == p \in Places /\ HasFile(p)
            via == {i \in DOMAIN Entries : Entries[i] # name /\ Holding(<<Entries[i], name>>)}
<1>1. FoundAt(name) = IF Holding(<<Root, name>>) THEN <<Root, name>>
                      ELSE IF via = {} THEN Nowhere ELSE <<Entries[Least(via)], name>>
  BY DEF FoundAt
<1>2. ASSUME via # {} PROVE <<Entries[Least(via)], name>> \in Places
  <2>1. via \subseteq Nat
    BY SkillsBounds
  <2>2. Least(via) \in via
    BY <1>2, <2>1, LeastIn
  <2>. QED BY <2>2
<1>. QED BY <1>1, <1>2 DEF Targets

(* A change of the files leaves every place with at most one creation. *)
LEMMA RemovalKeeps ==
    ASSUME FilesOK, NEW gone \in SUBSET Places, NEW left \in {"none", "bare"},
           left = "none" => linked' \cap gone = {}, linked' \subseteq linked,
           disk' = [q \in Places |-> IF q \in gone THEN left ELSE disk[q]],
           creations' = [q \in Places |-> IF q \in gone THEN 0 ELSE creations[q]]
    PROVE  FilesOK'
<1>1. disk' \in [Places -> {"none", "bare", "torn", "bad"} \cup Texts]
  BY DEF FilesOK
<1>2. creations' \in [Places -> Nat]
  BY DEF FilesOK
<1>3. linked' \subseteq {p \in Places : disk'[p] # "none"}
  BY DEF FilesOK
<1>4. \A p \in Places : creations'[p] <= 1 /\ (creations'[p] # 0 => disk'[p] \notin {"none", "bare"})
  BY DEF FilesOK, HasFile
<1>. QED BY <1>1, <1>2, <1>3, <1>4 DEF FilesOK, HasFile

LEMMA WritingKeeps ==
    ASSUME FilesOK, NEW p \in Places, NEW new \in {"torn", "bad"} \cup Texts,
           disk' = [disk EXCEPT ![p] = new], linked' = linked,
           creations' = [creations EXCEPT ![p] = IF HasFile(p) THEN @ ELSE 1]
           \/ creations' = [creations EXCEPT ![p] = IF @ = 0 THEN 1 ELSE @]
           \/ creations' = creations
    PROVE  FilesOK'
<1>1. disk' \in [Places -> {"none", "bare", "torn", "bad"} \cup Texts]
  BY DEF FilesOK
<1>2. creations' \in [Places -> Nat]
  BY DEF FilesOK
<1>3. disk'[p] \notin {"none", "bare"} /\ \A q \in Places \ {p} : disk'[q] = disk[q]
  BY SkillsAssumption DEF FilesOK
<1>4. \A q \in Places : creations'[q] <= 1 /\ (q # p => creations'[q] = creations[q])
  BY DEF FilesOK
<1>5. linked' \subseteq {q \in Places : disk'[q] # "none"}
  BY <1>3 DEF FilesOK
<1>6. \A q \in Places : creations'[q] # 0 => disk'[q] \notin {"none", "bare"}
  BY <1>3, <1>4 DEF FilesOK, HasFile
<1>. QED BY <1>1, <1>2, <1>4, <1>5, <1>6 DEF FilesOK, HasFile

LEMMA SameFiles == FilesOK /\ FilesKept => FilesOK'
BY DEF FilesOK, FilesKept, HasFile

-----------------------------------------------------------------------------
(* The calls. *)

LEMMA TaskTypes == \A r \in TaskRec :
    (r.step # "set" => r.seen \in Catalogs) /\ (r.step = "set" => r.seen \in Seq(Line)) => r \in Task
BY DEF TaskRec, Task

LEMMA NoTaskFits == NoTask \in TaskRec /\ TaskFits(NoTask) /\ NoTask.step # "set" /\ NoTask.op = "none"
<1>1. <<>> \in Catalogs
  <2>1. <<>> \in [{} -> Texts]
    OBVIOUS
  <2>. QED BY <2>1 DEF Catalogs
<1>2. NoTask \in TaskRec
  BY <1>1 DEF NoTask, Begun, TaskRec, Operations, Steps, Targets
<1>3. NoTask.op = "none" /\ NoTask.step = "idle" /\ NoTask.seen = <<>>
  BY DEF NoTask, Begun
<1>. QED BY <1>1, <1>2, <1>3 DEF TaskFits, Placed

LEMMA TaskChanges ==
    ASSUME TasksOK, base' = base, flaws' = flaws, NEW c \in Procs, NEW new \in TaskRec, TaskFits(new),
           task' = [task EXCEPT ![c] = new]
    PROVE  TasksOK'
<1>1. task' \in [Procs -> TaskRec] /\ \A d \in Procs : TaskFits(task'[d])
  BY DEF TasksOK
<1>2. \A d \in Procs : TaskFits(task[d])'
  BY <1>1 DEF TaskFits, PromptOK
<1>. QED BY <1>1, <1>2 DEF TasksOK

LEMMA CallEnds == TasksOK /\ base' = base /\ flaws' = flaws => \A c \in Procs : Done(c) => TasksOK'
BY TaskChanges, NoTaskFits DEF Done

LEMMA CallGoes ==
    ASSUME TasksOK, base' = base, flaws' = flaws, NEW c \in Procs, NEW step \in Steps, task[c].step # "set",
           step \in Placed => task[c].place \in Places,
           Goto(c, step) \/ (step = "fill" /\ Opened(c))
    PROVE  TasksOK'
<1>. DEFINE r == task[c]
<1>1. r \in TaskRec /\ TaskFits(r)
  BY DEF TasksOK
<1>2. CASE Goto(c, step)
  <2>. DEFINE new == [r EXCEPT !.step = step]
  <2>1. task' = [task EXCEPT ![c] = new]
    BY <1>2 DEF Goto
  <2>2. new \in TaskRec /\ new.step = step /\ new.place = r.place /\ new.seen = r.seen
        /\ new.op = r.op /\ new.text = r.text
    BY <1>1 DEF TaskRec
  <2>. HIDE DEF new, r
  <2>3. step # "set" /\ r.seen \in Catalogs
    BY <1>1 DEF Steps, TaskFits, r
  <2>4. TaskFits(new)
    BY <1>1, <2>2, <2>3 DEF TaskFits, r
  <2>. QED BY <2>1, <2>2, <2>4, TaskChanges
<1>3. CASE step = "fill" /\ Opened(c)
  <2>. DEFINE new == [r EXCEPT !.step = "fill", !.fd = TRUE]
  <2>1. task' = [task EXCEPT ![c] = new]
    BY <1>3 DEF Opened
  <2>2. new \in TaskRec /\ new.step = step /\ new.place = r.place /\ new.seen = r.seen
        /\ new.op = r.op /\ new.text = r.text
    BY <1>1, <1>3 DEF TaskRec
  <2>. HIDE DEF new, r
  <2>3. step # "set" /\ r.seen \in Catalogs
    BY <1>1 DEF Steps, TaskFits, r
  <2>4. TaskFits(new)
    BY <1>1, <2>2, <2>3 DEF TaskFits, r
  <2>. QED BY <2>1, <2>2, <2>4, TaskChanges
<1>. QED BY <1>2, <1>3

LEMMA SamePrompts == PromptsOK /\ PromptKept /\ UNCHANGED <<calls, lastHash>> => PromptsOK'
BY DEF PromptsOK, PromptKept, PromptOK

LEMMA SkillsInitInv == SkillsInit => SkillsInv
<1>. SUFFICES ASSUME SkillsInit PROVE SkillsInv
  OBVIOUS
<1>1. FilesOK
  <2>1. PICK p \in Places, t \in Texts :
           disk = [q \in Places |-> IF q = p /\ p[2] # AutoName THEN t ELSE "none"]
    BY DEF SkillsInit
  <2>2. disk \in [Places -> {"none"} \cup Texts]
    BY <2>1
  <2>3. creations = [q \in Places |-> IF disk[q] = "none" THEN 0 ELSE 1]
    BY DEF SkillsInit
  <2>4. creations \in [Places -> Nat] /\ \A q \in Places : creations[q] <= 1
    BY <2>3
  <2>5. \A q \in Places : creations[q] # 0 => disk[q] \notin {"none", "bare"}
    <3>1. \A q \in Places : creations[q] # 0 => disk[q] # "none"
      BY <2>3
    <3>2. "bare" \notin Texts
      BY SkillsAssumption
    <3>. QED BY <3>1, <3>2, <2>2
  <2>. QED BY <2>2, <2>4, <2>5 DEF SkillsInit, FilesOK, HasFile
<1>2. TasksOK
  BY NoTaskFits DEF SkillsInit, TasksOK
<1>3. PromptsOK
  <2>1. base \in BasePrompts /\ base \in Seq(Line)
    BY SkillsAssumption DEF SkillsInit
  <2>2. Listing \in Catalogs
    BY <1>1, ListingIn
  <2>3. flaws = {} \cup FlawsOf(SkillsSection(Listing))
        /\ prompt = ReplaceSection(base, SkillsSection(Listing))
    BY DEF SkillsInit
  <2>4. PromptOK(prompt) /\ flaws \subseteq Flaws
    <3>1. PromptFits(base, {}, base)
      BY <2>1, BaseFits
    <3>2. PromptFits(base, {} \cup FlawsOf(SkillsSection(Listing)),
                     ReplaceSection(base, SkillsSection(Listing)))
      BY <2>1, <2>2, <3>1, FitsRefreshed
    <3>. QED BY <2>3, <3>2 DEF PromptOK, FlawsOf
  <2>5. calls \in 0 .. MaxCalls
    BY SkillsBounds DEF SkillsInit
  <2>. QED BY <2>1, <2>2, <2>4, <2>5 DEF SkillsInit, PromptsOK
<1>. QED BY <1>1, <1>2, <1>3 DEF SkillsInv

(* What a call has at hand. *)
LEMMA TaskAt ==
    ASSUME SkillsInv, NEW c \in Procs
    PROVE  /\ task[c] \in TaskRec /\ TaskFits(task[c])
           /\ task[c].op \in Operations /\ task[c].step \in Steps \cup {"set"}
           /\ task[c].step \in Placed => task[c].place \in Places
           /\ task[c].op \in {"create", "edit", "patch", "sync"} => task[c].text \in Texts \cup {"bad"}
           /\ task[c].place \in Targets
           /\ task[c].step # "set" => task[c].seen \in Catalogs
           /\ task[c].step = "set" => PromptOK(task[c].seen)
<1>1. task[c] \in TaskRec /\ TaskFits(task[c])
  BY DEF SkillsInv, TasksOK
<1>2. task[c].op \in Operations /\ task[c].step \in Steps \cup {"set"} /\ task[c].place \in Targets
  BY <1>1 DEF TaskRec
<1>. QED BY <1>1, <1>2 DEF TaskFits

LEMMA OneMore == \A m \in Nat : \A n \in 0 .. m : n < m => n + 1 \in 0 .. m
OBVIOUS

(* A new operation begins. *)
LEMMA StartKeeps ==
    ASSUME SkillsInv, NEW c \in Procs, NEW op \in Operations, NEW step \in Steps,
           NEW place \in Targets, NEW text \in Texts \cup {"", "bad"},
           step \in Placed => place \in Places,
           op \in {"create", "edit", "patch", "sync"} => text # "",
           Begins(c, op, step, place, text),
           calls < MaxCalls, calls' = calls + 1,
           lastHash' \in {"none", "bad"} \cup Texts, FilesKept, PromptKept
    PROVE  SkillsInv'
<1>. DEFINE new == Begun(op, step, place, text)
<1>1. NoTask.seen \in Catalogs /\ NoTask.seen = <<>>
  <2>1. NoTask.seen \in Catalogs
    BY NoTaskFits DEF TaskFits
  <2>. QED BY <2>1 DEF NoTask, Begun
<1>2. /\ new.op = op /\ new.step = step /\ new.place = place
      /\ new.text = text /\ new.seen = <<>>
  BY DEF Begun
<1>3. step # "set" /\ new \in TaskRec
  BY <1>1 DEF Begun, TaskRec, Steps
<1>. HIDE DEF new
<1>4. TaskFits(new)
  BY <1>1, <1>2, <1>3 DEF TaskFits
<1>5. TasksOK'
  BY <1>3, <1>4, TaskChanges DEF new, Begins, SkillsInv, PromptKept
<1>6. calls' \in 0 .. MaxCalls
  <2>1. MaxCalls \in Nat /\ calls \in 0 .. MaxCalls
    BY SkillsBounds DEF SkillsInv, PromptsOK
  <2>. QED BY <2>1, OneMore
<1>7. PromptsOK'
  BY <1>6 DEF SkillsInv, PromptsOK, PromptKept, PromptOK
<1>. QED BY <1>5, <1>7, SameFiles DEF SkillsInv

LEMMA StartsKeep ==
    SkillsInv /\ (SyncerWakes \/ \E c \in Calls : StartOp(c)) => SkillsInv'
<1>. SUFFICES ASSUME SkillsInv, SyncerWakes \/ \E c \in Calls : StartOp(c) PROVE SkillsInv'
  OBVIOUS
<1>. lastHash \in {"none", "bad"} \cup Texts
  BY DEF SkillsInv, PromptsOK
<1>0. /\ Nowhere \in Targets
      /\ \A n \in SkillName : <<Root, n>> \in Targets
      /\ \A p \in Places : p \in Targets
  BY DEF Targets
<1>9. "" \notin Texts /\ <<Root, AutoName>> \in Places
  BY SkillsAssumption
<1>1. CASE SyncerWakes
  <2>1. PICK t \in Texts \cup {"bad"} :
           /\ lastHash' = t
           /\ Begins(Syncer, "sync", "mkdir", <<Root, AutoName>>, t)
    BY <1>1 DEF SyncerWakes
  <2>2. /\ calls < MaxCalls /\ calls' = calls + 1 /\ FilesKept /\ PromptKept
        /\ Syncer \in Procs /\ "sync" \in Operations /\ "mkdir" \in Steps /\ t # ""
    BY <1>1, <1>9 DEF SyncerWakes, Procs, Operations, Steps
  <2>. QED BY <2>1, <2>2, <1>0, <1>9, StartKeeps
<1>2. ASSUME NEW c \in Calls, StartOp(c) PROVE SkillsInv'
  <2>1. /\ calls < MaxCalls /\ calls' = calls + 1 /\ FilesKept /\ PromptKept
        /\ c \in Procs /\ lastHash' = lastHash
    BY <1>2 DEF StartOp, Procs
  <2>2. ASSUME NEW op \in Operations, NEW step \in Steps, NEW place \in Targets,
               NEW text \in Texts \cup {"", "bad"}, step \in Placed => place \in Places,
               op \in {"create", "edit", "patch", "sync"} => text # "",
               Begins(c, op, step, place, text)
        PROVE  SkillsInv'
    BY <2>1, <2>2, StartKeeps
  <2>3. /\ {"create", "edit", "patch", "delete", "write", "remove", "reload"} \subseteq Operations
        /\ {"check", "find", "load"} \subseteq Steps
        /\ "find" \notin Placed /\ "load" \notin Placed
    BY DEF Operations, Steps, Placed
  <2>4. ASSUME NEW p \in Places, NEW t \in Texts, Begins(c, "create", "check", p, t)
        PROVE  SkillsInv'
    BY <2>2, <2>3, <2>4, <1>0, <1>9
  <2>5. ASSUME NEW op \in {"edit", "patch"}, NEW n \in SkillName, NEW t \in Texts,
               Begins(c, op, "find", <<Root, n>>, t)
        PROVE  SkillsInv'
    BY <2>2, <2>3, <2>5, <1>0, <1>9
  <2>6. ASSUME NEW op \in {"delete", "write", "remove"}, NEW n \in SkillName,
               Begins(c, op, "find", <<Root, n>>, "")
        PROVE  SkillsInv'
    BY <2>2, <2>3, <2>6, <1>0
  <2>7. ASSUME Begins(c, "reload", "load", Nowhere, "")
        PROVE  SkillsInv'
    BY <2>2, <2>3, <2>7, <1>0
  <2>. QED BY <1>2, <2>4, <2>5, <2>6, <2>7 DEF StartOp
<1>. QED BY <1>1, <1>2

(* A step of a call that leaves the files and the prompt alone. *)
LEMMA MoveKeeps ==
    ASSUME SkillsInv, TasksOK', FilesKept, PromptKept, UNCHANGED <<calls, lastHash>>
    PROVE  SkillsInv'
BY SameFiles, SamePrompts DEF SkillsInv

LEMMA CallKeeps ==
    ASSUME SkillsInv, NEW c \in Procs,
           \/ CreateCheck(c) \/ FindDir(c) \/ PatchRead(c) \/ Load(c) \/ LoadFails(c)
    PROVE  SkillsInv'
<1>. DEFINE r == task[c]
<1>1. /\ FilesKept /\ PromptKept /\ UNCHANGED <<calls, lastHash>>
      /\ base' = base /\ flaws' = flaws /\ TasksOK /\ FilesOK
  BY DEF SkillsInv, CreateCheck, FindDir, PatchRead, Load, LoadFails, PromptKept
<1>2. /\ r \in TaskRec /\ TaskFits(r)
      /\ r.step # "set" => r.seen \in Catalogs
      /\ r.step \in Placed => r.place \in Places
  BY TaskAt
<1>. SUFFICES TasksOK'
  BY <1>1, MoveKeeps
<1>3. CASE Done(c)
  BY <1>1, <1>3, CallEnds
<1>4. ASSUME NEW step \in Steps, Goto(c, step), r.step \in Placed
      PROVE  TasksOK'
  <2>1. r.step # "set" /\ r.place \in Places
    BY <1>2, <1>4 DEF Placed
  <2>. QED BY <1>1, <1>4, <2>1, CallGoes
<1>5. {"mkdir", "open", "read", "drop", "get", "swap"} \subseteq Steps
      /\ {"check", "read"} \subseteq Placed /\ "set" \notin {"find", "load"}
  BY DEF Steps, Placed
<1>6. CASE CreateCheck(c)
  <2>1. r.step = "check" /\ (Done(c) \/ Goto(c, "mkdir"))
    BY <1>6 DEF CreateCheck, At
  <2>. QED BY <2>1, <1>3, <1>4, <1>5
<1>7. CASE PatchRead(c)
  <2>1. r.step = "read" /\ (Done(c) \/ Goto(c, "open"))
    BY <1>7 DEF PatchRead, At
  <2>. QED BY <2>1, <1>3, <1>4, <1>5
<1>8. CASE LoadFails(c)
  BY <1>3, <1>8 DEF LoadFails
<1>9. ASSUME NEW new \in TaskRec, task' = [task EXCEPT ![c] = new], TaskFits(new)
      PROVE  TasksOK'
  BY <1>1, <1>9, TaskChanges
<1>10. CASE FindDir(c)
  <2>. DEFINE p == FoundAt(r.place[2])
              step == CASE r.op = "edit" -> "open"
                        [] r.op = "patch" -> "read"
                        [] r.op = "delete" -> "drop"
                        [] r.op = "write" -> "mkdir"
                        [] r.op = "remove" -> "drop"
              new == [r EXCEPT !.place = p, !.step = step]
  <2>1. /\ r.op \in {"edit", "patch", "delete", "write", "remove"} /\ r.step = "find"
        /\ Done(c) \/ (p # Nowhere /\ task' = [task EXCEPT ![c] = new])
    BY <1>10 DEF FindDir, At
  <2>2. CASE p # Nowhere /\ task' = [task EXCEPT ![c] = new]
    <3>1. step \in Steps
      BY <2>1, <1>5
    <3>3. p \in Places /\ p \in Targets
      BY <2>2, FoundIn DEF Targets
    <3>. HIDE DEF p, step
    <3>4. new \in TaskRec /\ new.step = step /\ new.place = p /\ new.seen = r.seen
          /\ new.op = r.op /\ new.text = r.text
      BY <1>2, <3>1, <3>3 DEF TaskRec
    <3>5. r.seen \in Catalogs /\ step # "set"
      BY <1>2, <2>1, <3>1 DEF Steps
    <3>. HIDE DEF new, r
    <3>6. TaskFits(new)
      BY <3>3, <3>4, <3>5, <1>2 DEF TaskFits
    <3>. QED BY <2>2, <3>4, <3>6, <1>9
  <2>. QED BY <2>1, <2>2, <1>3
<1>11. CASE Load(c)
  <2>. DEFINE step == IF r.op = "reload" THEN "swap" ELSE "get"
              new == [r EXCEPT !.seen = Listing, !.step = step]
  <2>1. r.step = "load" /\ task' = [task EXCEPT ![c] = new]
    BY <1>11 DEF Load, At
  <2>2. Listing \in Catalogs
    BY <1>1, ListingIn
  <2>3. step \in Steps /\ step \notin Placed /\ step # "set"
    BY <1>5 DEF Placed
  <2>. HIDE DEF step
  <2>4. new \in TaskRec /\ new.step = step /\ new.seen = Listing
        /\ new.op = r.op /\ new.text = r.text
    BY <1>2, <2>2, <2>3 DEF TaskRec
  <2>. HIDE DEF new, r
  <2>5. TaskFits(new)
    BY <2>2, <2>3, <2>4, <1>2 DEF TaskFits
  <2>. QED BY <2>1, <2>4, <2>5, <1>9
<1>. QED BY <1>6, <1>7, <1>8, <1>10, <1>11

(* A refreshed prompt is kept by its call; what other calls hold fits as before *)
(* when the new section adds a flaw. *)
LEMMA ReadKeeps ==
    ASSUME SkillsInv, NEW c \in Procs, ReadPrompt(c)
    PROVE  SkillsInv'
<1>. DEFINE r == task[c]
            s == SkillsSection(r.seen)
            q == ReplaceSection(prompt, s)
            new == [r EXCEPT !.seen = q, !.step = "set"]
<1>1. /\ FilesKept /\ UNCHANGED <<calls, lastHash, catalog, base, prompt>>
      /\ TasksOK /\ FilesOK /\ PromptsOK /\ r \in TaskRec /\ r.step = "get"
      /\ flaws' = flaws \cup FlawsOf(s)
  BY TaskAt DEF SkillsInv, ReadPrompt, At
<1>2. task' = [task EXCEPT ![c] = new]
  <2>1. task' = [task EXCEPT ![c].seen = ReplaceSection(prompt, SkillsSection(@)),
                             ![c].step = "set"]
    BY DEF ReadPrompt
  <2>. QED BY <2>1
<1>3. flaws \subseteq flaws' /\ flaws' \subseteq Flaws
  BY <1>1 DEF FlawsOf, PromptsOK
<1>4. PromptFits(base, flaws', q) /\ q \in Seq(Line)
  <2>1. base \in Seq(Line) /\ PromptFits(base, flaws, prompt)
    BY <1>1, SkillsAssumption DEF PromptsOK, PromptOK
  <2>2. r.seen \in Catalogs
    BY <1>1, TaskAt
  <2>3. PromptFits(base, flaws \cup FlawsOf(s), q)
    BY <2>1, <2>2, FitsRefreshed
  <2>. HIDE DEF q, s
  <2>. QED BY <2>3, <1>1 DEF PromptFits
<1>. HIDE DEF q, s
<1>5. /\ new \in TaskRec /\ new.step = "set" /\ new.seen = q
      /\ new.op = r.op /\ new.text = r.text
  BY <1>1, <1>4 DEF TaskRec
<1>6. TaskFits(r)
  BY <1>1 DEF TasksOK
<1>. HIDE DEF new, r
<1>7. ASSUME NEW d \in Procs PROVE task'[d] \in TaskRec /\ TaskFits(task[d])'
  <2>1. CASE d = c
    <3>1. task'[d] = new
      BY <2>1, <1>1, <1>2 DEF TasksOK
    <3>2. "set" \notin Placed
      BY DEF Placed
    <3>. QED BY <3>1, <3>2, <1>1, <1>4, <1>5, <1>6 DEF TaskFits, PromptOK
  <2>2. CASE d # c
    <3>1. task'[d] = task[d] /\ task[d] \in TaskRec /\ TaskFits(task[d])
      BY <2>2, <1>1, <1>2 DEF TasksOK
    <3>2. task[d].step = "set" => PromptFits(base, flaws', task[d].seen)
      <4>1. task[d].step = "set" => PromptFits(base, flaws, task[d].seen)
        BY <3>1 DEF TaskFits, PromptOK
      <4>. QED BY <4>1, <1>3, FitsStays
    <3>. QED BY <3>1, <3>2, <1>1 DEF TaskFits, PromptOK
  <2>. QED BY <2>1, <2>2
<1>8. TasksOK'
  <2>1. task' \in [Procs -> TaskRec]
    BY <1>1, <1>2, <1>5 DEF TasksOK
  <2>. QED BY <2>1, <1>7 DEF TasksOK
<1>9. PromptsOK'
  <2>1. PromptFits(base, flaws', prompt)
    BY <1>1, <1>3, FitsStays DEF PromptsOK, PromptOK
  <2>. QED BY <2>1, <1>1, <1>3 DEF PromptsOK, PromptOK
<1>. QED BY <1>1, <1>8, <1>9, SameFiles DEF SkillsInv

(* The refreshed prompt and the reloaded index take the place of the old ones. *)
LEMMA PutKeeps ==
    ASSUME SkillsInv, NEW c \in Procs, WritePrompt(c) \/ SwapCatalog(c)
    PROVE  SkillsInv'
<1>1. /\ FilesKept /\ base' = base /\ flaws' = flaws /\ Done(c) /\ TasksOK /\ FilesOK
      /\ UNCHANGED <<calls, lastHash>>
  BY DEF SkillsInv, WritePrompt, SwapCatalog
<1>2. TasksOK' /\ FilesOK'
  BY <1>1, CallEnds, SameFiles
<1>3. CASE WritePrompt(c)
  <2>1. PromptOK(task[c].seen)
    BY <1>3, TaskAt DEF WritePrompt, At
  <2>2. prompt' = task[c].seen /\ catalog' = catalog
    BY <1>3 DEF WritePrompt
  <2>3. PromptOK(prompt)'
    BY <2>1, <2>2, <1>1 DEF PromptOK
  <2>. QED BY <1>1, <1>2, <2>2, <2>3 DEF SkillsInv, PromptsOK
<1>4. CASE SwapCatalog(c)
  <2>1. task[c].seen \in Catalogs
    BY <1>4, TaskAt DEF SwapCatalog, At
  <2>2. catalog' = task[c].seen /\ prompt' = prompt
    BY <1>4 DEF SwapCatalog
  <2>3. PromptOK(prompt)'
    BY <2>2, <1>1 DEF PromptOK, SkillsInv, PromptsOK
  <2>. QED BY <1>1, <1>2, <2>1, <2>2, <2>3 DEF SkillsInv, PromptsOK
<1>. QED BY <1>3, <1>4

(* The steps that change the files. *)
LEMMA FileStepKeeps ==
    ASSUME SkillsInv, NEW c \in Procs,
           \/ MakeDir(c) \/ CreateOpen(c) \/ Truncate(c) \/ Fill(c) \/ FillFails(c)
           \/ Drop(c) \/ PutLinked(c)
    PROVE  SkillsInv'
<1>. DEFINE r == task[c]
            p == task[c].place
<1>1. /\ PromptKept /\ UNCHANGED <<calls, lastHash>> /\ base' = base /\ flaws' = flaws
      /\ TasksOK /\ FilesOK /\ r \in TaskRec
  BY DEF SkillsInv, TasksOK, MakeDir, CreateOpen, Truncate, Fill, FillFails, Drop, PutLinked, PromptKept
<1>2. r.step \in Placed /\ p \in Places /\ r.step # "set"
  <2>1. r.step \in Placed
    BY DEF MakeDir, CreateOpen, Truncate, Fill, FillFails, Drop, PutLinked, At, Placed
  <2>. QED BY <2>1, TaskAt DEF Placed
<1>. SUFFICES TasksOK' /\ FilesOK'
  BY <1>1, SamePrompts DEF SkillsInv
<1>3. {"open", "put", "fill", "load"} \subseteq Steps
  BY DEF Steps
<1>4. ASSUME NEW step \in Steps, Goto(c, step) PROVE TasksOK'
  BY <1>1, <1>2, <1>4, CallGoes
<1>5. ASSUME Done(c) PROVE TasksOK'
  BY <1>1, <1>5, CallEnds
<1>6. ASSUME Opened(c) PROVE TasksOK'
  BY <1>1, <1>2, <1>3, <1>6, CallGoes
<1>7. ASSUME UNCHANGED <<disk, linked, creations>> PROVE FilesOK'
  BY <1>1, <1>7, SameFiles DEF FilesKept
<1>. DEFINE places == IF r.op = "delete" THEN RemovedWith(p) ELSE {p}
<1>8. ASSUME NEW new \in TaskRec, TaskFits(new), NEW gone, task' = [Unlinked(gone) EXCEPT ![c] = new]
      PROVE  TasksOK'
  <2>1. ASSUME NEW d \in Procs \ {c}
        PROVE  task'[d] \in TaskRec /\ TaskFits(task'[d])
    <3>1. task'[d] \in {task[d], [task[d] EXCEPT !.fd = FALSE]}
      BY <1>8 DEF Unlinked
    <3>2. task[d] \in TaskRec /\ TaskFits(task[d])
      BY <1>1 DEF TasksOK
    <3>. DEFINE closed == [task[d] EXCEPT !.fd = FALSE]
    <3>3. /\ closed \in TaskRec /\ closed.step = task[d].step /\ closed.place = task[d].place
          /\ closed.seen = task[d].seen /\ closed.op = task[d].op /\ closed.text = task[d].text
      BY <3>2 DEF TaskRec
    <3>. HIDE DEF closed
    <3>4. TaskFits(closed)
      BY <3>2, <3>3 DEF TaskFits
    <3>. QED BY <3>1, <3>2, <3>3, <3>4 DEF closed
  <2>2. task' \in [Procs -> TaskRec] /\ \A d \in Procs : TaskFits(task'[d])
    <3>1. task'[c] = new /\ task' = [d \in Procs |-> task'[d]]
      BY <1>8 DEF Unlinked
    <3>. QED BY <2>1, <3>1, <1>8
  <2>3. \A d \in Procs : TaskFits(task[d])'
    BY <2>2, <1>1 DEF TaskFits, PromptOK
  <2>. QED BY <2>2, <2>3 DEF TasksOK
<1>9. CASE MakeDir(c)
  <2>1. Goto(c, "open") \/ Goto(c, "put")
    BY <1>9 DEF MakeDir, At
  <2>2. FilesOK'
    <3>1. /\ linked' = linked /\ creations' = creations
          /\ disk' = disk \/ (disk[p] = "none" /\ disk' = [disk EXCEPT ![p] = "bare"])
      BY <1>9 DEF MakeDir
    <3>2. CASE disk[p] = "none" /\ disk' = [disk EXCEPT ![p] = "bare"]
      <4>1. \A q \in Places : disk'[q] = IF q = p THEN "bare" ELSE disk[q]
        BY <3>2, <1>1 DEF FilesOK
      <4>2. disk' \in [Places -> {"none", "bare", "torn", "bad"} \cup Texts]
        BY <3>2, <1>1 DEF FilesOK
      <4>3. \A q \in Places : creations[q] # 0 => q # p
        BY <3>2, <1>1 DEF FilesOK, HasFile
      <4>. QED BY <3>1, <4>1, <4>2, <4>3, <1>1 DEF FilesOK, HasFile
    <3>. QED BY <3>1, <3>2, <1>7
  <2>. QED BY <2>1, <2>2, <1>3, <1>4
<1>10. CASE CreateOpen(c)
  <2>1. \/ Done(c) /\ UNCHANGED <<disk, creations, linked>>
        \/ /\ disk[p] = "bare" /\ disk' = [disk EXCEPT ![p] = "torn"]
           /\ creations' = [creations EXCEPT ![p] = @ + 1] /\ Opened(c) /\ linked' = linked
    BY <1>10 DEF CreateOpen
  <2>2. CASE /\ disk[p] = "bare" /\ disk' = [disk EXCEPT ![p] = "torn"]
             /\ creations' = [creations EXCEPT ![p] = @ + 1] /\ Opened(c) /\ linked' = linked
    <3>1. creations[p] = 0
      BY <2>2, <1>1, <1>2 DEF FilesOK, HasFile
    <3>2. creations' = [creations EXCEPT ![p] = IF @ = 0 THEN 1 ELSE @]
      BY <2>2, <3>1
    <3>3. FilesOK'
      BY <2>2, <3>2, <1>1, <1>2, WritingKeeps
    <3>. QED BY <2>2, <3>3, <1>6
  <2>. QED BY <2>1, <2>2, <1>5, <1>7
<1>11. CASE Truncate(c)
  <2>1. \/ Done(c) /\ UNCHANGED <<disk, creations, linked>>
        \/ /\ disk' = [disk EXCEPT ![p] = "torn"]
           /\ creations' = [creations EXCEPT ![p] = IF @ = 0 THEN 1 ELSE @]
           /\ Opened(c) /\ linked' = linked
    BY <1>11 DEF Truncate
  <2>2. CASE /\ disk' = [disk EXCEPT ![p] = "torn"]
             /\ creations' = [creations EXCEPT ![p] = IF @ = 0 THEN 1 ELSE @]
             /\ Opened(c) /\ linked' = linked
    BY <2>2, <1>1, <1>2, <1>6, WritingKeeps
  <2>. QED BY <2>1, <2>2, <1>5, <1>7
<1>12. CASE Fill(c)
  <2>1. r.text \in {"torn", "bad"} \cup Texts
    BY <1>12, TaskAt DEF Fill, At
  <2>2. /\ linked' = linked /\ creations' = creations
        /\ disk' = disk \/ disk' = [disk EXCEPT ![p] = r.text]
        /\ Done(c) \/ Goto(c, "load")
    BY <1>12 DEF Fill
  <2>3. FilesOK'
    <3>1. CASE disk' = disk
      BY <2>2, <3>1, <1>7
    <3>2. CASE disk' = [disk EXCEPT ![p] = r.text]
      <4>. HIDE DEF r, p
      <4>. QED BY <2>1, <2>2, <3>2, <1>1, <1>2, WritingKeeps
    <3>. QED BY <2>2, <3>1, <3>2
  <2>. QED BY <2>2, <2>3, <1>3, <1>4, <1>5
<1>13. CASE FillFails(c)
  <2>1. CASE r.op = "create"
    <3>. DEFINE gone == IF disk[p] = "none" THEN {} ELSE {p}
                left == IF p \in linked THEN "bare" ELSE "none"
    <3>1. /\ task' = [Unlinked({p}) EXCEPT ![c] = NoTask] /\ linked' = linked
          /\ disk' = [disk EXCEPT ![p] = IF @ = "none" THEN @ ELSE left]
          /\ creations' = [creations EXCEPT ![p] = 0]
      BY <1>13, <2>1 DEF FillFails
    <3>2. disk[p] = "none" => creations[p] = 0
      BY <1>1, <1>2 DEF FilesOK, HasFile
    <3>3. /\ disk \in [Places -> {"none", "bare", "torn", "bad"} \cup Texts]
          /\ creations \in [Places -> Nat]
      BY <1>1 DEF FilesOK
    <3>4. disk' = [q \in Places |-> IF q \in gone THEN left ELSE disk[q]]
      BY <3>1, <3>3
    <3>5. creations' = [q \in Places |-> IF q \in gone THEN 0 ELSE creations[q]]
      BY <3>1, <3>2, <3>3
    <3>6. gone \in SUBSET Places /\ left \in {"none", "bare"} /\ (left = "none" => linked' \cap gone = {})
      BY <3>1, <1>2
    <3>. HIDE DEF gone, left
    <3>7. FilesOK'
      <4>1. FilesOK /\ linked' \subseteq linked
        BY <3>1, <1>1
      <4>. QED BY <4>1, <3>4, <3>5, <3>6, RemovalKeeps
    <3>. QED BY <3>1, <3>7, <1>8, NoTaskFits
  <2>2. CASE r.op # "create"
    <3>1. Done(c) /\ UNCHANGED <<disk, creations, linked>>
      BY <1>13, <2>2 DEF FillFails
    <3>. QED BY <3>1, <1>5, <1>7
  <2>. QED BY <2>1, <2>2
<1>14. CASE Drop(c)
  <2>1. CASE r.op = "delete"
    <3>. DEFINE gone == RemovedWith(p)
                new == [r EXCEPT !.step = "load"]
                newer == [r EXCEPT !.step = "load", !.fd = FALSE]
    <3>1. /\ r.step = "drop"
          /\ disk' = [q \in Places |-> IF q \in gone THEN "none" ELSE disk[q]]
          /\ creations' = [q \in Places |-> IF q \in gone THEN 0 ELSE creations[q]]
          /\ linked' = linked \ gone
          /\ task' = [Unlinked(gone) EXCEPT ![c].step = "load"]
      BY <1>14, <2>1 DEF Drop, At
    <3>2. gone \in SUBSET Places
      BY DEF RemovedWith
    <3>3. FilesOK'
      <4>. HIDE DEF gone
      <4>1. linked' \cap gone = {} /\ linked' \subseteq linked
        BY <3>1
      <4>. QED BY <3>1, <3>2, <4>1, <1>1, RemovalKeeps
    <3>4. /\ new \in TaskRec /\ newer \in TaskRec /\ new.step = "load" /\ newer.step = "load"
          /\ new.op = r.op /\ newer.op = r.op /\ new.seen = r.seen /\ newer.seen = r.seen
      BY <1>1, <1>3 DEF TaskRec
    <3>5. r.seen \in Catalogs /\ "load" \notin Placed
      BY <3>1, TaskAt DEF Placed
    <3>6. TaskFits(new) /\ TaskFits(newer)
      <4>. HIDE DEF new, newer, r
      <4>. QED BY <2>1, <3>4, <3>5 DEF TaskFits
    <3>7. task' = [Unlinked(gone) EXCEPT ![c] = [Unlinked(gone)[c] EXCEPT !.step = "load"]]
      BY <3>1
    <3>8. Unlinked(gone)[c] \in {r, [r EXCEPT !.fd = FALSE]}
      BY DEF Unlinked
    <3>9. [Unlinked(gone)[c] EXCEPT !.step = "load"] \in {new, newer}
      BY <3>8
    <3>. HIDE DEF new, newer
    <3>. QED BY <3>3, <3>4, <3>6, <3>7, <3>9, <1>8
  <2>2. CASE r.op = "remove"
    <3>1. Done(c) /\ UNCHANGED <<disk, creations>> /\ linked' = linked \ {p}
      BY <1>14, <2>2 DEF Drop, At
    <3>2. FilesOK'
      BY <3>1, <1>1 DEF FilesOK, HasFile
    <3>. QED BY <3>1, <3>2, <1>5
  <2>. QED BY <1>14, <2>1, <2>2 DEF Drop, At
<1>15. CASE PutLinked(c)
  <2>1. /\ Done(c) /\ UNCHANGED <<disk, creations>>
        /\ linked' = IF disk[p] = "none" THEN linked ELSE linked \cup {p}
    BY <1>15 DEF PutLinked
  <2>2. FilesOK'
    BY <2>1, <1>1, <1>2 DEF FilesOK, HasFile
  <2>. QED BY <2>1, <2>2, <1>5
<1>. QED BY <1>9, <1>10, <1>11, <1>12, <1>13, <1>14, <1>15

LEMMA SkillsStepInv == SkillsInv /\ [SkillsNext]_skillVars => SkillsInv'
<1>. SUFFICES ASSUME SkillsInv, [SkillsNext]_skillVars PROVE SkillsInv'
  OBVIOUS
<1>1. CASE UNCHANGED skillVars
  <2>1. TasksOK'
    BY <1>1 DEF skillVars, SkillsInv, TasksOK, TaskFits, PromptOK
  <2>. QED BY <1>1, <2>1, SameFiles, SamePrompts DEF skillVars, SkillsInv, FilesKept, PromptKept
<1>. QED BY <1>1, StartsKeep, CallKeeps, ReadKeeps, PutKeeps, FileStepKeeps DEF SkillsNext

(* The index, the files, the calls under way and the prompt fit each other. *)
THEOREM SkillsInvariant == SkillsSpec => []SkillsInv
BY SkillsInitInv, SkillsStepInv, PTL DEF SkillsSpec

LEMMA SkillsTypes == SkillsInv => SkillsTypeOK
<1>. SUFFICES ASSUME SkillsInv PROVE SkillsTypeOK
  OBVIOUS
<1>1. \A c \in Procs : task[c] \in Task
  <2>. TAKE c \in Procs
  <2>1. task[c] \in TaskRec /\ (task[c].step # "set" => task[c].seen \in Catalogs)
        /\ (task[c].step = "set" => task[c].seen \in Seq(Line))
    BY TaskAt DEF PromptOK, PromptFits
  <2>. QED BY <2>1, TaskTypes
<1>2. task \in [Procs -> Task]
  BY <1>1 DEF SkillsInv, TasksOK
<1>. QED BY <1>2 DEF SkillsInv, FilesOK, PromptsOK, PromptOK, PromptFits, SkillsTypeOK

(* Of the calls that create a skill at one place at most one makes the file: *)
(* who makes it finds none there, and what was made is gone from there only   *)
(* by a removal.                                                              *)
THEOREM OneCreation == SkillsSpec => []CreatedOnce
<1>1. SkillsInv => CreatedOnce
  BY DEF SkillsInv, FilesOK, CreatedOnce
<1>. QED BY <1>1, SkillsInvariant, PTL

(* The user's own lines survive every refresh, also of several calls at the  *)
(* same time and whatever the descriptions hold: those before the section     *)
(* always, those after it as long as no description left a block of code      *)
(* open.  Whoever writes a prompt back has read one with all of them.         *)
THEOREM PromptsKeepOwnLines == SkillsSpec => []UserPromptKept
<1>1. SkillsInv => UserPromptKept
  <2>. SUFFICES ASSUME SkillsInv PROVE UserPromptKept
    OBVIOUS
  <2>1. PromptFits(base, flaws, prompt)
    BY DEF SkillsInv, PromptsOK, PromptOK
  <2>2. StandAt(prompt, 1, LinesBefore(base))
    BY <2>1 DEF PromptFits, Ahead
  <2>3. ASSUME OneSection(base), "open" \notin flaws
        PROVE  \E k \in (Len(LinesBefore(base)) + 1) .. (Len(prompt) + 1) :
                  StandAt(prompt, k, LinesAfter(base))
    <3>1. PICK k \in Nat : BehindAt(base, prompt, k)
      BY <2>1, <2>3 DEF PromptFits, Behind
    <3>. QED BY <3>1 DEF BehindAt
  <2>4. ASSUME Tidy(base), flaws = {}
        PROVE  OwnLines(prompt) = OwnLines(base) /\ Cardinality(Headers(prompt)) <= 1
    <3>1. Tidy(prompt) /\ OwnLines(prompt) = OwnLines(base)
      BY <2>1, <2>4 DEF PromptFits
    <3>2. CASE Headers(prompt) = {}
      <4>1. Cardinality(Headers(prompt)) = 0
        BY <3>2, FS_EmptySet
      <4>. QED BY <3>1, <4>1
    <3>3. ASSUME NEW m \in Headers(prompt) PROVE Cardinality(Headers(prompt)) <= 1
      <4>1. Headers(prompt) = {m}
        BY <3>1, <3>3 DEF Tidy, OneSection
      <4>2. Cardinality(Headers(prompt)) = 1
        BY <4>1, FS_Singleton
      <4>. QED BY <4>2
    <3>. QED BY <3>1, <3>2, <3>3
  <2>. QED BY <2>2, <2>3, <2>4 DEF UserPromptKept
<1>. QED BY <1>1, SkillsInvariant, PTL

-----------------------------------------------------------------------------
(***************************************************************************)
(* The files of the sandbox, for any roots, files and arguments.           *)
(*                                                                         *)
(* What a recursive function gives is shown by the least, or greatest,     *)
(* place where it is not as it should be.  First Clean, segment by         *)
(* segment: an absolute path becomes a clean one, a clean one stays as it  *)
(* is and a relative one stays relative.                                   *)
(***************************************************************************)

(* The paths that Clean goes through. *)
Stages(p, n, f) ==
    f = [i \in 0 .. n |-> IF i = 0 THEN <<>> ELSE CleanStep(f[i - 1], p[i])]

LEMMA StagesExist ==
    ASSUME NEW p, NEW n \in Nat
    PROVE  \E f : Stages(p, n, f)
<1>. DEFINE Bad == {m \in Nat : ~ \E f : Stages(p, m, f)}
<1>1. ASSUME Bad # {} PROVE FALSE
  <2>1. Least(Bad) \in Bad /\ \A j \in Bad : Least(Bad) <= j
    BY <1>1, LeastIn
  <2>. DEFINE m == Least(Bad)
  <2>2. m \in Nat /\ ~ \E f : Stages(p, m, f)
    BY <2>1
  <2>3. m # 0
    <3>1. Stages(p, 0, [i \in 0 .. 0 |-> <<>>])
      BY DEF Stages
    <3>. QED BY <3>1, <2>2
  <2>4. m - 1 \in Nat /\ m - 1 \notin Bad
    BY <2>1, <2>2, <2>3
  <2>5. PICK f : Stages(p, m - 1, f)
    BY <2>4
  <2>. DEFINE g == [i \in 0 .. m |-> IF i = 0 THEN <<>> ELSE CleanStep(f[i - 1], p[i])]
  <2>. HIDE DEF m
  <2>6. \A i \in 0 .. (m - 1) : g[i] = f[i]
    BY <2>2, <2>4, <2>5 DEF Stages
  <2>7. \A i \in 0 .. m : i # 0 => g[i - 1] = f[i - 1]
    <3>1. \A i \in 0 .. m : i # 0 => i - 1 \in 0 .. (m - 1)
      BY <2>2
    <3>. HIDE DEF g
    <3>. QED BY <2>6, <3>1
  <2>8. Stages(p, m, g)
    BY <2>7 DEF Stages
  <2>. QED BY <2>8, <2>2
<1>. QED BY <1>1

LEMMA CleanStages ==
    ASSUME NEW p \in Seq(STRING)
    PROVE  \E f : /\ f[0] = <<>>
                  /\ \A i \in 1 .. Len(p) : f[i] = CleanStep(f[i - 1], p[i])
                  /\ Clean(p) = f[Len(p)]
<1>. DEFINE f == CHOOSE f : Stages(p, Len(p), f)
<1>0. Len(p) \in Nat
  BY LenProperties
<1>1. Stages(p, Len(p), f)
  BY <1>0, StagesExist
<1>2. Clean(p) = f[Len(p)]
  BY DEF Clean, Stages
<1>. HIDE DEF f
<1>3. f[0] = <<>> /\ \A i \in 1 .. Len(p) : f[i] = CleanStep(f[i - 1], p[i])
  BY <1>0, <1>1 DEF Stages
<1>. QED BY <1>2, <1>3

LEMMA OneSegment ==
    ASSUME NEW S, NEW s \in S
    PROVE  Append(<<>>, s) = <<s>> /\ <<s>> \in Seq(S)
<1>1. <<>> \in Seq(S)
  BY EmptySeq
<1>2. Append(<<>>, s) = <<>> \o <<s>>
  BY <1>1, AppendIsConcat
<1>3. <<s>> \in Seq(S)
  OBVIOUS
<1>. QED BY <1>2, <1>3, ConcatEmptySeq

LEMMA FrontType ==
    ASSUME NEW S, NEW q \in Seq(S), q # <<>>
    PROVE  /\ Front(q) \in Seq(S) /\ Len(Front(q)) = Len(q) - 1
           /\ Len(q) \in Nat \ {0} /\ Last(q) \in S
           /\ \A i \in 1 .. (Len(q) - 1) : Front(q)[i] = q[i]
<1>1. Len(q) \in Nat \ {0} /\ q \in [1 .. Len(q) -> S]
  BY EmptySeq, LenProperties
<1>2. \A i \in 1 .. (Len(q) - 1) : q[i] \in S
  BY <1>1
<1>3. SubSeq(q, 1, Len(q) - 1) \in Seq(S)
  BY <1>1, <1>2, SubSeqProperties
<1>4. Len(SubSeq(q, 1, Len(q) - 1)) = Len(q) - 1
  BY <1>1
<1>5. \A i \in 1 .. (Len(q) - 1) : SubSeq(q, 1, Len(q) - 1)[i] = q[i]
  BY <1>1
<1>. QED BY <1>1, <1>3, <1>4, <1>5 DEF Front, Last

LEMMA StepAbsolute ==
    ASSUME NEW q, Absolute(q), NEW s \in STRING, s # "/"
    PROVE  Absolute(CleanStep(q, s))
<1>0. q \in Seq(STRING) /\ q # <<>> /\ Len(q) \in Nat \ {0} /\ q[1] = "/"
  BY EmptySeq DEF Absolute, IsAbs
<1>1. CASE s = "."
  BY <1>1 DEF CleanStep
<1>2. CASE s = ".." /\ q = <<"/">>
  <2>1. CleanStep(q, s) = q
    BY <1>2 DEF CleanStep
  <2>. QED BY <2>1
<1>3. CASE s = ".." /\ q # <<"/">>
  <2>1. Len(q) >= 2
    <3>1. Len(q) # 1
      BY <1>0, <1>3
    <3>2. Len(q) \in Nat \ {0}
      BY <1>0
    <3>3. \A n \in Nat \ {0} : n # 1 => n >= 2
      OBVIOUS
    <3>. QED BY <3>1, <3>2, <3>3
  <2>2. Last(q) # ".."
    BY <2>1, <1>0 DEF Last, Absolute
  <2>3. CleanStep(q, s) = Front(q)
    BY <1>0, <1>3, <2>2 DEF CleanStep
  <2>4. /\ Front(q) \in Seq(STRING) /\ Len(Front(q)) = Len(q) - 1
        /\ \A i \in 1 .. (Len(q) - 1) : Front(q)[i] = q[i]
    BY <1>0, FrontType
  <2>5. Front(q) # <<>> /\ Front(q)[1] = "/"
    BY <2>1, <2>4, <1>0, EmptySeq
  <2>6. \A i \in 2 .. Len(Front(q)) : Front(q)[i] = q[i] /\ i \in 2 .. Len(q)
    BY <2>1, <2>4, <1>0
  <2>. QED BY <2>3, <2>4, <2>5, <2>6 DEF Absolute, IsAbs
<1>4. CASE s \notin {".", ".."}
  <2>1. CleanStep(q, s) = Append(q, s)
    BY <1>4 DEF CleanStep
  <2>2. /\ Append(q, s) \in Seq(STRING) /\ Len(Append(q, s)) = Len(q) + 1
        /\ \A i \in 1 .. Len(q) : Append(q, s)[i] = q[i]
        /\ Append(q, s)[Len(q) + 1] = s
    BY <1>0
  <2>3. Append(q, s) # <<>> /\ Append(q, s)[1] = "/"
    BY <2>2, <1>0
  <2>4. \A i \in 2 .. Len(Append(q, s)) : (i \in 2 .. Len(q) /\ Append(q, s)[i] = q[i]) \/ Append(q, s)[i] = s
    BY <2>2, <1>0
  <2>5. \A i \in 2 .. Len(Append(q, s)) : Append(q, s)[i] \notin {"/", ".", ".."}
    BY <2>4, <1>4 DEF Absolute
  <2>. QED BY <2>1, <2>2, <2>3, <2>5 DEF Absolute, IsAbs
<1>. QED BY <1>1, <1>2, <1>3, <1>4

LEMMA SegmentsStay ==
    ASSUME NEW S, S \subseteq STRING, NEW p \in Seq(S)
    PROVE  Clean(p) \in Seq(S)
<1>0. p \in Seq(STRING) /\ Len(p) \in Nat
  BY SeqMonotonic, LenProperties
<1>1. PICK f : /\ f[0] = <<>>
               /\ \A i \in 1 .. Len(p) : f[i] = CleanStep(f[i - 1], p[i])
               /\ Clean(p) = f[Len(p)]
  BY <1>0, CleanStages
<1>. DEFINE Bad == {i \in 0 .. Len(p) : f[i] \notin Seq(S)}
<1>2. ASSUME Bad # {} PROVE FALSE
  <2>0. Bad \subseteq Nat
    BY <1>0
  <2>. DEFINE m == Least(Bad)
  <2>1. m \in Bad /\ \A j \in Bad : m <= j
    BY <1>2, <2>0, LeastIn
  <2>. HIDE DEF m
  <2>2. m # 0
    BY <1>1, <2>1, EmptySeq
  <2>3. m \in 1 .. Len(p) /\ m - 1 \in 0 .. Len(p) /\ m - 1 \notin Bad
    BY <2>1, <2>2, <1>0
  <2>. DEFINE q == f[m - 1]
  <2>4. q \in Seq(S) /\ p[m] \in S /\ f[m] = CleanStep(q, p[m])
    BY <2>3, <1>1, ElementOfSeq
  <2>. HIDE DEF q
  <2>5. Append(q, p[m]) \in Seq(S) /\ (q # <<>> => Front(q) \in Seq(S))
    <3>1. q # <<>> => Front(q) \in Seq(S)
      BY <2>4, FrontType
    <3>. QED BY <2>4, <3>1
  <2>6. CleanStep(q, p[m]) \in {q, Append(q, p[m])} \/ (q # <<>> /\ CleanStep(q, p[m]) = Front(q))
    BY DEF CleanStep
  <2>. QED BY <2>1, <2>4, <2>5, <2>6
<1>. QED BY <1>0, <1>1, <1>2

LEMMA CleanAbsolute ==
    ASSUME NEW p, Path(p), IsAbs(p)
    PROVE  Absolute(Clean(p))
<1>0. p \in Seq(STRING) /\ Len(p) \in Nat /\ Len(p) >= 1 /\ p[1] = "/"
  BY EmptySeq DEF Path, IsAbs
<1>1. PICK f : /\ f[0] = <<>>
               /\ \A i \in 1 .. Len(p) : f[i] = CleanStep(f[i - 1], p[i])
               /\ Clean(p) = f[Len(p)]
  BY <1>0, CleanStages
<1>. DEFINE Bad == {i \in 1 .. Len(p) : ~Absolute(f[i])}
<1>2. ASSUME Bad # {} PROVE FALSE
  <2>0. Bad \subseteq Nat
    BY <1>0
  <2>. DEFINE m == Least(Bad)
  <2>1. m \in Bad /\ \A j \in Bad : m <= j
    BY <1>2, <2>0, LeastIn
  <2>. HIDE DEF m
  <2>2. m # 1
    <3>1. f[1] = CleanStep(<<>>, "/")
      BY <1>0, <1>1
    <3>2. CleanStep(<<>>, "/") = Append(<<>>, "/")
      BY DEF CleanStep
    <3>3. Append(<<>>, "/") = <<"/">> /\ <<"/">> \in Seq(STRING)
      <4>1. p[1] \in STRING
        BY <1>0, ElementOfSeq
      <4>. QED BY <1>0, <4>1, OneSegment
    <3>4. Absolute(<<"/">>)
      BY <3>3 DEF Absolute, IsAbs
    <3>. QED BY <2>1, <3>1, <3>2, <3>3, <3>4
  <2>3. m \in 2 .. Len(p) /\ m - 1 \in 1 .. Len(p) /\ m - 1 \notin Bad
    BY <2>1, <2>2, <1>0
  <2>. DEFINE q == f[m - 1]
  <2>4. Absolute(q) /\ p[m] \in STRING /\ p[m] # "/" /\ f[m] = CleanStep(q, p[m])
    BY <2>3, <1>0, <1>1, ElementOfSeq DEF Path
  <2>. HIDE DEF q
  <2>5. Absolute(CleanStep(q, p[m]))
    BY <2>4, StepAbsolute
  <2>. QED BY <2>1, <2>4, <2>5
<1>. QED BY <1>0, <1>1, <1>2

LEMMA CleanSame ==
    ASSUME NEW p, Absolute(p)
    PROVE  Clean(p) = p
<1>0. p \in Seq(STRING) /\ Len(p) \in Nat /\ Len(p) >= 1 /\ p[1] = "/"
  BY EmptySeq DEF Absolute, IsAbs
<1>1. PICK f : /\ f[0] = <<>>
               /\ \A i \in 1 .. Len(p) : f[i] = CleanStep(f[i - 1], p[i])
               /\ Clean(p) = f[Len(p)]
  BY <1>0, CleanStages
<1>. DEFINE Bad == {i \in 0 .. Len(p) : f[i] # SubSeq(p, 1, i)}
<1>2. ASSUME Bad # {} PROVE FALSE
  <2>0. Bad \subseteq Nat
    BY <1>0
  <2>. DEFINE m == Least(Bad)
  <2>1. m \in Bad /\ \A j \in Bad : m <= j
    BY <1>2, <2>0, LeastIn
  <2>. HIDE DEF m
  <2>2. m # 0
    <3>1. SubSeq(p, 1, 0) = <<>>
      BY SubSeqEmpty
    <3>. QED BY <1>1, <2>1, <3>1
  <2>3. m \in 1 .. Len(p) /\ m - 1 \in 0 .. Len(p) /\ m - 1 \notin Bad
    BY <2>1, <2>2, <1>0
  <2>4. f[m - 1] = SubSeq(p, 1, m - 1) /\ f[m] = CleanStep(f[m - 1], p[m])
    BY <2>3, <1>1
  <2>5. p[m] \notin {".", ".."}
    <3>1. m = 1 \/ m \in 2 .. Len(p)
      BY <2>3, <1>0
    <3>. QED BY <3>1, <1>0 DEF Absolute
  <2>6. CleanStep(f[m - 1], p[m]) = Append(f[m - 1], p[m])
    BY <2>5 DEF CleanStep
  <2>7. SubSeq(p, 1, m) = SubSeq(p, 1, m - 1) \o <<p[m]>>
    BY <1>0, <2>3, SubSeqRecursiveSecond
  <2>8. SubSeq(p, 1, m - 1) \in Seq(STRING) /\ p[m] \in STRING
    BY <1>0, <2>3, SubSeqProperties, ElementOfSeq
  <2>9. SubSeq(p, 1, m - 1) \o <<p[m]>> = Append(SubSeq(p, 1, m - 1), p[m])
    BY <2>8, AppendIsConcat
  <2>. QED BY <2>1, <2>4, <2>6, <2>7, <2>9
<1>3. f[Len(p)] = SubSeq(p, 1, Len(p))
  BY <1>0, <1>2
<1>. QED BY <1>0, <1>1, <1>3, SubSeqFull

(***************************************************************************)
(* Paths below a root: of clean absolute paths, IsPrefix and After take    *)
(* apart what \o puts together.                                            *)
(***************************************************************************)

Segments == STRING \ {"/", ".", ".."}

LEMMA SegmentsAre ==
    ASSUME NEW r \in Seq(Segments)
    PROVE  r \in Seq(STRING) /\ r \in Seq(STRING \ {"/"}) /\ Len(r) \in Nat
<1>1. Segments \subseteq STRING
  BY DEF Segments
<1>2. Segments \subseteq STRING \ {"/"}
  BY DEF Segments
<1>3. r \in Seq(STRING)
  BY <1>1, SeqMonotonic
<1>4. r \in Seq(STRING \ {"/"})
  BY <1>2, SeqMonotonic
<1>. QED BY <1>3, <1>4, LenProperties

LEMMA UnderRoot ==
    ASSUME NEW root, Absolute(root), NEW r \in Seq(Segments)
    PROVE  /\ Absolute(root \o r) /\ Clean(root \o r) = root \o r
           /\ IsPrefix(root, root \o r)
           /\ After(root, root \o r) = r
           /\ Len(root \o r) = Len(root) + Len(r)
<1>0. /\ root \in Seq(STRING) /\ Len(root) \in Nat \ {0} /\ root[1] = "/"
      /\ r \in Seq(STRING) /\ Len(r) \in Nat
  BY EmptySeq, SeqMonotonic, LenProperties DEF Absolute, IsAbs, Segments
<1>. DEFINE p == root \o r
<1>1. /\ p \in Seq(STRING) /\ Len(p) = Len(root) + Len(r)
      /\ \A i \in 1 .. Len(root) + Len(r) : p[i] = IF i <= Len(root) THEN root[i] ELSE r[i - Len(root)]
  BY <1>0, ConcatProperties
<1>. HIDE DEF p
<1>2. p # <<>> /\ p[1] = "/"
  <2>1. Len(p) # 0
    BY <1>0, <1>1
  <2>. QED BY <2>1, <1>0, <1>1, EmptySeq
<1>3. ASSUME NEW i \in 2 .. Len(p) PROVE p[i] \notin {"/", ".", ".."}
  <2>1. CASE i <= Len(root)
    BY <1>0, <1>1, <2>1 DEF Absolute
  <2>2. CASE i > Len(root)
    <3>1. i - Len(root) \in 1 .. Len(r) /\ p[i] = r[i - Len(root)]
      BY <1>0, <1>1, <2>2
    <3>2. r[i - Len(root)] \in Segments
      BY <3>1, ElementOfSeq
    <3>. QED BY <3>1, <3>2 DEF Segments
  <2>. QED BY <2>1, <2>2, <1>0
<1>4. Absolute(p)
  BY <1>1, <1>2, <1>3 DEF Absolute, IsAbs
<1>5. SubSeq(p, 1, Len(root)) = root
  <2>1. \A i \in 1 .. Len(root) : p[i] = root[i] /\ p[i] \in STRING
    BY <1>0, <1>1, ElementOfSeq
  <2>2. /\ SubSeq(p, 1, Len(root)) \in Seq(STRING)
        /\ Len(SubSeq(p, 1, Len(root))) = Len(root)
        /\ \A i \in 1 .. Len(root) : SubSeq(p, 1, Len(root))[i] = p[i]
    BY <1>0, <2>1
  <2>. QED BY <1>0, <2>1, <2>2, SeqEqual
<1>6. SubSeq(p, Len(root) + 1, Len(p)) = r
  <2>1. \A i \in 1 .. Len(r) : p[Len(root) + i] = r[i]
    BY <1>0, <1>1
  <2>2. \A i \in (Len(root) + 1) .. Len(p) : p[i] \in STRING
    BY <1>0, <1>1, ElementOfSeq
  <2>3. /\ SubSeq(p, Len(root) + 1, Len(p)) \in Seq(STRING)
        /\ Len(SubSeq(p, Len(root) + 1, Len(p))) = Len(r)
        /\ \A i \in 1 .. Len(r) : SubSeq(p, Len(root) + 1, Len(p))[i] = p[Len(root) + i]
    BY <1>0, <1>1, <2>2
  <2>. QED BY <1>0, <2>1, <2>3, SeqEqual
<1>7. IsPrefix(root, p)
  BY <1>0, <1>1, <1>5, SubSeqFull DEF IsPrefix
<1>. QED BY <1>1, <1>4, <1>6, <1>7, CleanSame DEF p, After

LEMMA Under ==
    ASSUME NEW root, Absolute(root), NEW p, Absolute(p), IsPrefix(root, p)
    PROVE  After(root, p) \in Seq(Segments) /\ p = root \o After(root, p)
<1>0. /\ root \in Seq(STRING) /\ Len(root) \in Nat \ {0}
      /\ p \in Seq(STRING) /\ Len(p) \in Nat
  BY EmptySeq, LenProperties DEF Absolute, IsAbs
<1>1. Len(root) <= Len(p) /\ SubSeq(p, 1, Len(root)) = root
  BY <1>0, SubSeqFull DEF IsPrefix
<1>2. SubSeq(p, 1, Len(root)) \o SubSeq(p, Len(root) + 1, Len(p)) = SubSeq(p, 1, Len(p))
  <2>1. 1 \in 1 .. Len(p) + 1 /\ Len(root) \in (1 - 1) .. Len(p) /\ Len(p) \in Len(root) .. Len(p)
    BY <1>0, <1>1
  <2>. QED BY <1>0, <2>1, ConcatAdjacentSubSeq
<1>3. \A i \in (Len(root) + 1) .. Len(p) : p[i] \in Segments
  BY <1>0, ElementOfSeq DEF Absolute, Segments
<1>4. SubSeq(p, Len(root) + 1, Len(p)) \in Seq(Segments)
  BY <1>0, <1>3, SubSeqProperties
<1>. QED BY <1>0, <1>1, <1>2, <1>4, SubSeqFull DEF After

(* Of the root directory itself only the roots longer than it are asked. *)
LEMMA MatchesARoot ==
    ASSUME NEW root, ARoot(root), NEW p
    PROVE  MatchesRoot(p, root) <=> IsPrefix(root, p)
<1>1. root # <<"/">>
  BY DEF ARoot
<1>. QED BY <1>1 DEF MatchesRoot

LEMMA Relative ==
    ASSUME NEW p, Path(p), ~IsAbs(p)
    PROVE  p \in Seq(STRING \ {"/"})
<1>1. p \in Seq(STRING) /\ Len(p) \in Nat
  BY LenProperties DEF Path
<1>2. ASSUME NEW i \in 1 .. Len(p) PROVE p[i] \in STRING \ {"/"}
  <2>1. p[i] \in STRING /\ p # <<>>
    BY <1>1, ElementOfSeq, EmptySeq
  <2>2. i = 1 \/ i \in 2 .. Len(p)
    BY <1>1
  <2>. QED BY <2>1, <2>2 DEF IsAbs, Path
<1>. QED BY <1>1, <1>2

LEMMA CleanPath ==
    ASSUME NEW p, Path(p)
    PROVE  \/ IsAbs(p) /\ Absolute(Clean(p))
           \/ ~IsAbs(p) /\ ~IsAbs(Clean(p)) /\ Clean(p) \in Seq(STRING \ {"/"})
<1>1. CASE IsAbs(p)
  BY <1>1, CleanAbsolute
<1>2. CASE ~IsAbs(p)
  <2>1. Clean(p) \in Seq(STRING \ {"/"})
    BY <1>2, Relative, SegmentsStay
  <2>2. ~IsAbs(Clean(p))
    BY <2>1, ElementOfSeq, EmptySeq DEF IsAbs
  <2>. QED BY <1>2, <2>1, <2>2
<1>. QED BY <1>1, <1>2

LEMMA PathBelow ==
    ASSUME NEW root, Absolute(root), NEW q \in Seq(STRING \ {"/"})
    PROVE  Path(root \o q) /\ IsAbs(root \o q) /\ Absolute(Join(root, q))
<1>0. /\ root \in Seq(STRING) /\ Len(root) \in Nat \ {0} /\ root[1] = "/"
      /\ q \in Seq(STRING) /\ Len(q) \in Nat
  BY EmptySeq, SeqMonotonic, LenProperties DEF Absolute, IsAbs
<1>. DEFINE p == root \o q
<1>1. /\ p \in Seq(STRING) /\ Len(p) = Len(root) + Len(q)
      /\ \A i \in 1 .. Len(root) + Len(q) : p[i] = IF i <= Len(root) THEN root[i] ELSE q[i - Len(root)]
  BY <1>0, ConcatProperties
<1>. HIDE DEF p
<1>2. p # <<>> /\ p[1] = "/"
  <2>1. Len(p) # 0
    BY <1>0, <1>1
  <2>. QED BY <2>1, <1>0, <1>1, EmptySeq
<1>3. ASSUME NEW i \in 2 .. Len(p) PROVE p[i] # "/"
  <2>1. CASE i <= Len(root)
    BY <1>0, <1>1, <2>1 DEF Absolute
  <2>2. CASE i > Len(root)
    <3>1. i - Len(root) \in 1 .. Len(q) /\ p[i] = q[i - Len(root)]
      BY <1>0, <1>1, <2>2
    <3>. QED BY <3>1, ElementOfSeq
  <2>. QED BY <2>1, <2>2, <1>0
<1>4. Path(p) /\ IsAbs(p)
  BY <1>1, <1>2, <1>3 DEF Path, IsAbs
<1>. QED BY <1>4, CleanAbsolute DEF p, Join

(***************************************************************************)
(* The text of a path with one root replaced by another: Replaced makes a  *)
(* path of a path, and of a path below the old root the same one below the *)
(* new root, if the old one is not repeated.                               *)
(***************************************************************************)

(* The tail of old stands at position i of p. *)
Fits(p, old, i) ==
    Len(old) - 1 > 0 /\ i + (Len(old) - 1) <= Len(p) + 1 /\ SubSeq(p, i, i + (Len(old) - 1) - 1) = Tail(old)

(* What Replaced makes of the positions k, ..., Len(p) + 1. *)
Rewrites(p, old, new, k, f) ==
    f = [i \in k .. (Len(p) + 1) |->
           IF i > Len(p) THEN <<>>
           ELSE IF Fits(p, old, i) THEN Tail(new) \o f[i + (Len(old) - 1)]
           ELSE <<p[i]>> \o f[i + 1]]

LEMMA RewritesExist ==
    ASSUME NEW p, Len(p) \in Nat \ {0}, NEW old, Len(old) \in Nat, NEW new
    PROVE  \E f : Rewrites(p, old, new, 2, f)
<1>. DEFINE L == Len(p)
            n == Len(old) - 1
            Bad == {m \in 0 .. (L - 1) : ~ \E f : Rewrites(p, old, new, L + 1 - m, f)}
<1>1. ASSUME Bad # {} PROVE FALSE
  <2>0. Bad \subseteq Nat
    OBVIOUS
  <2>. DEFINE m == Least(Bad)
  <2>1. m \in Bad /\ \A j \in Bad : m <= j
    BY <1>1, <2>0, LeastIn
  <2>. HIDE DEF m
  <2>2. m \in 0 .. (L - 1) /\ ~ \E f : Rewrites(p, old, new, L + 1 - m, f)
    BY <2>1
  <2>3. m # 0
    <3>. DEFINE g == [i \in (L + 1 - 0) .. (L + 1) |-> <<>>]
    <3>1. \A i \in (L + 1 - 0) .. (L + 1) : i > L
      OBVIOUS
    <3>2. Rewrites(p, old, new, L + 1 - 0, g)
      BY <3>1 DEF Rewrites
    <3>. QED BY <3>2, <2>2
  <2>4. m - 1 \in 0 .. (L - 1) /\ m - 1 \notin Bad
    BY <2>1, <2>2, <2>3
  <2>5. PICK f : Rewrites(p, old, new, L + 1 - (m - 1), f)
    BY <2>4
  <2>. DEFINE k == L + 1 - m
              g == [i \in k .. (L + 1) |->
                      IF i > L THEN <<>>
                      ELSE IF Fits(p, old, i) THEN Tail(new) \o f[i + n]
                      ELSE <<p[i]>> \o f[i + 1]]
  <2>6. \A i \in (k + 1) .. (L + 1) : g[i] = f[i]
    <3>1. k + 1 = L + 1 - (m - 1) /\ k \in Nat
      BY <2>2, <2>4
    <3>2. \A i \in (k + 1) .. (L + 1) : i \in k .. (L + 1)
      BY <3>1
    <3>. HIDE DEF k
    <3>. QED BY <3>1, <3>2, <2>5 DEF Rewrites
  <2>7. \A i \in k .. (L + 1) : ~(i > L) => /\ Fits(p, old, i) => g[i + n] = f[i + n]
                                         /\ g[i + 1] = f[i + 1]
    <3>. SUFFICES ASSUME NEW i \in k .. (L + 1), ~(i > L)
                  PROVE  (Fits(p, old, i) => i + n \in (k + 1) .. (L + 1)) /\ i + 1 \in (k + 1) .. (L + 1)
      BY <2>6
    <3>. QED BY <2>2 DEF Fits
  <2>8. Rewrites(p, old, new, k, g)
    <3>1. g = [i \in k .. (L + 1) |->
                 IF i > L THEN <<>>
                 ELSE IF Fits(p, old, i) THEN Tail(new) \o g[i + n]
                 ELSE <<p[i]>> \o g[i + 1]]
      <4>. HIDE DEF k
      <4>1. \A i \in k .. (L + 1) :
              g[i] = (IF i > L THEN <<>>
                      ELSE IF Fits(p, old, i) THEN Tail(new) \o g[i + n]
                      ELSE <<p[i]>> \o g[i + 1])
        <5>1. \A i \in k .. (L + 1) :
                g[i] = (IF i > L THEN <<>>
                        ELSE IF Fits(p, old, i) THEN Tail(new) \o f[i + n]
                        ELSE <<p[i]>> \o f[i + 1])
          OBVIOUS
        <5>. HIDE DEF g, n, L
        <5>. QED BY <5>1, <2>7
      <4>2. g = [i \in k .. (L + 1) |-> g[i]]
        OBVIOUS
      <4>. HIDE DEF g, n, L
      <4>. QED BY <4>1, <4>2
    <3>. HIDE DEF g
    <3>. QED BY <3>1 DEF Rewrites
  <2>. QED BY <2>8, <2>2
<1>2. L - 1 \in 0 .. (L - 1) /\ L + 1 - (L - 1) = 2
  OBVIOUS
<1>3. Bad = {}
  BY <1>1
<1>4. \E f : Rewrites(p, old, new, L + 1 - (L - 1), f)
  BY <1>2, <1>3
<1>. QED BY <1>2, <1>4

(* f rewrites the text from each position on. *)
Rewritten(p, old, new, f) ==
    /\ f[Len(p) + 1] = <<>>
    /\ \A i \in 2 .. Len(p) :
         f[i] = IF Fits(p, old, i) THEN Tail(new) \o f[i + (Len(old) - 1)] ELSE <<p[i]>> \o f[i + 1]
    /\ Replaced(p, old, new) = <<p[1]>> \o f[2]

LEMMA ReplacedStages ==
    ASSUME NEW p \in Seq(STRING), p # <<>>, NEW old \in Seq(STRING), NEW new
    PROVE  \E f : Rewritten(p, old, new, f)
<1>. DEFINE f == CHOOSE f : Rewrites(p, old, new, 2, f)
<1>0. Len(p) \in Nat \ {0} /\ Len(old) \in Nat
  BY LenProperties, EmptySeq
<1>1. Rewrites(p, old, new, 2, f)
  BY <1>0, RewritesExist
<1>2. Replaced(p, old, new) = <<p[1]>> \o f[2]
  BY DEF Replaced, Rewrites, Fits
<1>. HIDE DEF f
<1>3. f[Len(p) + 1] = <<>>
  <2>1. Len(p) + 1 \in 2 .. (Len(p) + 1) /\ Len(p) + 1 > Len(p)
    BY <1>0
  <2>. QED BY <2>1, <1>1 DEF Rewrites
<1>4. ASSUME NEW i \in 2 .. Len(p)
      PROVE  f[i] = IF Fits(p, old, i) THEN Tail(new) \o f[i + (Len(old) - 1)] ELSE <<p[i]>> \o f[i + 1]
  <2>1. i \in 2 .. (Len(p) + 1) /\ ~(i > Len(p))
    BY <1>0
  <2>. QED BY <2>1, <1>1 DEF Rewrites
<1>. QED BY <1>2, <1>3, <1>4 DEF Rewritten

LEMMA RootTail ==
    ASSUME NEW root, Absolute(root)
    PROVE  /\ Tail(root) \in Seq(Segments) /\ Tail(root) \in Seq(STRING \ {"/"})
           /\ Len(Tail(root)) = Len(root) - 1
           /\ <<root[1]>> \in Seq(STRING)
           /\ <<root[1]>> \o Tail(root) = root
<1>0. root \in Seq(STRING) /\ root # <<>> /\ Len(root) \in Nat \ {0}
  BY EmptySeq DEF Absolute, IsAbs
<1>1. /\ Tail(root) = SubSeq(root, 2, Len(root))
      /\ Len(Tail(root)) = Len(root) - 1
  BY <1>0, TailIsSubSeq, HeadTailProperties
<1>2. \A i \in 2 .. Len(root) : root[i] \in Segments
  BY <1>0, ElementOfSeq DEF Absolute, Segments
<1>3. SubSeq(root, 2, Len(root)) \in Seq(Segments)
  BY <1>0, <1>2, SubSeqProperties
<1>5. root[1] \in STRING
  BY <1>0, ElementOfSeq
<1>6. SubSeq(root, 1, Len(root)) = <<root[1]>> \o SubSeq(root, 1 + 1, Len(root))
  <2>1. 1 \in 1 .. Len(root) /\ Len(root) \in 1 .. Len(root)
    BY <1>0
  <2>. QED BY <1>0, <2>1, SubSeqRecursiveFirst
<1>7. Tail(root) \in Seq(Segments) /\ Tail(root) \in Seq(STRING \ {"/"})
  BY <1>1, <1>3, SegmentsAre
<1>8. <<root[1]>> \in Seq(STRING)
  BY <1>5, OneSegment
<1>9. <<root[1]>> \o Tail(root) = root
  BY <1>0, <1>1, <1>6, SubSeqFull
<1>. QED BY <1>1, <1>7, <1>8, <1>9

(* What is written in place of a root has no separator but its first. *)
LEMMA ReplacedPath ==
    ASSUME NEW p, Path(p), NEW old \in Seq(STRING), NEW new, Absolute(new)
    PROVE  Path(Replaced(p, old, new))
<1>. DEFINE T == STRING \ {"/"}
<1>0. p \in Seq(STRING) /\ Len(p) \in Nat /\ Len(old) \in Nat
  BY LenProperties DEF Path
<1>1. CASE p = <<>>
  <2>1. Replaced(p, old, new) = p
    BY <1>1 DEF Replaced
  <2>. QED BY <2>1
<1>2. CASE p # <<>>
  <2>0. PICK f : Rewritten(p, old, new, f)
    BY <1>0, <1>2, ReplacedStages
  <2>1. /\ f[Len(p) + 1] = <<>>
        /\ \A i \in 2 .. Len(p) :
             f[i] = IF Fits(p, old, i) THEN Tail(new) \o f[i + (Len(old) - 1)] ELSE <<p[i]>> \o f[i + 1]
        /\ Replaced(p, old, new) = <<p[1]>> \o f[2]
    BY <2>0 DEF Rewritten
  <2>. DEFINE Bad == {i \in 0 .. (Len(p) + 1) : i >= 2 /\ f[i] \notin Seq(T)}
  <2>2. ASSUME Bad # {} PROVE FALSE
    <3>. DEFINE m == Greatest(Bad)
    <3>1. m \in Bad /\ \A j \in Bad : j <= m
      <4>1. Len(p) + 1 \in Nat /\ Bad \subseteq 0 .. (Len(p) + 1)
        BY <1>0
      <4>. QED BY <2>2, <4>1, GreatestIn
    <3>. HIDE DEF m
    <3>2. m # Len(p) + 1
      BY <2>1, <3>1, EmptySeq
    <3>3. m \in 2 .. Len(p)
      BY <1>0, <3>1, <3>2
    <3>4. \A i \in (m + 1) .. (Len(p) + 1) : f[i] \in Seq(T)
      BY <1>0, <3>1, <3>3
    <3>5. CASE Fits(p, old, m)
      <4>1. m + (Len(old) - 1) \in (m + 1) .. (Len(p) + 1)
        BY <1>0, <3>3, <3>5 DEF Fits
      <4>2. f[m] = Tail(new) \o f[m + (Len(old) - 1)]
        BY <2>1, <3>3, <3>5
      <4>3. Tail(new) \in Seq(T) /\ f[m + (Len(old) - 1)] \in Seq(T)
        BY <3>4, <4>1, RootTail
      <4>. QED BY <3>1, <4>2, <4>3, ConcatProperties
    <3>6. CASE ~Fits(p, old, m)
      <4>1. f[m] = <<p[m]>> \o f[m + 1]
        BY <2>1, <3>3, <3>6
      <4>2. m + 1 \in (m + 1) .. (Len(p) + 1) /\ m \in 1 .. Len(p)
        BY <1>0, <3>3
      <4>3. p[m] \in T
        BY <1>0, <3>3, <4>2, ElementOfSeq DEF Path
      <4>4. <<p[m]>> \in Seq(T) /\ f[m + 1] \in Seq(T)
        BY <3>4, <4>2, <4>3, OneSegment
      <4>. QED BY <3>1, <4>1, <4>4, ConcatProperties
    <3>. QED BY <3>5, <3>6
  <2>3. f[2] \in Seq(T) /\ f[2] \in Seq(STRING)
    <3>1. 2 \in 0 .. (Len(p) + 1)
      BY <1>0, <1>2, EmptySeq
    <3>2. f[2] \in Seq(T)
      BY <2>2, <3>1
    <3>. QED BY <3>2, SeqMonotonic
  <2>4. p[1] \in STRING /\ <<p[1]>> \in Seq(STRING) /\ Len(<<p[1]>>) = 1
    <3>1. 1 \in 1 .. Len(p)
      BY <1>0, <1>2, EmptySeq
    <3>. QED BY <1>0, <3>1, ElementOfSeq, OneSegment
  <2>. DEFINE q == <<p[1]>> \o f[2]
  <2>5. /\ q \in Seq(STRING) /\ Len(q) = 1 + Len(f[2])
        /\ \A i \in 1 .. 1 + Len(f[2]) : q[i] = IF i <= 1 THEN <<p[1]>>[i] ELSE f[2][i - 1]
    BY <2>3, <2>4, ConcatProperties
  <2>6. Len(f[2]) \in Nat
    BY <2>3, LenProperties
  <2>. HIDE DEF q
  <2>7. ASSUME NEW i \in 2 .. Len(q) PROVE q[i] # "/"
    <3>1. i - 1 \in 1 .. Len(f[2]) /\ q[i] = f[2][i - 1]
      BY <2>5, <2>6
    <3>. QED BY <2>3, <3>1, ElementOfSeq
  <2>. QED BY <2>1, <2>5, <2>7 DEF q, Path
<1>. QED BY <1>1, <1>2

(* Below a root that is not repeated, the text keeps what follows the root. *)
LEMMA ReplacedRoot ==
    ASSUME NEW old, ARoot(old), NEW new, Absolute(new), NEW r \in Seq(Segments), ~Repeats(old, r)
    PROVE  Replaced(old \o r, old, new) = new \o r
<1>. DEFINE p == old \o r
            n == Len(old) - 1
            L == Len(p)
<1>0. /\ old \in Seq(STRING) /\ Len(old) \in Nat /\ Len(old) > 1 /\ r \in Seq(STRING) /\ Len(r) \in Nat
      /\ old[1] = "/" /\ new[1] = "/"
  BY SeqMonotonic, LenProperties DEF ARoot, Absolute, IsAbs, Segments
<1>1. /\ p \in Seq(STRING) /\ L = n + 1 + Len(r)
      /\ \A i \in 1 .. Len(old) + Len(r) : p[i] = IF i <= Len(old) THEN old[i] ELSE r[i - Len(old)]
  BY <1>0, ConcatProperties
<1>2. p # <<>>
  BY <1>0, <1>1, EmptySeq
<1>. HIDE DEF p
<1>3. n \in Nat /\ n > 0 /\ L \in Nat
  BY <1>0, <1>1
<1>a. PICK f : Rewritten(p, old, new, f)
  BY <1>0, <1>1, <1>2, ReplacedStages
<1>4. /\ f[L + 1] = <<>>
      /\ \A i \in 2 .. L : f[i] = IF Fits(p, old, i) THEN Tail(new) \o f[i + n] ELSE <<p[i]>> \o f[i + 1]
      /\ Replaced(p, old, new) = <<p[1]>> \o f[2]
  BY <1>a DEF Rewritten
<1>5. f[2] = Tail(new) \o f[n + 2]
  <2>1. SubSeq(p, 2, 2 + n - 1) = Tail(old)
    <3>1. SubSeq(old \o r, 2, Len(old)) = SubSeq(old, 2, Len(old))
      <4>1. 2 \in 1 .. Len(old) /\ Len(old) \in 1 .. Len(old)
        BY <1>0
      <4>. QED BY <1>0, <4>1, SubSeqOfConcat1
    <3>2. Tail(old) = SubSeq(old, 2, Len(old))
      BY <1>0, TailIsSubSeq, EmptySeq
    <3>3. 2 + n - 1 = Len(old)
      BY <1>0
    <3>. QED BY <3>1, <3>2, <3>3 DEF p
  <2>2. Fits(p, old, 2) /\ 2 \in 2 .. L /\ 2 + n = n + 2
    BY <1>0, <1>1, <1>3, <2>1 DEF Fits
  <2>. QED BY <1>4, <2>2
<1>6. ASSUME NEW i \in (n + 2) .. L PROVE ~Fits(p, old, i)
  <2>1. SUFFICES ASSUME Fits(p, old, i) PROVE FALSE
    OBVIOUS
  <2>. DEFINE j == i - (n + 2)
  <2>2. j \in 0 .. (Len(r) - Len(old) + 1)
    BY <1>0, <1>1, <2>1 DEF Fits
  <2>3. SubSeq(old \o r, i, i + n - 1) = SubSeq(r, i - Len(old), i + n - 1 - Len(old))
    <3>1. i \in (Len(old) + 1) .. (Len(old) + Len(r)) /\ i + n - 1 \in (Len(old) + 1) .. (Len(old) + Len(r))
      BY <1>0, <1>1, <2>1 DEF Fits
    <3>. QED BY <1>0, <3>1, SubSeqOfConcat2
  <2>4. i - Len(old) = j + 1 /\ i + n - 1 - Len(old) = j + Len(old) - 1
    BY <1>0
  <2>5. SubSeq(r, j + 1, j + Len(old) - 1) = Tail(old)
    BY <2>1, <2>3, <2>4 DEF Fits, p
  <2>. QED BY <2>2, <2>5 DEF Repeats
<1>. DEFINE Bad == {i \in 0 .. (L + 1) : i >= n + 2 /\ f[i] # SubSeq(p, i, L)}
<1>7. ASSUME Bad # {} PROVE FALSE
  <2>. DEFINE m == Greatest(Bad)
  <2>1. m \in Bad /\ \A j \in Bad : j <= m
    <3>1. L + 1 \in Nat /\ Bad \subseteq 0 .. (L + 1)
      BY <1>3
    <3>. QED BY <1>7, <3>1, GreatestIn
  <2>. HIDE DEF m
  <2>2. m # L + 1
    <3>1. SubSeq(p, L + 1, L) = <<>>
      BY <1>3, SubSeqEmpty
    <3>. QED BY <1>4, <2>1, <3>1
  <2>3. m \in (n + 2) .. L /\ m \in 2 .. L /\ m \in 1 .. L /\ m + 1 \in 0 .. (L + 1) /\ m + 1 >= n + 2
    BY <1>3, <2>1, <2>2
  <2>4. f[m + 1] = SubSeq(p, m + 1, L)
    <3>1. m + 1 \notin Bad
      BY <1>3, <2>1, <2>3
    <3>. QED BY <2>3, <3>1
  <2>5. f[m] = <<p[m]>> \o f[m + 1]
    BY <1>4, <1>6, <2>3
  <2>6. SubSeq(p, m, L) = <<p[m]>> \o SubSeq(p, m + 1, L)
    <3>1. L \in m .. L
      BY <1>3, <2>3
    <3>. QED BY <1>1, <2>3, <3>1, SubSeqRecursiveFirst
  <2>. QED BY <2>1, <2>4, <2>5, <2>6
<1>8. f[n + 2] = SubSeq(p, n + 2, L)
  <2>1. n + 2 \in 0 .. (L + 1) /\ n + 2 >= n + 2
    BY <1>1, <1>3, <1>0
  <2>. QED BY <1>7, <2>1
<1>9. SubSeq(p, n + 2, L) = r
  <2>1. After(old, old \o r) = r
    BY UnderRoot DEF ARoot
  <2>2. n + 2 = Len(old) + 1
    BY <1>0
  <2>. QED BY <2>1, <2>2 DEF After, p
<1>10. p[1] = new[1]
  <2>1. p[1] = old[1]
    BY <1>0, <1>1
  <2>. QED BY <1>0, <2>1
<1>11. <<new[1]>> \o (Tail(new) \o r) = (<<new[1]>> \o Tail(new)) \o r
  BY <1>0, RootTail, SeqMonotonic, ConcatAssociative DEF Segments
<1>. QED BY <1>4, <1>5, <1>8, <1>9, <1>10, <1>11, RootTail DEF p

(***************************************************************************)
(* What the translations of a configuration give: whatever is resolved is  *)
(* the root with clean segments after it.                                  *)
(***************************************************************************)

Roots(c) == ARoot(c.root) /\ ARoot(c.virtual)

LEMMA RefusedIs == ~IsAbs(Refused)
  BY DEF Refused, IsAbs

(* A relative path is below no root. *)
LEMMA NotBelow ==
    ASSUME NEW root, Absolute(root), NEW p \in Seq(STRING \ {"/"})
    PROVE  ~IsPrefix(root, p)
<1>1. SUFFICES ASSUME IsPrefix(root, p) PROVE FALSE
  OBVIOUS
<1>2. /\ root \in Seq(STRING) /\ root[1] = "/" /\ Len(root) \in Nat \ {0}
      /\ Len(p) \in Nat
  BY EmptySeq, LenProperties DEF Absolute, IsAbs
<1>3. Len(root) <= Len(p) /\ SubSeq(root, 1, Len(root)) = SubSeq(p, 1, Len(root))
  BY <1>1 DEF IsPrefix
<1>4. SubSeq(p, 1, Len(root)) = root
  BY <1>2, <1>3, SubSeqFull
<1>5. \A i \in 1 .. Len(root) : p[i] \in STRING \ {"/"}
  BY <1>2, <1>3, ElementOfSeq
<1>6. 1 \in 1 .. Len(root) /\ SubSeq(p, 1, Len(root))[1] = p[1]
  BY <1>2, <1>5
<1>. QED BY <1>2, <1>4, <1>5, <1>6

LEMMA ResolvePathBelow ==
    ASSUME NEW c, Roots(c), NEW path, Path(path), ResolvePath(c, path) # Refused
    PROVE  \E r \in Seq(Segments) : ResolvePath(c, path) = c.root \o r
<1>. DEFINE p == Clean(path)
<1>1. Absolute(c.root) /\ Absolute(c.virtual)
  BY DEF Roots, ARoot
<1>2. MatchesRoot(p, c.virtual) /\ ResolvePath(c, path) = Join(c.root, After(c.virtual, p))
  BY DEF ResolvePath
<1>3. IsPrefix(c.virtual, p)
  BY <1>2 DEF MatchesRoot
<1>4. Absolute(p)
  <2>1. p \notin Seq(STRING \ {"/"})
    BY <1>1, <1>3, NotBelow
  <2>. QED BY <2>1, CleanPath
<1>5. After(c.virtual, p) \in Seq(Segments)
  BY <1>1, <1>3, <1>4, Under
<1>6. Join(c.root, After(c.virtual, p)) = c.root \o After(c.virtual, p)
  BY <1>1, <1>5, UnderRoot DEF Join
<1>. QED BY <1>2, <1>5, <1>6

(* A virtual path that is clean. *)
LEMMA ResolvePathOf ==
    ASSUME NEW c, Roots(c), NEW r \in Seq(Segments)
    PROVE  ResolvePath(c, c.virtual \o r) = c.root \o r
<1>1. Absolute(c.root) /\ Absolute(c.virtual) /\ ARoot(c.virtual)
  BY DEF Roots, ARoot
<1>2. /\ Clean(c.virtual \o r) = c.virtual \o r
      /\ IsPrefix(c.virtual, c.virtual \o r)
      /\ After(c.virtual, c.virtual \o r) = r
  BY <1>1, UnderRoot
<1>3. MatchesRoot(c.virtual \o r, c.virtual)
  BY <1>1, <1>2, MatchesARoot
<1>4. Join(c.root, r) = c.root \o r
  BY <1>1, UnderRoot DEF Join
<1>. QED BY <1>2, <1>3, <1>4 DEF ResolvePath

LEMMA AutoResolveBelow ==
    ASSUME NEW c, Roots(c), NEW path, Path(path), AutoResolvePath(c, path) # Refused
    PROVE  \E r \in Seq(Segments) : AutoResolvePath(c, path) = c.root \o r
<1>. DEFINE p == Clean(path)
<1>1. Absolute(c.root) /\ Absolute(c.virtual)
  BY DEF Roots, ARoot
<1>2. CASE MatchesRoot(p, c.virtual)
  <2>1. AutoResolvePath(c, path) = ResolvePath(c, path)
    BY <1>2 DEF AutoResolvePath
  <2>. QED BY <2>1, ResolvePathBelow
<1>3. CASE IsAbs(p)
  <2>1. Absolute(p)
    BY <1>3, CleanPath
  <2>2. ASSUME MatchesRoot(p, c.root)
        PROVE  After(c.root, p) \in Seq(Segments)
    BY <1>1, <2>1, <2>2, Under DEF MatchesRoot
  <2>3. Tail(p) \in Seq(Segments)
    BY <2>1, RootTail
  <2>4. \/ MatchesRoot(p, c.virtual)
        \/ MatchesRoot(p, c.root) /\ AutoResolvePath(c, path) = ResolvePath(c, c.virtual \o After(c.root, p))
        \/ AutoResolvePath(c, path) = ResolvePath(c, c.virtual \o Tail(p))
    BY <1>3 DEF AutoResolvePath
  <2>. QED BY <1>2, <2>2, <2>3, <2>4, ResolvePathOf
<1>4. CASE ~IsAbs(p) /\ ~MatchesRoot(p, c.virtual)
  <2>1. p \in Seq(STRING \ {"/"})
    BY <1>4, CleanPath DEF Absolute
  <2>2. ~MatchesRoot(p, c.root)
    BY <1>1, <2>1, NotBelow DEF MatchesRoot
  <2>3. AutoResolvePath(c, path) = ResolvePath(c, c.virtual \o p)
    BY <1>4, <2>2 DEF AutoResolvePath
  <2>4. Path(c.virtual \o p)
    BY <1>1, <2>1, PathBelow
  <2>. QED BY <2>3, <2>4, ResolvePathBelow
<1>. QED BY <1>2, <1>3, <1>4

LEMMA ResolveBelow ==
    ASSUME NEW c, Roots(c), NEW path, Path(path), NEW write, Resolve(c, path, write) # Refused
    PROVE  \E r \in Seq(Segments) : Resolve(c, path, write) = c.root \o r
<1>1. Resolve(c, path, write) = AutoResolvePath(c, path)
  BY DEF Resolve
<1>. QED BY <1>1, AutoResolveBelow

LEMMA VirtualOf ==
    ASSUME NEW c, Roots(c), NEW r \in Seq(Segments)
    PROVE  VirtualPath(c, c.root \o r) = c.virtual \o r
<1>1. Absolute(c.root) /\ Absolute(c.virtual) /\ ARoot(c.root)
  BY DEF Roots, ARoot
<1>2. IsPrefix(c.root, c.root \o r) /\ After(c.root, c.root \o r) = r
  BY <1>1, UnderRoot
<1>3. MatchesRoot(c.root \o r, c.root)
  BY <1>1, <1>2, MatchesARoot
<1>4. Join(c.virtual, r) = c.virtual \o r
  BY <1>1, UnderRoot DEF Join
<1>. QED BY <1>2, <1>3, <1>4 DEF VirtualPath

(* What is below the root may be read. *)
LEMMA BelowIsAllowed ==
    ASSUME NEW c, NEW p, IsPrefix(c.root, p)
    PROVE  IsAllowed(c, p, FALSE)
  BY DEF IsAllowed, IsSubpath

(* A path below the virtual root, and one below the root that is not below
   the virtual one, resolve to where they stand for. *)
LEMMA ResolveOf ==
    ASSUME NEW c, Roots(c), NEW r \in Seq(Segments)
    PROVE  /\ Resolve(c, c.virtual \o r, FALSE) = c.root \o r
           /\ ~IsPrefix(c.virtual, c.root \o r) => Resolve(c, c.root \o r, FALSE) = c.root \o r
<1>1. Absolute(c.root) /\ Absolute(c.virtual) /\ ARoot(c.root) /\ ARoot(c.virtual)
  BY DEF Roots, ARoot
<1>2. /\ Absolute(c.root \o r) /\ Clean(c.root \o r) = c.root \o r
      /\ IsPrefix(c.root, c.root \o r) /\ After(c.root, c.root \o r) = r
      /\ Clean(c.virtual \o r) = c.virtual \o r /\ IsPrefix(c.virtual, c.virtual \o r)
  BY <1>1, UnderRoot
<1>3. c.root \o r # Refused /\ IsAllowed(c, c.root \o r, FALSE)
  BY <1>2, RefusedIs, BelowIsAllowed DEF Absolute
<1>4. AutoResolvePath(c, c.virtual \o r) = c.root \o r
  <2>1. MatchesRoot(c.virtual \o r, c.virtual)
    BY <1>1, <1>2, MatchesARoot
  <2>. QED BY <1>2, <2>1, ResolvePathOf DEF AutoResolvePath
<1>5. ASSUME ~IsPrefix(c.virtual, c.root \o r)
      PROVE  AutoResolvePath(c, c.root \o r) = c.root \o r
  <2>1. ~MatchesRoot(c.root \o r, c.virtual) /\ MatchesRoot(c.root \o r, c.root)
    BY <1>1, <1>2, <1>5, MatchesARoot
  <2>. QED BY <1>2, <2>1, ResolvePathOf DEF AutoResolvePath
<1>. QED BY <1>3, <1>4, <1>5 DEF Resolve

(* Whatever path a tool is given, with as many ".." as it likes, resolves   *)
(* to one below the root or is refused (AutoResolvePath's "path traversal   *)
(* is blocked"); the paths allowed beside the root are the commands' only.  *)
THEOREM ResolvedIsBelowRoot ==
    ASSUME NEW c, Roots(c), NEW path, Path(path), NEW write, Resolve(c, path, write) # Refused
    PROVE  Absolute(Resolve(c, path, write)) /\ IsSubpath(Resolve(c, path, write), c.root)
<1>1. PICK r \in Seq(Segments) : Resolve(c, path, write) = c.root \o r
  BY ResolveBelow
<1>2. Absolute(c.root)
  BY DEF Roots, ARoot
<1>. QED BY <1>1, <1>2, UnderRoot DEF IsSubpath

(* RealToVirtual and Resolve are inverse: the virtual path of anything below *)
(* the root resolves to it, even if its path repeats a root.                 *)
THEOREM VirtualPathsResolve ==
    ASSUME NEW c, Roots(c), NEW p, Absolute(p), IsSubpath(p, c.root)
    PROVE  Resolve(c, VirtualPath(c, p), FALSE) = p
<1>1. Absolute(c.root)
  BY DEF Roots, ARoot
<1>2. After(c.root, p) \in Seq(Segments) /\ p = c.root \o After(c.root, p)
  BY <1>1, Under DEF IsSubpath
<1>. QED BY <1>2, VirtualOf, ResolveOf

(***************************************************************************)
(* What the tools keep of the paths they show.  That a path leads back says *)
(* nothing of how it was made; inductive is that it is the file's own path *)
(* with one root in place of the other (ShownBelow), which needs every file *)
(* to have a clean absolute path.                                          *)
(***************************************************************************)

(* A path shown of a file below the root is the file's own, with the virtual
   root in place of the real one. *)
ShownBelow(s) ==
    LET rest == After(config.root, s[2]) IN
    IsSubpath(s[2], config.root) /\ ~Repeats(config.root, rest) => s[1] = config.virtual \o rest

PathsInv ==
    /\ SandboxTypeOK
    /\ Roots(config)
    /\ \A f \in files : Absolute(f)
    /\ \A s \in shown : ShownBelow(s)

LEMMA PathsInit == SandboxInit => PathsInv
<1>. SUFFICES ASSUME SandboxInit PROVE PathsInv
  OBVIOUS
<1>1. PICK w \in WorkspaceConfigs, a \in AgentConfigs : config = EffectiveSandbox(w, a)
  BY DEF SandboxInit
<1>2. /\ config.root = Pick(Pick(a.root, w.root), SpaceDir)
      /\ config.virtual = Pick(Pick(a.virtual, w.virtual), HomeDir)
  BY <1>1 DEF EffectiveSandbox, MergeConfigs
<1>3. Roots(config)
  BY <1>2, SandboxAssumption DEF Pick, Roots
<1>4. Cardinality(files) = 0 /\ MaxFiles \in Nat
  BY FS_EmptySet, SandboxAssumption DEF SandboxInit
<1>5. Cardinality(files) <= MaxFiles
  BY <1>4
<1>6. IsAbs(config.root) /\ IsAbs(config.virtual)
  BY <1>3 DEF Roots, ARoot, Absolute
<1>. QED BY <1>3, <1>5, <1>6 DEF SandboxInit, SandboxTypeOK, PathsInv

(* A file is written; a path that is shown with it is as it should be. *)
LEMMA WrittenKeeps ==
    ASSUME PathsInv, NEW p, Absolute(p), Written(p), UNCHANGED config,
           \A s \in shown' : s \in shown \/ (s[2] = p /\ ShownBelow(s))
    PROVE  PathsInv'
<1>1. SandboxTypeOK'
  BY DEF PathsInv, SandboxTypeOK, Written
<1>2. Roots(config)'
  BY DEF PathsInv, Roots
<1>3. \A f \in files' : Absolute(f)
  BY DEF PathsInv, Written
<1>4. \A s \in shown' : ShownBelow(s)'
  BY DEF PathsInv, ShownBelow
<1>. QED BY <1>1, <1>2, <1>3, <1>4 DEF PathsInv

(* A path is shown of a file that is there. *)
LEMMA ShownKeeps ==
    ASSUME PathsInv, UNCHANGED <<config, files>>,
           \A s \in shown' : s \in shown \/ (s[2] \in files /\ ShownBelow(s))
    PROVE  PathsInv'
<1>1. SandboxTypeOK'
  BY DEF PathsInv, SandboxTypeOK
<1>2. Roots(config)'
  BY DEF PathsInv, Roots
<1>3. \A f \in files' : Absolute(f)
  BY DEF PathsInv
<1>4. \A s \in shown' : ShownBelow(s)'
  BY DEF PathsInv, ShownBelow
<1>. QED BY <1>1, <1>2, <1>3, <1>4 DEF PathsInv

(* What the file tools show of a file they resolved. *)
LEMMA VirtualIsShownBelow ==
    ASSUME Roots(config), NEW r \in Seq(Segments)
    PROVE  /\ Absolute(config.root \o r)
           /\ ShownBelow(<<VirtualPath(config, config.root \o r), config.root \o r>>)
<1>1. Absolute(config.root \o r) /\ After(config.root, config.root \o r) = r
  BY UnderRoot DEF Roots, ARoot
<1>2. VirtualPath(config, config.root \o r) = config.virtual \o r
  BY VirtualOf
<1>. QED BY <1>1, <1>2 DEF ShownBelow

LEMMA PathsWrite ==
    ASSUME PathsInv, NEW arg \in Arguments, FilesystemWrite(arg)
    PROVE  PathsInv'
<1>. DEFINE p == Resolve(config, arg, TRUE)
<1>1. /\ p # Refused /\ Written(p) /\ UNCHANGED config
      /\ shown' = shown \cup {<<VirtualPath(config, p), p>>}
  BY DEF FilesystemWrite
<1>2. Path(arg) /\ Roots(config)
  BY SandboxAssumption DEF PathsInv
<1>3. PICK r \in Seq(Segments) : p = config.root \o r
  BY <1>1, <1>2, ResolveBelow
<1>. HIDE DEF p
<1>4. Absolute(p) /\ ShownBelow(<<VirtualPath(config, p), p>>)
  BY <1>2, <1>3, VirtualIsShownBelow
<1>5. \A s \in shown' : s \in shown \/ (s[2] = p /\ ShownBelow(s))
  BY <1>1, <1>4
<1>. QED BY <1>1, <1>4, <1>5, WrittenKeeps

LEMMA PathsRead ==
    ASSUME PathsInv, NEW arg \in Arguments, FilesystemRead(arg)
    PROVE  PathsInv'
<1>. DEFINE p == Resolve(config, arg, FALSE)
<1>1. /\ p \in files /\ UNCHANGED <<config, files>>
      /\ shown' = shown \cup {<<VirtualPath(config, p), p>>}
  BY DEF FilesystemRead
<1>2. Path(arg) /\ Roots(config) /\ p # Refused
  BY <1>1, SandboxAssumption, RefusedIs DEF PathsInv, Absolute
<1>3. PICK r \in Seq(Segments) : p = config.root \o r
  BY <1>2, ResolveBelow
<1>. HIDE DEF p
<1>4. ShownBelow(<<VirtualPath(config, p), p>>)
  BY <1>2, <1>3, VirtualIsShownBelow
<1>5. \A s \in shown' : s \in shown \/ (s[2] \in files /\ ShownBelow(s))
  BY <1>1, <1>4
<1>. QED BY <1>1, <1>5, ShownKeeps

(* A directory's own path joined with a name in it. *)
LEMMA JoinedIsShownBelow ==
    ASSUME Roots(config), NEW r \in Seq(Segments), NEW f, Absolute(f), Front(f) = config.root \o r
    PROVE  ShownBelow(<<Join(VirtualPath(config, config.root \o r), <<Last(f)>>), f>>)
<1>0. Absolute(config.root) /\ Absolute(config.virtual)
  BY DEF Roots, ARoot
<1>1. f \in Seq(STRING) /\ f # <<>>
  BY DEF Absolute, IsAbs
<1>2. /\ Front(f) \in Seq(STRING) /\ Len(Front(f)) = Len(f) - 1
      /\ Len(f) \in Nat \ {0} /\ Last(f) \in STRING
      /\ \A i \in 1 .. (Len(f) - 1) : Front(f)[i] = f[i]
  BY <1>1, FrontType
<1>3. Len(config.root \o r) >= 2
  <2>1. Len(config.root \o r) = Len(config.root) + Len(r) /\ Len(r) \in Nat
    BY <1>0, UnderRoot, SegmentsAre
  <2>2. Len(config.root) \in Nat /\ Len(config.root) > 1
    BY LenProperties DEF Roots, ARoot, Absolute
  <2>. QED BY <2>1, <2>2
<1>4. Last(f) \in Segments
  <2>1. Len(f) \in 2 .. Len(f)
    BY <1>2, <1>3
  <2>. QED BY <1>2, <2>1 DEF Last, Absolute, Segments
<1>. DEFINE t == r \o <<Last(f)>>
<1>5. t \in Seq(Segments) /\ <<Last(f)>> \in Seq(Segments)
  <2>1. <<Last(f)>> \in Seq(Segments)
    BY <1>4, OneSegment
  <2>. QED BY <2>1, ConcatProperties
<1>6. \A root : Absolute(root) => (root \o r) \o <<Last(f)>> = root \o t
  <2>. SUFFICES ASSUME NEW root, Absolute(root) PROVE (root \o r) \o <<Last(f)>> = root \o t
    OBVIOUS
  <2>1. root \in Seq(STRING) /\ r \in Seq(STRING) /\ <<Last(f)>> \in Seq(STRING)
    BY <1>5, SegmentsAre DEF Absolute
  <2>. QED BY <2>1, ConcatAssociative
<1>7. f = config.root \o t
  <2>1. f = Append(Front(f), Last(f))
    <3>1. /\ Append(Front(f), Last(f)) \in Seq(STRING)
          /\ Len(Append(Front(f), Last(f))) = Len(f)
          /\ \A i \in 1 .. (Len(f) - 1) : Append(Front(f), Last(f))[i] = f[i]
          /\ Append(Front(f), Last(f))[Len(f)] = f[Len(f)]
      <4>1. Len(Front(f)) + 1 = Len(f) /\ Last(f) = f[Len(f)]
        BY <1>2 DEF Last
      <4>. DEFINE q == Front(f)
                  e == Last(f)
      <4>2. q \in Seq(STRING) /\ e \in STRING /\ \A i \in 1 .. Len(q) : q[i] = f[i]
        BY <1>2
      <4>. HIDE DEF q, e
      <4>3. /\ Append(q, e) \in Seq(STRING) /\ Len(Append(q, e)) = Len(q) + 1
            /\ \A i \in 1 .. Len(q) : Append(q, e)[i] = q[i]
            /\ Append(q, e)[Len(q) + 1] = e
        BY <4>2, AppendProperties
      <4>4. \A i \in 1 .. Len(q) : Append(q, e)[i] = f[i]
        BY <4>2, <4>3
      <4>. QED BY <1>2, <4>1, <4>3, <4>4 DEF q, e
    <3>2. ASSUME NEW i \in 1 .. Len(f) PROVE Append(Front(f), Last(f))[i] = f[i]
      <4>1. i \in 1 .. (Len(f) - 1) \/ i = Len(f)
        BY <1>2
      <4>. QED BY <3>1, <4>1
    <3>. QED BY <1>1, <3>1, <3>2, SeqEqual
  <2>2. Append(Front(f), Last(f)) = Front(f) \o <<Last(f)>>
    BY <1>2, AppendIsConcat
  <2>. QED BY <2>1, <2>2, <1>0, <1>6
<1>8. Join(VirtualPath(config, config.root \o r), <<Last(f)>>) = config.virtual \o t
  <2>1. VirtualPath(config, config.root \o r) = config.virtual \o r
    BY VirtualOf
  <2>2. Clean(config.virtual \o t) = config.virtual \o t
    BY <1>0, <1>5, UnderRoot
  <2>. QED BY <1>0, <1>6, <2>1, <2>2 DEF Join
<1>9. After(config.root, config.root \o t) = t
  BY <1>0, <1>5, UnderRoot
<1>. HIDE DEF t
<1>. QED BY <1>7, <1>8, <1>9 DEF ShownBelow

LEMMA PathsList ==
    ASSUME PathsInv, NEW arg \in Arguments, FilesystemList(arg)
    PROVE  PathsInv'
<1>. DEFINE p == Resolve(config, arg, FALSE)
            in == {f \in files : Front(f) = p}
            at(f) == Join(VirtualPath(config, p), <<Last(f)>>)
<1>1. /\ p # Refused /\ UNCHANGED <<config, files>>
      /\ shown' = shown \cup {<<at(f), f>> : f \in in}
  BY DEF FilesystemList
<1>2. Path(arg) /\ Roots(config)
  BY SandboxAssumption DEF PathsInv
<1>3. PICK r \in Seq(Segments) : p = config.root \o r
  BY <1>1, <1>2, ResolveBelow
<1>4. \A f \in in : f \in files /\ Absolute(f) /\ Front(f) = p
  BY DEF PathsInv
<1>. HIDE DEF p, in
<1>5. \A f \in in : ShownBelow(<<at(f), f>>)
  BY <1>2, <1>3, <1>4, JoinedIsShownBelow
<1>. HIDE DEF at
<1>6. \A s \in shown' : s \in shown \/ (s[2] \in files /\ ShownBelow(s))
  BY <1>1, <1>4, <1>5
<1>. QED BY <1>1, <1>6, ShownKeeps

(* The path of a command is a clean absolute one. *)
LEMMA CommandPathAbsolute ==
    ASSUME Roots(config), NEW arg, Path(arg), NEW d, Path(d), CommandDir(d) # Refused
    PROVE  Absolute(CommandPath(arg, CommandDir(d)))
<1>0. Absolute(config.root) /\ Absolute(config.virtual)
  BY DEF Roots, ARoot
<1>. DEFINE p == RewriteCommand(config, arg)
            dir == CommandDir(d)
<1>1. Path(p)
  BY <1>0, ReplacedPath DEF RewriteCommand, Absolute
<1>2. Absolute(dir)
  <2>1. CASE d = Unset
    BY <1>0, <2>1 DEF CommandDir
  <2>2. CASE d # Unset
    <3>1. dir = Resolve(config, d, FALSE)
      BY <2>2 DEF CommandDir
    <3>2. PICK r \in Seq(Segments) : dir = config.root \o r
      BY <3>1, ResolveBelow
    <3>. QED BY <1>0, <3>2, UnderRoot
  <2>. QED BY <2>1, <2>2
<1>3. CommandPath(arg, dir) = IF IsAbs(p) THEN Clean(p) ELSE Join(dir, p)
  BY DEF CommandPath
<1>. HIDE DEF p, dir
<1>4. ASSUME IsAbs(p) PROVE Absolute(CommandPath(arg, dir))
  BY <1>1, <1>3, <1>4, CleanAbsolute
<1>5. ASSUME ~IsAbs(p) PROVE Absolute(CommandPath(arg, dir))
  <2>1. p \in Seq(STRING \ {"/"})
    BY <1>1, <1>5, Relative
  <2>. QED BY <1>2, <1>3, <1>5, <2>1, PathBelow
<1>. QED BY <1>4, <1>5 DEF dir

LEMMA PathsShellWrite ==
    ASSUME PathsInv, NEW arg \in Arguments, NEW d \in CommandDirs, ShellWrite(arg, d)
    PROVE  PathsInv'
<1>1. /\ CommandDir(d) # Refused
      /\ Written(CommandPath(arg, CommandDir(d)))
      /\ UNCHANGED <<config, shown>>
  BY DEF ShellWrite
<1>2. Absolute(CommandPath(arg, CommandDir(d)))
  BY <1>1, SandboxAssumption, CommandPathAbsolute DEF PathsInv
<1>. QED BY <1>1, <1>2, WrittenKeeps

LEMMA PathsShellFind ==
    ASSUME PathsInv, NEW arg, NEW d, ShellFind(arg, d)
    PROVE  PathsInv'
<1>. DEFINE p == CommandPath(arg, CommandDir(d))
<1>1. /\ p \in files /\ UNCHANGED <<config, files>>
      /\ shown' = shown \cup {<<RewriteOutput(config, p), p>>}
  BY DEF ShellFind
<1>2. Absolute(p) /\ ARoot(config.root) /\ Absolute(config.virtual)
  BY <1>1 DEF PathsInv, Roots, ARoot
<1>. HIDE DEF p
<1>3. ShownBelow(<<RewriteOutput(config, p), p>>)
  <2>. SUFFICES ASSUME IsPrefix(config.root, p), ~Repeats(config.root, After(config.root, p))
                PROVE  RewriteOutput(config, p) = config.virtual \o After(config.root, p)
    BY DEF ShownBelow, IsSubpath
  <2>1. After(config.root, p) \in Seq(Segments) /\ p = config.root \o After(config.root, p)
    BY <1>2, Under DEF ARoot
  <2>. QED BY <1>2, <2>1, ReplacedRoot DEF RewriteOutput
<1>4. \A s \in shown' : s \in shown \/ (s[2] \in files /\ ShownBelow(s))
  BY <1>1, <1>3
<1>. QED BY <1>1, <1>4, ShownKeeps

LEMMA PathsStep == PathsInv /\ [SandboxNext]_pathVars => PathsInv'
<1>. SUFFICES ASSUME PathsInv, [SandboxNext]_pathVars PROVE PathsInv'
  OBVIOUS
<1>1. ASSUME NEW a \in Arguments, IsAbs(a), Appears(Clean(a)) PROVE PathsInv'
  <2>1. Absolute(Clean(a))
    BY <1>1, SandboxAssumption, CleanAbsolute
  <2>2. Written(Clean(a)) /\ UNCHANGED <<config, shown>>
    BY <1>1 DEF Appears
  <2>. QED BY <2>1, <2>2, WrittenKeeps
<1>2. CASE UNCHANGED pathVars
  BY <1>2, ShownKeeps DEF pathVars
<1>. QED BY <1>1, <1>2, PathsWrite, PathsRead, PathsList, PathsShellWrite, PathsShellFind DEF SandboxNext

(* Every file has a clean absolute path, and every path shown of a file     *)
(* below the root is the file's own with the virtual root in place of it.   *)
THEOREM PathsInvariant == SandboxSpec => []PathsInv
<1>. QED BY PathsInit, PathsStep, PTL DEF SandboxSpec

LEMMA PathsInvLeadsBack == PathsInv => PathsLeadBack
<1>. SUFFICES ASSUME PathsInv, NEW s \in shown, IsSubpath(s[2], config.root)
              PROVE  LET rest == After(config.root, s[2]) IN
                     /\ ~Repeats(config.root, rest) =>
                           /\ MatchesRoot(s[1], config.virtual)
                           /\ Resolve(config, s[1], FALSE) = s[2]
                           /\ ~Repeats(config.virtual, rest) => Clean(RewriteCommand(config, s[1])) = s[2]
                     /\ ~IsSubpath(s[2], config.virtual) => Resolve(config, s[2], FALSE) = s[2]
  BY DEF PathsLeadBack
<1>. DEFINE rest == After(config.root, s[2])
<1>1. /\ Roots(config) /\ ARoot(config.virtual) /\ Absolute(config.virtual) /\ Absolute(config.root)
      /\ ShownBelow(s) /\ Absolute(s[2])
  BY DEF PathsInv, SandboxTypeOK, Roots, ARoot
<1>2. rest \in Seq(Segments) /\ s[2] = config.root \o rest
  BY <1>1, Under DEF IsSubpath
<1>3. ASSUME ~Repeats(config.root, rest)
      PROVE  s[1] = config.virtual \o rest
  BY <1>1, <1>3 DEF ShownBelow
<1>. HIDE DEF rest
<1>4. MatchesRoot(config.virtual \o rest, config.virtual)
  BY <1>1, <1>2, UnderRoot, MatchesARoot
<1>5. /\ Resolve(config, config.virtual \o rest, FALSE) = s[2]
      /\ ~IsSubpath(s[2], config.virtual) => Resolve(config, s[2], FALSE) = s[2]
  BY <1>1, <1>2, ResolveOf DEF IsSubpath
<1>6. ASSUME ~Repeats(config.virtual, rest)
      PROVE  Clean(RewriteCommand(config, config.virtual \o rest)) = s[2]
  <2>1. RewriteCommand(config, config.virtual \o rest) = config.root \o rest
    BY <1>1, <1>2, <1>6, ReplacedRoot DEF RewriteCommand
  <2>. QED BY <1>1, <1>2, <2>1, UnderRoot
<1>. QED BY <1>3, <1>4, <1>5, <1>6 DEF rest

(* A path that a tool shows of a file below the root leads every tool back  *)
(* to that file (AutoResolvePath, RealToVirtual, RewriteOutputPaths).       *)
THEOREM ShownPathsLeadBack == SandboxSpec => []PathsLeadBack
<1>. QED BY PathsInvariant, PathsInvLeadsBack, PTL

-----------------------------------------------------------------------------
(***************************************************************************)
(* The workspaces, for any number of commands, names and directories.      *)
(*                                                                         *)
(* The default workspace stays usable because no command that deletes or   *)
(* overwrites a definition ever holds the name "default" with something    *)
(* else than the default definition (HeldBy), and because a command that   *)
(* has come past a point of the preparation leaves behind what the point   *)
(* made (StandsFor).  A write that fails can break both, so they are       *)
(* claimed until the first failure.                                        *)
(***************************************************************************)

DefaultDefinition == [name |-> "default", path |-> ""]

(* A definition is in the file of its name, and the default workspace has  *)
(* no directory but its own. *)
OwnDefinitions ==
    \A n \in Names : \A def \in definitions[n] :
        def.name = n /\ (n = "default" => def.path = "")

(* What a command is about to write or remove with a definition in hand. *)
HeldBy(c) ==
    /\ commands[c].at = "configureDefault" => commands[c].def = DefaultDefinition
    /\ commands[c].at \in {"define", "removeDefinition", "removeData"} =>
          commands[c].name # "default" /\ commands[c].def.name = commands[c].name

(* How far a command is with the default workspace shows on the disk. *)
StandsFor(c) ==
    commands[c].at \notin {"off", "manager", "defineDefault"} =>
        /\ definitions["default"] # {}
        /\ commands[c].at # "resolveDefault" =>
              /\ "default" \in dirs
              /\ commands[c].at # "configureDefault" => settings["default"] # {}

WorkspacesInv ==
    /\ WorkspacesTypeOK
    /\ failures = 0 => OwnDefinitions /\ \A c \in Commands : HeldBy(c) /\ StandsFor(c)

CommandRec == [op : Ops, name : Names, external : ExternalNames,
        at : CommandPlaces, def : Definition, config : Settings]

LEMMA WsBounds == MaxStarts \in Nat /\ MaxFailures \in Nat
BY WorkspacesAssumption

LEMMA WsConstants ==
    /\ "default" \in Names /\ "default" \in Dirs /\ "default" \notin CustomPaths
    /\ \A def \in Definition : DataDirOf(def) \in Dirs
    /\ Blank \in Definition /\ DefaultDefinition \in Definition
    /\ Zero \in Settings /\ NewSettings \in Settings
    /\ \A stored \in Settings : WorkspaceFields(stored) \in Settings /\ ConfigFields(stored) \in Settings
BY WorkspacesAssumption
DEF Dirs, Definition, DataDirOf, Blank, DefaultDefinition, Zero, NewSettings, Settings,
    WorkspaceFields, ConfigFields

LEMMA DefaultOnly ==
    /\ DefaultDefinition.name = "default" /\ DefaultDefinition.path = ""
    /\ DataDirOf(DefaultDefinition) = "default"
    /\ \A def \in Definition : def.name = "default" /\ def.path = "" => def = DefaultDefinition
<1>1. DefaultDefinition.name = "default" /\ DefaultDefinition.path = ""
  BY DEF DefaultDefinition
<1>2. ASSUME NEW def \in Definition, def.name = "default", def.path = ""
      PROVE  def = DefaultDefinition
  BY <1>2 DEF Definition, DefaultDefinition
<1>. QED BY <1>1, <1>2 DEF DataDirOf

LEMMA NoCommandType == NoCommand \in CommandRec
<1>1. (CHOOSE x \in ExternalNames : TRUE) \in ExternalNames
  BY WorkspacesAssumption
<1>. QED BY <1>1, WsConstants DEF NoCommand, CommandRec, Ops, CommandPlaces

LEMMA WorkspacesInitInv == WorkspacesInit => WorkspacesInv
<1>. SUFFICES ASSUME WorkspacesInit PROVE WorkspacesInv
  OBVIOUS
<1>1. \A c \in Commands : commands[c] = NoCommand /\ commands[c].at = "off"
  BY DEF WorkspacesInit, NoCommand
<1>2. WorkspacesTypeOK
  <2>1. commands \in [Commands -> CommandRec]
    BY NoCommandType DEF WorkspacesInit
  <2>2. starts \in 0 .. MaxStarts /\ failures \in 0 .. MaxFailures
    BY WsBounds DEF WorkspacesInit
  <2>3. \A S, T : [x \in S |-> {}] \in [S -> SUBSET T]
    OBVIOUS
  <2>4. dirs \subseteq Dirs
    BY DEF WorkspacesInit
  <2>5. definitions \in [Names -> SUBSET Definition] /\ settings \in [Dirs -> SUBSET Settings]
    BY <2>3 DEF WorkspacesInit
  <2>. QED BY <2>1, <2>2, <2>4, <2>5 DEF WorkspacesTypeOK, CommandRec
<1>3. OwnDefinitions /\ \A c \in Commands : HeldBy(c) /\ StandsFor(c)
  BY <1>1 DEF WorkspacesInit, OwnDefinitions, HeldBy, StandsFor
<1>. QED BY <1>2, <1>3 DEF WorkspacesInv

(* What a command does to itself. *)
LEMMA ItGoes ==
    ASSUME WorkspacesTypeOK, NEW c \in Commands, NEW place \in CommandPlaces, Goes(c, place)
    PROVE  /\ commands' \in [Commands -> CommandRec]
           /\ commands'[c].at = place /\ commands'[c].name = commands[c].name
           /\ commands'[c].def = commands[c].def
           /\ \A e \in Commands \ {c} : commands'[e] = commands[e]
<1>1. commands \in [Commands -> CommandRec]
  BY DEF WorkspacesTypeOK, CommandRec
<1>2. commands' = [commands EXCEPT ![c].at = place]
  BY DEF Goes
<1>. QED BY <1>1, <1>2 DEF CommandRec

LEMMA ItHolds ==
    ASSUME WorkspacesTypeOK, NEW c \in Commands, NEW place \in CommandPlaces,
           NEW def \in Definition, NEW conf \in Settings, Holds(c, place, def, conf)
    PROVE  /\ commands' \in [Commands -> CommandRec]
           /\ commands'[c].at = place /\ commands'[c].name = commands[c].name
           /\ commands'[c].def = def
           /\ \A e \in Commands \ {c} : commands'[e] = commands[e]
<1>1. commands \in [Commands -> CommandRec]
  BY DEF WorkspacesTypeOK, CommandRec
<1>2. commands' = [commands EXCEPT ![c].at = place, ![c].def = def, ![c].config = conf]
  BY DEF Holds
<1>. QED BY <1>1, <1>2 DEF CommandRec

LEMMA ItKeeps ==
    ASSUME WorkspacesTypeOK, NEW c \in Commands, NEW place \in CommandPlaces,
           NEW conf \in Settings,
           commands' = [commands EXCEPT ![c].at = place, ![c].config = conf]
    PROVE  /\ commands' \in [Commands -> CommandRec]
           /\ commands'[c].at = place /\ commands'[c].name = commands[c].name
           /\ commands'[c].def = commands[c].def
           /\ \A e \in Commands \ {c} : commands'[e] = commands[e]
<1>1. commands \in [Commands -> CommandRec]
  BY DEF WorkspacesTypeOK, CommandRec
<1>. QED BY <1>1 DEF CommandRec

LEMMA LoadedType ==
    ASSUME WorkspacesTypeOK
    PROVE  /\ \A n \in Names : definitions[n] # {} => ContentOf(definitions[n]) \in definitions[n]
           /\ \A n \in Names : definitions[n] # {} => ContentOf(definitions[n]) \in Definition
           /\ \A d \in Dirs : settings[d] # {} => ContentOf(settings[d]) \in Settings
           /\ \A def \in Definition : LoadedConfig(def) \in Settings
<1>1. \A stored : stored # {} => ContentOf(stored) \in stored
  BY DEF ContentOf
<1>2. \A d \in Dirs : settings[d] # {} => ContentOf(settings[d]) \in Settings
  BY <1>1 DEF WorkspacesTypeOK
<1>3. \A def \in Definition : LoadedConfig(def) \in Settings
  BY <1>2, WsConstants DEF LoadedConfig
<1>. QED BY <1>1, <1>2, <1>3 DEF WorkspacesTypeOK

DiskTypeOK ==
    /\ definitions \in [Names -> SUBSET Definition]
    /\ dirs \subseteq Dirs
    /\ settings \in [Dirs -> SUBSET Settings]

(* The others stand where the default workspace is not taken from them. *)
LEMMA OthersStand ==
    ASSUME WorkspacesInv, NEW c \in Commands, DiskTypeOK', commands' \in [Commands -> CommandRec],
           starts' \in 0 .. MaxStarts, UNCHANGED failures,
           \A e \in Commands \ {c} : commands'[e] = commands[e],
           failures = 0 =>
              /\ definitions["default"] # {} => definitions'["default"] # {}
              /\ "default" \in dirs => "default" \in dirs'
              /\ settings["default"] # {} => settings'["default"] # {}
              /\ OwnDefinitions'
              /\ HeldBy(c)' /\ StandsFor(c)'
    PROVE  WorkspacesInv'
<1>1. WorkspacesTypeOK'
  BY DEF WorkspacesInv, WorkspacesTypeOK, DiskTypeOK, CommandRec
<1>2. ASSUME failures = 0, NEW e \in Commands PROVE HeldBy(e)' /\ StandsFor(e)'
  <2>1. CASE e = c
    BY <1>2, <2>1
  <2>2. CASE e # c
    <3>1. HeldBy(e) /\ StandsFor(e) /\ commands'[e] = commands[e]
      BY <1>2, <2>2 DEF WorkspacesInv
    <3>. QED BY <1>2, <3>1 DEF HeldBy, StandsFor
  <2>. QED BY <2>1, <2>2
<1>. QED BY <1>1, <1>2 DEF WorkspacesInv

LEMMA Unwritten ==
    ASSUME WorkspacesInv, NEW c \in Commands, commands' \in [Commands -> CommandRec],
           starts' \in 0 .. MaxStarts, UNCHANGED <<definitions, dirs, settings, failures>>,
           \A e \in Commands \ {c} : commands'[e] = commands[e],
           failures = 0 => HeldBy(c)' /\ StandsFor(c)'
    PROVE  WorkspacesInv'
<1>1. DiskTypeOK'
  BY DEF WorkspacesInv, WorkspacesTypeOK, DiskTypeOK
<1>2. failures = 0 => OwnDefinitions'
  BY DEF WorkspacesInv, OwnDefinitions
<1>. QED BY <1>1, <1>2, OthersStand

LEMMA CommandStarts ==
    ASSUME WorkspacesInv, NEW c \in Commands, StartCommand(c)
    PROVE  WorkspacesInv'
<1>1. PICK op \in Ops, n \in Names, x \in ExternalNames :
         commands' = [commands EXCEPT ![c] =
              [NoCommand EXCEPT !.op = op, !.name = n, !.external = x, !.at = "manager"]]
  BY DEF StartCommand
<1>. DEFINE new == [NoCommand EXCEPT !.op = op, !.name = n, !.external = x, !.at = "manager"]
<1>2. new \in CommandRec /\ new.at = "manager"
  BY NoCommandType DEF CommandRec, CommandPlaces
<1>3. commands \in [Commands -> CommandRec]
  BY DEF WorkspacesInv, WorkspacesTypeOK, CommandRec
<1>. HIDE DEF new
<1>4. commands' = [commands EXCEPT ![c] = new]
  BY <1>1 DEF new
<1>5. commands' \in [Commands -> CommandRec] /\ commands'[c].at = "manager"
  BY <1>2, <1>3, <1>4
<1>6. \A e \in Commands \ {c} : commands'[e] = commands[e]
  BY <1>3, <1>4
<1>7. starts' \in 0 .. MaxStarts
  <2>1. starts \in 0 .. MaxStarts /\ starts < MaxStarts /\ starts' = starts + 1
    BY DEF StartCommand, WorkspacesInv, WorkspacesTypeOK
  <2>. QED BY <2>1, WsBounds
<1>8. HeldBy(c)' /\ StandsFor(c)'
  BY <1>5 DEF HeldBy, StandsFor
<1>. QED BY <1>5, <1>6, <1>7, <1>8, Unwritten DEF StartCommand

(* A command that has its manager keeps it on its way. *)
Managed == {"ready", "define", "makeDirs", "configure", "act", "save", "removeDefinition", "removeData"}

LEMMA GoesOn ==
    ASSUME WorkspacesInv, NEW c \in Commands, NEW place \in CommandPlaces,
           UNCHANGED <<definitions, dirs, settings, starts, failures>>,
           commands' \in [Commands -> CommandRec], commands'[c].at = place,
           \A e \in Commands \ {c} : commands'[e] = commands[e],
           place = "off" \/ (commands[c].at \in Managed /\ place \in Managed),
           place \in {"define", "removeDefinition", "removeData"} =>
              commands'[c].name # "default" /\
              (failures = 0 => commands'[c].def.name = commands'[c].name)
    PROVE  WorkspacesInv'
<1>1. starts' \in 0 .. MaxStarts
  BY DEF WorkspacesInv, WorkspacesTypeOK
<1>2. failures = 0 => HeldBy(c)'
  BY DEF HeldBy, Managed
<1>3. failures = 0 => StandsFor(c)'
  BY DEF WorkspacesInv, StandsFor, Managed
<1>. QED BY <1>1, <1>2, <1>3, Unwritten

LEMMA TalkKeeps ==
    ASSUME WorkspacesInv, NEW c \in Commands,
           \/ StatDefault(c) \/ CheckNew(c) \/ Discover(c) \/ DeleteLoad(c)
           \/ AddExternal(c) \/ RemoveExternal(c) \/ SetConfig(c) \/ UpdateConfig(c)
           \/ Interrupted(c)
    PROVE  WorkspacesInv'
<1>. WorkspacesTypeOK /\ commands[c] \in CommandRec /\ commands[c].config \in Settings
  BY DEF WorkspacesInv, WorkspacesTypeOK, CommandRec
<1>1. CASE StatDefault(c)
  <2>. DEFINE place == IF definitions["default"] = {} THEN "defineDefault" ELSE "resolveDefault"
  <2>1. place \in CommandPlaces /\ Goes(c, place)
    BY <1>1 DEF StatDefault, CommandPlaces
  <2>2. /\ commands' \in [Commands -> CommandRec] /\ commands'[c].at = place
        /\ \A e \in Commands \ {c} : commands'[e] = commands[e]
    <3>. HIDE DEF place
    <3>. QED BY <2>1, ItGoes
  <2>3. HeldBy(c)' /\ StandsFor(c)'
    BY <1>1, <2>2 DEF HeldBy, StandsFor, StatDefault
  <2>4. starts' \in 0 .. MaxStarts
    BY <1>1 DEF StatDefault, WorkspacesTypeOK
  <2>. QED BY <1>1, <2>2, <2>3, <2>4, Unwritten DEF StatDefault
<1>2. CASE Goes(c, "off") /\ UNCHANGED <<definitions, dirs, settings, starts, failures>>
  <2>1. "off" \in CommandPlaces
    BY DEF CommandPlaces
  <2>. QED BY <1>2, <2>1, ItGoes, GoesOn
<1>3. ASSUME NEW conf \in Settings, Edits(c, conf) PROVE WorkspacesInv'
  <2>1. /\ commands[c].at = "act" /\ "save" \in CommandPlaces
        /\ commands' = [commands EXCEPT ![c].at = "save", ![c].config = conf]
        /\ UNCHANGED <<definitions, dirs, settings, starts, failures>>
    BY <1>3 DEF Edits, CommandPlaces
  <2>2. /\ commands' \in [Commands -> CommandRec] /\ commands'[c].at = "save"
        /\ \A e \in Commands \ {c} : commands'[e] = commands[e]
    BY <1>3, <2>1, ItKeeps
  <2>. QED BY <2>1, <2>2, GoesOn DEF Managed
<1>4. CASE CheckNew(c)
  <2>1. SUFFICES ASSUME NEW path \in CustomPaths \cup {""}, commands[c].name # "default",
                        Holds(c, "define", [name |-> commands[c].name, path |-> path], NewSettings)
                 PROVE  WorkspacesInv'
    BY <1>2, <1>4 DEF CheckNew
  <2>2. [name |-> commands[c].name, path |-> path] \in Definition /\ "define" \in CommandPlaces
    BY DEF Definition, CommandRec, CommandPlaces
  <2>3. /\ commands' \in [Commands -> CommandRec]
        /\ commands'[c].at = "define" /\ commands'[c].name = commands[c].name
        /\ commands'[c].def = [name |-> commands[c].name, path |-> path]
        /\ \A e \in Commands \ {c} : commands'[e] = commands[e]
    BY <2>1, <2>2, ItHolds, WsConstants
  <2>4. commands'[c].def.name = commands'[c].name
    <3>1. [name |-> commands[c].name, path |-> path].name = commands[c].name
      OBVIOUS
    <3>. QED BY <2>3, <3>1
  <2>. QED BY <1>4, <2>1, <2>2, <2>3, <2>4, GoesOn DEF CheckNew, Managed
<1>5. CASE Discover(c)
  <2>. DEFINE n == commands[c].name
  <2>1. CASE definitions[n] = {} /\ n # "default"
    <3>1. Holds(c, "define", [name |-> n, path |-> ""], NewSettings)
      BY <1>5, <2>1 DEF Discover
    <3>2. [name |-> n, path |-> ""] \in Definition /\ "define" \in CommandPlaces
      BY DEF Definition, CommandRec, CommandPlaces
    <3>3. /\ commands' \in [Commands -> CommandRec]
          /\ commands'[c].at = "define" /\ commands'[c].name = commands[c].name
          /\ commands'[c].def = [name |-> commands[c].name, path |-> ""]
          /\ \A e \in Commands \ {c} : commands'[e] = commands[e]
      BY <3>1, <3>2, ItHolds, WsConstants
    <3>4. commands'[c].def.name = commands'[c].name
      <4>1. [name |-> commands[c].name, path |-> ""].name = commands[c].name
        OBVIOUS
      <4>. QED BY <3>3, <4>1
    <3>. QED BY <1>5, <2>1, <3>2, <3>3, <3>4, GoesOn DEF Discover, Managed
  <2>2. CASE definitions[n] # {}
    <3>. DEFINE def == ContentOf(definitions[n])
    <3>1. n \in Names
      BY DEF CommandRec
    <3>2. def \in Definition /\ LoadedConfig(def) \in Settings
      BY <2>2, <3>1, LoadedType
    <3>3. Holds(c, "act", def, LoadedConfig(def))
      BY <1>5, <2>2 DEF Discover
    <3>4. "act" \in CommandPlaces
      BY DEF CommandPlaces
    <3>5. /\ commands' \in [Commands -> CommandRec] /\ commands'[c].at = "act"
          /\ \A e \in Commands \ {c} : commands'[e] = commands[e]
      <4>. HIDE DEF def
      <4>. QED BY <3>2, <3>3, <3>4, ItHolds
    <3>. QED BY <1>5, <3>4, <3>5, GoesOn DEF Discover, Managed
  <2>. QED BY <1>2, <1>5, <2>1, <2>2 DEF Discover
<1>6. CASE DeleteLoad(c)
  <2>. DEFINE n == commands[c].name
  <2>1. SUFFICES ASSUME n # "default", definitions[n] # {},
                        Holds(c, "removeDefinition", ContentOf(definitions[n]), Zero)
                 PROVE  WorkspacesInv'
    BY <1>2, <1>6 DEF DeleteLoad
  <2>2. n \in Names /\ "removeDefinition" \in CommandPlaces
    BY DEF CommandRec, CommandPlaces
  <2>3. ContentOf(definitions[n]) \in Definition /\ ContentOf(definitions[n]) \in definitions[n]
    BY <2>1, <2>2, LoadedType
  <2>4. /\ commands' \in [Commands -> CommandRec]
        /\ commands'[c].at = "removeDefinition" /\ commands'[c].name = commands[c].name
        /\ commands'[c].def = ContentOf(definitions[n])
        /\ \A e \in Commands \ {c} : commands'[e] = commands[e]
    BY <2>1, <2>2, <2>3, ItHolds, WsConstants
  <2>5. failures = 0 => commands'[c].def.name = commands'[c].name
    BY <2>2, <2>3, <2>4 DEF WorkspacesInv, OwnDefinitions
  <2>. QED BY <1>6, <2>1, <2>2, <2>4, <2>5, GoesOn DEF DeleteLoad, Managed
<1>7. CASE AddExternal(c)
  <2>1. [commands[c].config EXCEPT !.agents = @ \cup {commands[c].external}] \in Settings
    BY DEF Settings, CommandRec
  <2>. QED BY <1>3, <1>7, <2>1 DEF AddExternal
<1>8. CASE RemoveExternal(c)
  <2>1. [commands[c].config EXCEPT !.agents = @ \ {commands[c].external}] \in Settings
    BY DEF Settings, CommandRec
  <2>. QED BY <1>2, <1>3, <1>8, <2>1 DEF RemoveExternal
<1>9. CASE SetConfig(c)
  <2>. DEFINE stored == settings[DataDirOf(commands[c].def)]
              kept == ConfigFields(IF stored = {} THEN Zero ELSE ContentOf(stored))
  <2>1. DataDirOf(commands[c].def) \in Dirs
    BY WsConstants DEF CommandRec
  <2>2. (IF stored = {} THEN Zero ELSE ContentOf(stored)) \in Settings
    BY <2>1, LoadedType, WsConstants
  <2>3. kept \in Settings
    BY <2>2, WsConstants
  <2>4. [kept EXCEPT !.model = TRUE] \in Settings
    <3>. HIDE DEF kept
    <3>. QED BY <2>3 DEF Settings
  <2>. QED BY <1>3, <1>9, <2>4 DEF SetConfig
<1>10. CASE UpdateConfig(c)
  <2>1. /\ [commands[c].config EXCEPT !.enabled = ~@] \in Settings
        /\ [commands[c].config EXCEPT !.blocked = ~@] \in Settings
    BY DEF Settings
  <2>2. ASSUME commands[c].at = "act",
               Holds(c, "act", commands[c].def, [commands[c].config EXCEPT !.enabled = ~@]),
               UNCHANGED <<definitions, dirs, settings, starts, failures>>
        PROVE  WorkspacesInv'
    <3>1. "act" \in CommandPlaces /\ commands[c].def \in Definition
      BY DEF CommandPlaces, CommandRec
    <3>2. /\ commands' \in [Commands -> CommandRec] /\ commands'[c].at = "act"
          /\ \A e \in Commands \ {c} : commands'[e] = commands[e]
      BY <2>1, <2>2, <3>1, ItHolds
    <3>. QED BY <2>2, <3>1, <3>2, GoesOn DEF Managed
  <2>. QED BY <1>3, <1>10, <2>1, <2>2 DEF UpdateConfig
<1>. QED BY <1>1, <1>2, <1>4, <1>5, <1>6, <1>7, <1>8, <1>9, <1>10 DEF Interrupted

LEMMA SettingsKeep ==
    ASSUME WorkspacesInv, NEW c \in Commands, NEW d \in Dirs, NEW conf \in Settings,
           NEW next \in {"off", "ready", "act"}, WritesSettings(c, d, conf, next),
           failures = 0 => \/ next = "off" \/ commands[c].at \in Managed
                           \/ commands[c].at = "configureDefault" /\ d = "default"
    PROVE  WorkspacesInv'
<1>. WorkspacesTypeOK /\ commands[c] \in CommandRec
  BY DEF WorkspacesInv, WorkspacesTypeOK, CommandRec
<1>1. /\ settings' = [settings EXCEPT ![d] = {conf}] /\ dirs' = dirs \cup {d}
      /\ commands' = [commands EXCEPT ![c].at = next, ![c].config = conf]
      /\ UNCHANGED <<definitions, starts, failures>>
  BY DEF WritesSettings
<1>2. next \in CommandPlaces
  BY DEF CommandPlaces
<1>3. /\ commands' \in [Commands -> CommandRec]
      /\ commands'[c].at = next
      /\ \A e \in Commands \ {c} : commands'[e] = commands[e]
  BY <1>1, <1>2, ItKeeps
<1>4. settings' \in [Dirs -> SUBSET Settings] /\ settings'[d] = {conf}
      /\ \A x \in Dirs : settings[x] # {} => settings'[x] # {}
  BY <1>1 DEF WorkspacesTypeOK
<1>5. DiskTypeOK' /\ starts' \in 0 .. MaxStarts
  BY <1>1, <1>4 DEF WorkspacesTypeOK, DiskTypeOK
<1>6. failures = 0 => OwnDefinitions'
  BY <1>1 DEF WorkspacesInv, OwnDefinitions
<1>7. HeldBy(c)'
  BY <1>3 DEF HeldBy
<1>8. settings["default"] # {} => settings'["default"] # {}
  BY <1>4, WsConstants
<1>9. failures = 0 => StandsFor(c)'
  <2>1. failures = 0 => StandsFor(c)
    BY DEF WorkspacesInv
  <2>. QED BY <1>1, <1>3, <1>4, <1>8, <2>1 DEF StandsFor, Managed
<1>. QED BY <1>1, <1>3, <1>5, <1>6, <1>7, <1>8, <1>9, OthersStand

LEMMA DefinitionKeeps ==
    ASSUME WorkspacesInv, NEW c \in Commands, NEW n \in Names, NEW def \in Definition,
           NEW next \in {"resolveDefault", "makeDirs"}, WritesDefinition(c, n, def, next),
           failures = 0 =>
              /\ def.name = n /\ (n = "default" => def.path = "")
              /\ (next = "resolveDefault" /\ n = "default") \/ commands[c].at \in Managed
    PROVE  WorkspacesInv'
<1>. WorkspacesTypeOK /\ commands[c] \in CommandRec
  BY DEF WorkspacesInv, WorkspacesTypeOK, CommandRec
<1>1. /\ definitions' = [definitions EXCEPT ![n] = {def}] /\ Goes(c, next)
      /\ UNCHANGED <<dirs, settings, starts, failures>>
  BY DEF WritesDefinition
<1>2. next \in CommandPlaces
  BY DEF CommandPlaces
<1>3. /\ commands' \in [Commands -> CommandRec]
      /\ commands'[c].at = next
      /\ \A e \in Commands \ {c} : commands'[e] = commands[e]
  BY <1>1, <1>2, ItGoes
<1>4. definitions' \in [Names -> SUBSET Definition] /\ definitions'[n] = {def}
      /\ \A x \in Names \ {n} : definitions'[x] = definitions[x]
  BY <1>1 DEF WorkspacesTypeOK
<1>5. DiskTypeOK' /\ starts' \in 0 .. MaxStarts
  BY <1>1, <1>4 DEF WorkspacesTypeOK, DiskTypeOK
<1>6. failures = 0 => OwnDefinitions'
  <2>1. failures = 0 => OwnDefinitions
    BY DEF WorkspacesInv
  <2>2. ASSUME failures = 0, NEW x \in Names, NEW e \in definitions'[x]
        PROVE  e.name = x /\ (x = "default" => e.path = "")
    <3>1. CASE x = n
      BY <1>4, <2>2, <3>1
    <3>2. CASE x # n
      BY <1>4, <2>1, <2>2, <3>2 DEF OwnDefinitions
    <3>. QED BY <3>1, <3>2
  <2>. QED BY <2>2 DEF OwnDefinitions
<1>7. HeldBy(c)'
  BY <1>3 DEF HeldBy
<1>8. definitions["default"] # {} => definitions'["default"] # {}
  BY <1>4, WsConstants
<1>9. failures = 0 => StandsFor(c)'
  <2>1. failures = 0 => StandsFor(c)
    BY DEF WorkspacesInv
  <2>. QED BY <1>1, <1>3, <1>4, <1>8, <2>1 DEF StandsFor, Managed
<1>. QED BY <1>1, <1>3, <1>5, <1>6, <1>7, <1>8, <1>9, OthersStand

LEMMA WriteKeeps ==
    ASSUME WorkspacesInv, NEW c \in Commands,
           \/ DefineDefault(c) \/ ConfigureDefault(c) \/ Define(c) \/ Configure(c) \/ SaveConfig(c)
    PROVE  WorkspacesInv'
<1>. /\ commands[c].name \in Names /\ commands[c].def \in Definition
     /\ commands[c].config \in Settings
     /\ failures = 0 => HeldBy(c)
  BY DEF WorkspacesInv, WorkspacesTypeOK
<1>. DEFINE d == DataDirOf(commands[c].def)
<1>0. d \in Dirs
  BY WsConstants
<1>1. CASE DefineDefault(c)
  <2>1. WritesDefinition(c, "default", DefaultDefinition, "resolveDefault")
    BY <1>1 DEF DefineDefault, DefaultDefinition
  <2>. QED BY <2>1, DefaultOnly, WsConstants, DefinitionKeeps
<1>2. CASE ConfigureDefault(c)
  <2>1. commands[c].at = "configureDefault" /\ WritesSettings(c, d, commands[c].config, "ready")
    BY <1>2 DEF ConfigureDefault
  <2>2. failures = 0 => d = "default"
    BY <2>1, DefaultOnly DEF HeldBy
  <2>. QED BY <1>0, <2>1, <2>2, SettingsKeep
<1>3. CASE Define(c)
  <2>1. commands[c].at = "define" /\ WritesDefinition(c, commands[c].name, commands[c].def, "makeDirs")
    BY <1>3 DEF Define
  <2>2. failures = 0 => /\ commands[c].def.name = commands[c].name
                        /\ commands[c].name # "default"
    BY <2>1 DEF HeldBy
  <2>. QED BY <2>1, <2>2, DefinitionKeeps DEF Managed
<1>4. CASE Configure(c)
  <2>. DEFINE next == IF commands[c].op = "create" THEN "off" ELSE "act"
  <2>1. commands[c].at = "configure" /\ WritesSettings(c, d, commands[c].config, next)
    BY <1>4 DEF Configure
  <2>. QED BY <1>0, <2>1, SettingsKeep DEF Managed
<1>5. CASE SaveConfig(c)
  <2>. DEFINE next == IF commands[c].op = "agent" THEN "act" ELSE "off"
  <2>1. commands[c].at = "save" /\ WritesSettings(c, d, commands[c].config, next)
    BY <1>5 DEF SaveConfig
  <2>. QED BY <1>0, <2>1, SettingsKeep DEF Managed
<1>. QED BY <1>1, <1>2, <1>3, <1>4, <1>5

LEMMA DirsKeep ==
    ASSUME WorkspacesInv, NEW c \in Commands, ResolveDefault(c) \/ MakeDirs(c)
    PROVE  WorkspacesInv'
<1>. /\ WorkspacesTypeOK /\ commands[c] \in CommandRec /\ commands[c].def \in Definition
     /\ failures = 0 => OwnDefinitions /\ StandsFor(c)
  BY DEF WorkspacesInv, WorkspacesTypeOK, CommandRec
<1>1. CASE MakeDirs(c)
  <2>1. /\ dirs' = dirs \cup {DataDirOf(commands[c].def)} /\ Goes(c, "configure")
        /\ commands[c].at = "makeDirs" /\ UNCHANGED <<definitions, settings, starts, failures>>
    BY <1>1 DEF MakeDirs
  <2>2. "configure" \in CommandPlaces
    BY DEF CommandPlaces
  <2>3. /\ commands' \in [Commands -> CommandRec] /\ commands'[c].at = "configure"
        /\ \A e \in Commands \ {c} : commands'[e] = commands[e]
    BY <2>1, <2>2, ItGoes
  <2>4. DiskTypeOK' /\ starts' \in 0 .. MaxStarts
    BY <2>1, WsConstants DEF WorkspacesTypeOK, DiskTypeOK
  <2>5. failures = 0 => OwnDefinitions' /\ HeldBy(c)' /\ StandsFor(c)'
    BY <2>1, <2>3 DEF OwnDefinitions, HeldBy, StandsFor
  <2>. QED BY <2>1, <2>3, <2>4, <2>5, OthersStand
<1>2. CASE ResolveDefault(c) /\ definitions["default"] = {}
  <2>1. "off" \in CommandPlaces
    BY DEF CommandPlaces
  <2>. QED BY <1>2, <2>1, ItGoes, GoesOn DEF ResolveDefault
<1>3. CASE ResolveDefault(c) /\ definitions["default"] # {}
  <2>. DEFINE def == ContentOf(definitions["default"])
              d == DataDirOf(def)
              next == IF settings[d] = {} THEN "configureDefault" ELSE "ready"
  <2>1. def \in Definition /\ d \in Dirs /\ LoadedConfig(def) \in Settings
        /\ def \in definitions["default"]
    BY <1>3, LoadedType, WsConstants
  <2>2. /\ dirs' = dirs \cup {d} /\ Holds(c, next, def, LoadedConfig(def))
        /\ UNCHANGED <<definitions, settings, starts, failures>>
    BY <1>3 DEF ResolveDefault
  <2>3. next \in {"configureDefault", "ready"} /\ next \in CommandPlaces
        /\ (next = "ready" => settings[d] # {})
    BY DEF CommandPlaces
  <2>4. failures = 0 => def = DefaultDefinition /\ d = "default"
    BY <2>1, WsConstants, DefaultOnly DEF OwnDefinitions
  <2>5. /\ commands' \in [Commands -> CommandRec]
        /\ commands'[c].at = next /\ commands'[c].def = def
        /\ \A e \in Commands \ {c} : commands'[e] = commands[e]
    <3>. HIDE DEF next, def
    <3>. QED BY <2>1, <2>2, <2>3, ItHolds
  <2>6. DiskTypeOK' /\ starts' \in 0 .. MaxStarts
    BY <2>1, <2>2 DEF WorkspacesTypeOK, DiskTypeOK
  <2>7. failures = 0 => OwnDefinitions' /\ HeldBy(c)' /\ StandsFor(c)'
    <3>. HIDE DEF next, def, d
    <3>1. failures = 0 => OwnDefinitions' /\ "default" \in dirs'
      BY <2>2, <2>4 DEF OwnDefinitions
    <3>2. failures = 0 => HeldBy(c)'
      BY <2>3, <2>4, <2>5 DEF HeldBy
    <3>3. failures = 0 => StandsFor(c)'
      BY <1>3, <2>2, <2>3, <2>4, <2>5, <3>1 DEF StandsFor
    <3>. QED BY <3>1, <3>2, <3>3
  <2>. QED BY <2>2, <2>5, <2>6, <2>7, OthersStand
<1>. QED BY <1>1, <1>2, <1>3

LEMMA DeletionKeeps ==
    ASSUME WorkspacesInv, NEW c \in Commands, RemoveDefinition(c) \/ RemoveData(c)
    PROVE  WorkspacesInv'
<1>. /\ WorkspacesTypeOK /\ commands[c] \in CommandRec /\ commands[c].def \in Definition
     /\ failures = 0 => OwnDefinitions /\ HeldBy(c) /\ StandsFor(c)
  BY DEF WorkspacesInv, WorkspacesTypeOK, CommandRec
<1>1. CASE RemoveDefinition(c)
  <2>. DEFINE n == commands[c].name
              next == IF definitions[n] = {} THEN "off" ELSE "removeData"
  <2>1. /\ commands[c].at = "removeDefinition" /\ Goes(c, next)
        /\ definitions' = [definitions EXCEPT ![n] = {}]
        /\ UNCHANGED <<dirs, settings, starts, failures>>
    BY <1>1 DEF RemoveDefinition
  <2>2. next \in {"off", "removeData"} /\ next \in CommandPlaces
    BY DEF CommandPlaces
  <2>3. /\ commands' \in [Commands -> CommandRec] /\ commands'[c].at = next
        /\ commands'[c].name = n /\ commands'[c].def = commands[c].def
        /\ \A e \in Commands \ {c} : commands'[e] = commands[e]
    <3>. HIDE DEF next
    <3>. QED BY <2>1, <2>2, ItGoes
  <2>4. /\ definitions' \in [Names -> SUBSET Definition]
        /\ \A x \in Names : definitions'[x] = definitions[x] \/ definitions'[x] = {}
        /\ n # "default" => definitions'["default"] = definitions["default"]
    BY <2>1, WsConstants DEF WorkspacesTypeOK
  <2>5. DiskTypeOK' /\ starts' \in 0 .. MaxStarts
    BY <2>1, <2>4 DEF WorkspacesTypeOK, DiskTypeOK
  <2>6. failures = 0 => n # "default" /\ commands[c].def.name = n
    BY <2>1 DEF HeldBy
  <2>7. failures = 0 => OwnDefinitions'
    BY <2>4 DEF OwnDefinitions
  <2>8. failures = 0 => HeldBy(c)' /\ StandsFor(c)'
    <3>. HIDE DEF next
    <3>1. failures = 0 => HeldBy(c)'
      BY <2>2, <2>3, <2>6 DEF HeldBy
    <3>2. failures = 0 => StandsFor(c)'
      BY <2>1, <2>2, <2>3, <2>4, <2>6 DEF StandsFor
    <3>. QED BY <3>1, <3>2
  <2>. QED BY <2>1, <2>3, <2>4, <2>5, <2>6, <2>7, <2>8, OthersStand
<1>2. CASE RemoveData(c)
  <2>. DEFINE gone == Within(DataDirOf(commands[c].def))
  <2>1. /\ commands[c].at = "removeData" /\ Goes(c, "off")
        /\ dirs' = dirs \ gone
        /\ settings' = [d \in Dirs |-> IF d \in gone THEN {} ELSE settings[d]]
        /\ UNCHANGED <<definitions, starts, failures>>
    BY <1>2 DEF RemoveData
  <2>2. "off" \in CommandPlaces
    BY DEF CommandPlaces
  <2>3. /\ commands' \in [Commands -> CommandRec] /\ commands'[c].at = "off"
        /\ \A e \in Commands \ {c} : commands'[e] = commands[e]
    BY <2>1, <2>2, ItGoes
  <2>4. DiskTypeOK' /\ starts' \in 0 .. MaxStarts
    <3>. HIDE DEF gone
    <3>1. settings' \in [Dirs -> SUBSET Settings]
      BY <2>1 DEF WorkspacesTypeOK
    <3>. QED BY <2>1, <3>1 DEF WorkspacesTypeOK, DiskTypeOK
  <2>5. failures = 0 => "default" \notin gone
    <3>1. failures = 0 => commands[c].def.name # "default" /\ commands[c].def.name # ""
      BY <2>1, WorkspacesAssumption DEF HeldBy, CommandRec
    <3>2. commands[c].def.path \in CustomPaths \cup {""}
      BY DEF Definition
    <3>3. failures = 0 => DataDirOf(commands[c].def) \notin {"default", ""}
      BY <3>1, <3>2, WsConstants DEF DataDirOf
    <3>. QED BY <3>3 DEF Within
  <2>6. failures = 0 => ("default" \in dirs => "default" \in dirs')
                        /\ settings'["default"] = settings["default"]
    <3>. HIDE DEF gone
    <3>. QED BY <2>1, <2>5, WsConstants
  <2>7. failures = 0 => OwnDefinitions'
    BY <2>1 DEF OwnDefinitions
  <2>8. HeldBy(c)' /\ StandsFor(c)'
    BY <2>3 DEF HeldBy, StandsFor
  <2>. QED BY <2>1, <2>3, <2>4, <2>6, <2>7, <2>8, OthersStand
<1>. QED BY <1>1, <1>2

(* After a failed write only the types are left. *)
LEMMA FailureKeeps ==
    ASSUME WorkspacesInv, NEW c \in Commands, WriteFails(c)
    PROVE  WorkspacesInv'
<1>. WorkspacesTypeOK
  BY DEF WorkspacesInv
<1>1. failures' \in 0 .. MaxFailures /\ failures' # 0
  <2>1. failures \in 0 .. MaxFailures /\ failures < MaxFailures /\ failures' = failures + 1
    BY DEF WriteFails, WorkspacesTypeOK
  <2>. QED BY <2>1, WsBounds
<1>2. commands' \in [Commands -> CommandRec]
  <2>1. "off" \in CommandPlaces /\ Goes(c, "off")
    BY DEF CommandPlaces, WriteFails
  <2>. QED BY <2>1, ItGoes
<1>3. definitions' \in [Names -> SUBSET Definition]
  <2>1. definitions \in [Names -> SUBSET Definition]
    BY DEF WorkspacesTypeOK
  <2>2. \/ UNCHANGED definitions
        \/ \E n : definitions' = [definitions EXCEPT ![n] = {Blank}]
    BY DEF WriteFails
  <2>. QED BY <2>1, <2>2, WsConstants
<1>4. settings' \in [Dirs -> SUBSET Settings]
  <2>1. settings \in [Dirs -> SUBSET Settings]
    BY DEF WorkspacesTypeOK
  <2>2. \/ UNCHANGED settings
        \/ \E d : settings' = [settings EXCEPT ![d] = {Zero}]
    BY DEF WriteFails
  <2>. QED BY <2>1, <2>2, WsConstants
<1>5. UNCHANGED <<dirs, starts>>
  BY DEF WriteFails
<1>6. WorkspacesTypeOK'
  BY <1>1, <1>2, <1>3, <1>4, <1>5 DEF WorkspacesTypeOK, CommandRec
<1>. QED BY <1>1, <1>6 DEF WorkspacesInv

LEMMA WorkspacesStepInv == WorkspacesInv /\ [WorkspacesNext]_workspaceVars => WorkspacesInv'
<1>. SUFFICES ASSUME WorkspacesInv, [WorkspacesNext]_workspaceVars PROVE WorkspacesInv'
  OBVIOUS
<1>1. CASE UNCHANGED workspaceVars
  <2>1. WorkspacesTypeOK'
    BY <1>1 DEF WorkspacesInv, WorkspacesTypeOK, workspaceVars
  <2>2. failures' = 0 => OwnDefinitions' /\ \A c \in Commands : HeldBy(c)' /\ StandsFor(c)'
    BY <1>1 DEF WorkspacesInv, OwnDefinitions, HeldBy, StandsFor, workspaceVars
  <2>. QED BY <2>1, <2>2 DEF WorkspacesInv
<1>2. ASSUME NEW c \in Commands, CommandStep(c) PROVE WorkspacesInv'
  BY <1>2, TalkKeeps, WriteKeeps, DirsKeep, DeletionKeeps DEF CommandStep
<1>. QED BY <1>1, <1>2, CommandStarts, TalkKeeps, FailureKeeps DEF WorkspacesNext

(* No command holds or leaves behind what would spoil the default workspace. *)
THEOREM WorkspacesInvariant == WorkspacesSpec => []WorkspacesInv
BY WorkspacesInitInv, WorkspacesStepInv, PTL DEF WorkspacesSpec

(* Whatever commands run at the same time, in any number, and wherever     *)
(* they are interrupted: as long as no write fails, a command that has its *)
(* manager finds the default workspace as it must be. *)
THEOREM DefaultAlwaysResolves == WorkspacesSpec => []FallbackResolves
<1>1. WorkspacesInv => FallbackResolves
  <2>. SUFFICES ASSUME WorkspacesInv, failures = 0, NEW c \in Commands,
                       commands[c].at \notin {"off", "manager", "defineDefault",
                                              "resolveDefault", "configureDefault"}
                PROVE  /\ definitions["default"] = {DefaultDefinition}
                       /\ "default" \in dirs /\ settings["default"] # {}
    BY DEF FallbackResolves, DefaultDefinition
  <2>1. definitions["default"] # {} /\ "default" \in dirs /\ settings["default"] # {}
    BY DEF WorkspacesInv, StandsFor
  <2>2. \A def \in definitions["default"] :
           def \in Definition /\ def.name = "default" /\ def.path = ""
    BY WsConstants DEF WorkspacesInv, OwnDefinitions, WorkspacesTypeOK
  <2>3. \A def \in definitions["default"] : def = DefaultDefinition
    BY <2>2, DefaultOnly
  <2>. QED BY <2>1, <2>3
<1>. QED BY <1>1, WorkspacesInvariant, PTL

-----------------------------------------------------------------------------
(***************************************************************************)
(* The channels of config.yaml, for any number of setups at the same time. *)
(*                                                                         *)
(* Every setup that was told its channel is saved finds its entry in the   *)
(* file (PromisesKept), as names stay distinct there and a setup replaces  *)
(* only the entry of its own name; and the gateway, which reads the file   *)
(* when it starts, serves what had been promised by then.                  *)
(***************************************************************************)

SetupRec == [at : SetupPlaces, name : ChannelNames, qr : BOOLEAN, domain : Domains,
             polls : 0 .. MaxPolls, tenant : Domains \cup {"none", "denied"}, read : Files]

(* From the scan to the write, a registered app has the domain of its tenant. *)
SetupFits(r) ==
    /\ Distinct(r.read.channels)
    /\ r.at = "enter" => ~r.qr
    /\ r.at \in {"stat", "create", "read", "write"} /\ r.qr => r.tenant = r.domain

Listed(channels) == {channels[i] : i \in DOMAIN channels}

PromisesKept ==
    \A p \in promised : p.app \in Setups /\ p \in Listed(file.channels)

SetupInv ==
    /\ SetupTypeOK
    /\ Distinct(file.channels)
    /\ \A s \in Setups : SetupFits(setup[s])
    /\ PromisesKept
    /\ SavedChannelsServed

LEMMA EmptyFiles ==
    /\ <<>> \in Seq(Entry) /\ Distinct(<<>>)
    /\ NoFile \in Files /\ EmptyFile \in Files
    /\ NoFile.channels = <<>> /\ EmptyFile.channels = <<>>
    /\ \A kind \in FileKinds, channels \in Seq(Entry), other \in BOOLEAN :
          /\ File(kind, channels, other) \in Files
          /\ File(kind, channels, other).channels = channels
<1>1. <<>> \in Seq(Entry) /\ DOMAIN <<>> = {}
  OBVIOUS
<1>2. Distinct(<<>>)
  BY <1>1 DEF Distinct
<1>3. \A kind \in FileKinds, channels \in Seq(Entry), other \in BOOLEAN :
         /\ File(kind, channels, other) \in Files
         /\ File(kind, channels, other).channels = channels
  BY DEF File, Files
<1>4. "none" \in FileKinds /\ "empty" \in FileKinds
  BY DEF FileKinds
<1>. QED BY <1>1, <1>2, <1>3, <1>4 DEF NoFile, EmptyFile

LEMMA NewSetups ==
    /\ NewSetup \in SetupRec /\ SetupFits(NewSetup)
    /\ Ended \in SetupRec /\ SetupFits(Ended)
<1>1. (CHOOSE n \in ChannelNames : TRUE) \in ChannelNames
  BY SetupAssumption
<1>2. NewSetup \in SetupRec
  BY <1>1, EmptyFiles, SetupAssumption DEF NewSetup, SetupRec, SetupPlaces, Domains
<1>3. NewSetup.read = NoFile /\ NewSetup.at = "new"
  BY DEF NewSetup
<1>4. Ended \in SetupRec /\ Ended.read = NoFile /\ Ended.at = "off"
  BY <1>2, <1>3 DEF Ended, SetupRec, SetupPlaces
<1>. QED BY <1>2, <1>3, <1>4, EmptyFiles DEF SetupFits

LEMMA SetupInitInv == SetupInit => SetupInv
<1>. SUFFICES ASSUME SetupInit PROVE SetupInv
  OBVIOUS
<1>1. file \in Files /\ Distinct(file.channels)
  <2>1. CASE file \in {NoFile, EmptyFile, File("comments", <<>>, FALSE), File("broken", <<>>, TRUE)}
    BY <2>1, EmptyFiles DEF FileKinds
  <2>2. CASE \E channels \in HandWritten : file = File("yaml", channels, TRUE)
    <3>1. PICK channels \in HandWritten : file = File("yaml", channels, TRUE)
      BY <2>2
    <3>2. channels \in Seq(Entry) /\ Distinct(channels) /\ "yaml" \in FileKinds
      BY SetupAssumption DEF FileKinds
    <3>. QED BY <3>1, <3>2, EmptyFiles
  <2>. QED BY <2>1, <2>2 DEF SetupInit
<1>2. setup \in [Setups -> SetupRec] /\ \A s \in Setups : SetupFits(setup[s])
  BY NewSetups DEF SetupInit
<1>3. gateway \in [at : {"off", "running", "failed"}, served : SUBSET Entry, promised : SUBSET Entry]
      /\ gateway.at = "off"
  BY DEF SetupInit, NoGateway
<1>4. promised = {}
  BY DEF SetupInit
<1>. QED BY <1>1, <1>2, <1>3, <1>4 DEF SetupInv, SetupTypeOK, SetupRec, PromisesKept, SavedChannelsServed

(* A step of one setup that leaves the files alone. *)
LEMMA SetupMoves ==
    ASSUME SetupInv, NEW s \in Setups, NEW new \in SetupRec, SetupFits(new),
           setup' = [setup EXCEPT ![s] = new], KeepsFile
    PROVE  SetupInv'
<1>1. setup' \in [Setups -> SetupRec]
  BY DEF SetupInv, SetupTypeOK, SetupRec
<1>2. \A t \in Setups : SetupFits(setup'[t])
  BY DEF SetupInv, SetupTypeOK, SetupRec
<1>3. SetupTypeOK'
  BY <1>1 DEF SetupInv, SetupTypeOK, SetupRec, KeepsFile
<1>4. \A t \in Setups : SetupFits(setup[t])'
  BY <1>2 DEF SetupFits
<1>5. PromisesKept' /\ Distinct(file.channels)' /\ SavedChannelsServed'
  BY DEF SetupInv, PromisesKept, SavedChannelsServed, KeepsFile
<1>. QED BY <1>3, <1>4, <1>5 DEF SetupInv

LEMMA WithChannelKeeps ==
    ASSUME NEW channels \in Seq(Entry), Distinct(channels), NEW new \in Entry, new.type = "feishu"
    PROVE  /\ WithChannel(channels, new) \in Seq(Entry) /\ Distinct(WithChannel(channels, new))
           /\ new \in Listed(WithChannel(channels, new))
           /\ \A e \in Listed(channels) : e.name # new.name => e \in Listed(WithChannel(channels, new))
<1>. DEFINE same == {i \in DOMAIN channels :
                        channels[i].name = new.name /\ channels[i].type = "feishu"}
            least == CHOOSE i \in same : \A j \in same : i <= j
            result == WithChannel(channels, new)
<1>1. DOMAIN channels = 1 .. Len(channels) /\ Len(channels) \in Nat
      /\ \A i \in DOMAIN channels : channels[i] \in Entry
  OBVIOUS
<1>2. CASE same = {}
  <2>1. result = Append(channels, new)
    BY <1>2 DEF WithChannel
  <2>2. /\ result \in Seq(Entry) /\ DOMAIN result = 1 .. Len(channels) + 1
        /\ \A i \in DOMAIN channels : i \in DOMAIN result /\ result[i] = channels[i]
        /\ result[Len(channels) + 1] = new
        /\ \A i \in DOMAIN result : i \in DOMAIN channels \/ i = Len(channels) + 1
        /\ Len(channels) + 1 \in DOMAIN result
    BY <1>1, <2>1
  <2>3. \A i \in DOMAIN channels : channels[i].name # new.name \/ channels[i].type # new.type
    BY <1>2
  <2>. HIDE DEF result
  <2>4. Distinct(result)
    BY <2>2, <2>3 DEF Distinct
  <2>. QED BY <2>2, <2>4 DEF Listed, result
<1>3. CASE same # {}
  <2>1. \A i, j \in same : i = j
    BY DEF Distinct
  <2>2. \A i, j \in same : i <= j
    BY <1>1, <2>1
  <2>3. least \in same
    BY <1>3, <2>2
  <2>4. result = [channels EXCEPT ![least] = new]
    BY <1>3 DEF WithChannel
  <2>. HIDE DEF least, same, result
  <2>5. least \in DOMAIN channels /\ channels[least].name = new.name /\ channels[least].type = new.type
    BY <2>3 DEF same
  <2>6. /\ result \in Seq(Entry) /\ DOMAIN result = DOMAIN channels
        /\ result[least] = new
        /\ \A i \in DOMAIN channels : i # least => result[i] = channels[i]
    BY <1>1, <2>4, <2>5
  <2>7. \A i \in DOMAIN channels :
           result[i].name = channels[i].name /\ result[i].type = channels[i].type
    BY <2>5, <2>6
  <2>8. Distinct(result)
    BY <2>6, <2>7 DEF Distinct
  <2>. QED BY <2>5, <2>6, <2>8 DEF Listed, result
<1>. QED BY <1>2, <1>3

LEMMA RegistrationKeeps ==
    ASSUME SetupInv, NEW s \in Setups,
           \/ StartSetup(s) \/ BuildQRPayload(s) \/ Scan(s) \/ PollSucceeds(s) \/ PollWaits(s)
           \/ PollGivesUp(s) \/ EnterManually(s) \/ StatConfig(s) \/ ReadConfig(s) \/ CancelSetup(s)
    PROVE  SetupInv'
<1>. /\ setup \in [Setups -> SetupRec] /\ setup[s] \in SetupRec /\ SetupFits(setup[s])
     /\ file \in Files /\ Distinct(file.channels)
  BY DEF SetupInv, SetupTypeOK, SetupRec
<1>0. 0 \in 0 .. MaxPolls
  <2>1. MaxPolls \in Nat
    BY SetupAssumption
  <2>. QED BY <2>1
<1>2. CASE setup' = [setup EXCEPT ![s] = Ended] /\ KeepsFile
  BY <1>2, SetupMoves, NewSetups
<1>3. CASE StartSetup(s)
  <2>1. PICK n \in ChannelNames, d \in Domains, place \in {"build", "enter"} :
           setup' = [setup EXCEPT ![s] =
              [NewSetup EXCEPT !.at = place, !.name = n, !.domain = d, !.qr = (place = "build")]]
    BY <1>3 DEF StartSetup
  <2>. DEFINE new == [NewSetup EXCEPT !.at = place, !.name = n, !.domain = d, !.qr = (place = "build")]
  <2>2. new \in SetupRec
    BY NewSetups DEF SetupRec, SetupPlaces
  <2>3. new.at = place /\ new.qr = (place = "build") /\ new.read = NewSetup.read
    BY NewSetups DEF SetupRec
  <2>4. SetupFits(new)
    <3>. HIDE DEF new
    <3>. QED BY <2>3, NewSetups DEF SetupFits
  <2>. QED BY <1>3, <2>1, <2>2, <2>4, SetupMoves DEF StartSetup
<1>4. CASE BuildQRPayload(s)
  <2>1. CASE \E n \in 0 .. MaxPolls : setup' = [setup EXCEPT ![s].at = "poll", ![s].polls = n]
    <3>1. PICK n \in 0 .. MaxPolls : setup' = [setup EXCEPT ![s].at = "poll", ![s].polls = n]
      BY <2>1
    <3>. DEFINE new == [setup[s] EXCEPT !.at = "poll", !.polls = n]
    <3>2. new \in SetupRec /\ new.at = "poll" /\ new.read = setup[s].read
      BY DEF SetupRec, SetupPlaces
    <3>3. setup' = [setup EXCEPT ![s] = new]
      BY <3>1
    <3>4. SetupFits(new)
      BY <3>2 DEF SetupFits
    <3>. QED BY <1>4, <3>2, <3>3, <3>4, SetupMoves DEF BuildQRPayload
  <2>2. CASE setup' = [setup EXCEPT ![s].at = "enter", ![s].qr = FALSE]
    <3>. DEFINE new == [setup[s] EXCEPT !.at = "enter", !.qr = FALSE]
    <3>2. new \in SetupRec /\ new.at = "enter" /\ ~new.qr /\ new.read = setup[s].read
      BY DEF SetupRec, SetupPlaces
    <3>3. setup' = [setup EXCEPT ![s] = new]
      BY <2>2
    <3>4. SetupFits(new)
      BY <3>2 DEF SetupFits
    <3>. QED BY <1>4, <3>2, <3>3, <3>4, SetupMoves DEF BuildQRPayload
  <2>. QED BY <1>4, <2>1, <2>2 DEF BuildQRPayload
<1>5. CASE Scan(s)
  <2>1. PICK t \in Domains \cup {"denied"} : setup' = [setup EXCEPT ![s].tenant = t]
    BY <1>5 DEF Scan
  <2>. DEFINE new == [setup[s] EXCEPT !.tenant = t]
  <2>2. new \in SetupRec /\ new.at = "poll" /\ new.read = setup[s].read
    BY <1>5 DEF SetupRec, Scan
  <2>3. setup' = [setup EXCEPT ![s] = new]
    BY <2>1
  <2>4. SetupFits(new)
    <3>. HIDE DEF new
    <3>. QED BY <2>2 DEF SetupFits
  <2>. QED BY <1>5, <2>2, <2>3, <2>4, SetupMoves DEF Scan
<1>6. CASE PollSucceeds(s)
  <2>. DEFINE new == [setup[s] EXCEPT !.at = "stat", !.polls = 0]
  <2>2. new \in SetupRec /\ new.read = setup[s].read /\ new.at = "stat"
        /\ new.tenant = setup[s].tenant /\ new.domain = setup[s].domain
    BY <1>0 DEF SetupRec, SetupPlaces
  <2>3. setup' = [setup EXCEPT ![s] = new] /\ setup[s].tenant = setup[s].domain
    BY <1>6 DEF PollSucceeds
  <2>4. SetupFits(new)
    BY <2>2, <2>3 DEF SetupFits
  <2>. QED BY <1>6, <2>2, <2>3, <2>4, SetupMoves DEF PollSucceeds
<1>7. CASE PollWaits(s)
  <2>1. PICK n \in 0 .. setup[s].polls - 1, d \in {setup[s].domain, setup[s].tenant} :
           /\ d \in {setup[s].domain, "lark"}
           /\ setup' = [setup EXCEPT ![s].polls = n, ![s].domain = d]
    BY <1>7 DEF PollWaits
  <2>. DEFINE new == [setup[s] EXCEPT !.polls = n, !.domain = d]
  <2>2. n \in 0 .. MaxPolls /\ d \in Domains
    <3>1. setup[s].polls \in 0 .. MaxPolls /\ setup[s].domain \in Domains
      BY DEF SetupRec
    <3>2. n \in 0 .. MaxPolls
      BY <3>1, SetupAssumption
    <3>. QED BY <2>1, <3>1, <3>2 DEF Domains
  <2>3. new \in SetupRec /\ new.at = "poll" /\ new.read = setup[s].read
    BY <1>7, <2>2 DEF SetupRec, PollWaits
  <2>4. setup' = [setup EXCEPT ![s] = new]
    BY <2>1
  <2>5. SetupFits(new)
    <3>. HIDE DEF new
    <3>. QED BY <2>3 DEF SetupFits
  <2>. QED BY <1>7, <2>3, <2>4, <2>5, SetupMoves DEF PollWaits
<1>8. CASE PollGivesUp(s)
  <2>. DEFINE new == [setup[s] EXCEPT !.at = "enter", !.qr = FALSE, !.polls = 0, !.tenant = "none"]
  <2>2. new \in SetupRec /\ new.at = "enter" /\ ~new.qr /\ new.read = setup[s].read
    BY <1>0 DEF SetupRec, SetupPlaces
  <2>3. setup' = [setup EXCEPT ![s] = new]
    BY <1>8 DEF PollGivesUp
  <2>4. SetupFits(new)
    BY <2>2 DEF SetupFits
  <2>. QED BY <1>8, <2>2, <2>3, <2>4, SetupMoves DEF PollGivesUp
<1>9. CASE EnterManually(s) \/ StatConfig(s)
  <2>1. CASE \E to \in {"stat", "create", "read"} :
                /\ setup[s].at = "enter" \/ setup[s].at = "stat"
                /\ setup' = [setup EXCEPT ![s].at = to] /\ KeepsFile
    <3>1. PICK to \in {"stat", "create", "read"} : setup' = [setup EXCEPT ![s].at = to]
      BY <2>1
    <3>. DEFINE new == [setup[s] EXCEPT !.at = to]
    <3>2. /\ new \in SetupRec /\ new.at = to /\ new.qr = setup[s].qr /\ new.read = setup[s].read
          /\ new.tenant = setup[s].tenant /\ new.domain = setup[s].domain
      BY DEF SetupRec, SetupPlaces
    <3>3. setup' = [setup EXCEPT ![s] = new]
      BY <3>1
    <3>4. SetupFits(new)
      BY <2>1, <3>2 DEF SetupFits
    <3>. QED BY <2>1, <3>2, <3>3, <3>4, SetupMoves
  <2>. QED BY <1>2, <1>9, <2>1 DEF EnterManually, StatConfig, Moves, Ends
<1>10. CASE ReadConfig(s)
  <2>1. CASE file.kind = "comments"
    BY <1>2, <1>10, <2>1 DEF ReadConfig
  <2>2. CASE file.kind # "comments"
    <3>. DEFINE new == [setup[s] EXCEPT !.at = "write", !.read = file]
    <3>1. /\ new \in SetupRec /\ new.at = "write" /\ new.qr = setup[s].qr /\ new.read = file
          /\ new.tenant = setup[s].tenant /\ new.domain = setup[s].domain
      BY DEF SetupRec, SetupPlaces
    <3>2. setup' = [setup EXCEPT ![s] = new] /\ setup[s].at = "read"
      BY <1>10, <2>2 DEF ReadConfig
    <3>3. SetupFits(new)
      BY <3>1, <3>2 DEF SetupFits
    <3>. QED BY <1>10, <3>1, <3>2, <3>3, SetupMoves DEF ReadConfig
  <2>. QED BY <2>1, <2>2
<1>11. CASE CancelSetup(s)
  BY <1>2, <1>11 DEF CancelSetup
<1>. QED BY <1>3, <1>4, <1>5, <1>6, <1>7, <1>8, <1>9, <1>10, <1>11

(* A step that writes the file. *)
LEMMA FileWritten ==
    ASSUME SetupInv, NEW s \in Setups, NEW new \in SetupRec, SetupFits(new),
           setup' = [setup EXCEPT ![s] = new] \/ UNCHANGED setup,
           file' \in Files, Distinct(file'.channels), promised' \subseteq Entry,
           PromisesKept', UNCHANGED gateway
    PROVE  SetupInv'
<1>1. setup' \in [Setups -> SetupRec] /\ \A t \in Setups : SetupFits(setup'[t])
  BY DEF SetupInv, SetupTypeOK, SetupRec
<1>2. SetupTypeOK'
  BY <1>1 DEF SetupInv, SetupTypeOK, SetupRec
<1>3. \A t \in Setups : SetupFits(setup[t])'
  BY <1>1 DEF SetupFits
<1>4. SavedChannelsServed'
  BY DEF SetupInv, SavedChannelsServed
<1>5. Distinct(file.channels)'
  BY DEF Distinct
<1>. QED BY <1>2, <1>3, <1>4, <1>5 DEF SetupInv

LEMMA FileKeeps ==
    ASSUME SetupInv, NEW s \in Setups, CreateConfig(s) \/ SaveFails(s)
    PROVE  SetupInv'
<1>. setup \in [Setups -> SetupRec] /\ setup[s] \in SetupRec /\ SetupFits(setup[s])
  BY DEF SetupInv, SetupTypeOK, SetupRec
<1>1. file' = EmptyFile /\ promised' = {} /\ UNCHANGED gateway
  BY DEF CreateConfig, SaveFails
<1>2. file' \in Files /\ Distinct(file'.channels) /\ promised' \subseteq Entry /\ PromisesKept'
  BY <1>1, EmptyFiles DEF PromisesKept
<1>3. CASE SaveFails(s)
  BY <1>1, <1>2, <1>3, FileWritten, NewSetups DEF SaveFails, Ends
<1>4. CASE CreateConfig(s)
  <2>. DEFINE new == [setup[s] EXCEPT !.at = "read"]
  <2>1. /\ new \in SetupRec /\ new.at = "read" /\ new.qr = setup[s].qr /\ new.read = setup[s].read
        /\ new.tenant = setup[s].tenant /\ new.domain = setup[s].domain
    BY DEF SetupRec, SetupPlaces
  <2>2. setup' = [setup EXCEPT ![s] = new] /\ setup[s].at = "create"
    BY <1>4 DEF CreateConfig, Moves
  <2>3. SetupFits(new)
    BY <2>1, <2>2 DEF SetupFits
  <2>. QED BY <1>1, <1>2, <2>1, <2>2, <2>3, FileWritten
<1>. QED BY <1>3, <1>4

LEMMA WriteConfigKeeps ==
    ASSUME SetupInv, NEW s \in Setups, WriteConfig(s)
    PROVE  SetupInv'
<1>. /\ setup \in [Setups -> SetupRec] /\ setup[s] \in SetupRec /\ SetupFits(setup[s])
     /\ file \in Files /\ promised \subseteq Entry /\ PromisesKept
  BY DEF SetupInv, SetupTypeOK, SetupRec
<1>. DEFINE old == setup[s].read
            domain == IF setup[s].qr THEN setup[s].tenant ELSE setup[s].domain
            actual == NewChannel(s, domain)
            other == old.kind = "yaml" /\ old.other
            channels == WithChannel(old.channels, actual)
<1>1. domain = setup[s].domain /\ domain \in Domains
  BY DEF WriteConfig, Ends, SetupFits, SetupRec
<1>2. /\ setup' = [setup EXCEPT ![s] = Ended] /\ UNCHANGED gateway
      /\ file' = File("yaml", channels, other)
      /\ promised' = {actual} \cup (IF old = file THEN {p \in promised : p.name # actual.name} ELSE {})
  BY <1>1 DEF WriteConfig, Ends
<1>3. actual \in Entry /\ actual.type = "feishu" /\ actual.app = s /\ actual.name = setup[s].name
  <2>. HIDE DEF domain
  <2>. QED BY <1>1 DEF NewChannel, Entry, SetupRec
<1>4. old \in Files /\ old.channels \in Seq(Entry) /\ Distinct(old.channels) /\ other \in BOOLEAN
  BY DEF SetupFits, SetupRec, Files
<1>. HIDE DEF old, actual, other, domain
<1>5. /\ channels \in Seq(Entry) /\ Distinct(channels) /\ actual \in Listed(channels)
      /\ \A e \in Listed(old.channels) : e.name # actual.name => e \in Listed(channels)
  BY <1>3, <1>4, WithChannelKeeps
<1>. HIDE DEF channels
<1>6. file' \in Files /\ file'.channels = channels
  BY <1>2, <1>4, <1>5, EmptyFiles DEF FileKinds
<1>7. promised' \subseteq Entry
  BY <1>2, <1>3
<1>8. ASSUME NEW p \in promised' PROVE p.app \in Setups /\ p \in Listed(channels)
  <2>1. CASE p = actual
    BY <1>3, <1>5, <2>1
  <2>2. CASE old = file /\ p \in promised /\ p.name # actual.name
    BY <1>5, <2>2 DEF PromisesKept
  <2>. QED BY <1>2, <1>8, <2>1, <2>2
<1>9. PromisesKept'
  BY <1>6, <1>8 DEF PromisesKept, Listed
<1>. QED BY <1>2, <1>5, <1>6, <1>7, <1>9, FileWritten, NewSetups

LEMMA WizardKeeps ==
    ASSUME SetupInv, Wizard
    PROVE  SetupInv'
<1>1. file' = File("yaml", <<>>, TRUE) /\ promised' = {} /\ UNCHANGED <<setup, gateway>>
  BY DEF Wizard
<1>2. file' \in Files /\ Distinct(file.channels)'
  BY <1>1, EmptyFiles DEF FileKinds
<1>3. SetupTypeOK'
  BY <1>1, <1>2 DEF SetupInv, SetupTypeOK
<1>4. \A s \in Setups : SetupFits(setup[s])'
  BY <1>1 DEF SetupInv, SetupFits
<1>5. PromisesKept' /\ SavedChannelsServed'
  BY <1>1 DEF SetupInv, PromisesKept, SavedChannelsServed
<1>. QED BY <1>2, <1>3, <1>4, <1>5 DEF SetupInv

LEMMA GatewayKeeps ==
    ASSUME SetupInv, StartGateway \/ StopGateway
    PROVE  SetupInv'
<1>1. UNCHANGED <<file, setup, promised>>
  BY DEF StartGateway, StopGateway
<1>2. /\ Distinct(file.channels)' /\ PromisesKept'
      /\ \A s \in Setups : SetupFits(setup[s])'
  BY <1>1 DEF SetupInv, PromisesKept, SetupFits
<1>3. CASE StopGateway
  <2>1. gateway' = NoGateway
    BY <1>3 DEF StopGateway
  <2>2. SetupTypeOK' /\ SavedChannelsServed'
    BY <1>1, <2>1 DEF SetupInv, SetupTypeOK, NoGateway, SavedChannelsServed
  <2>. QED BY <1>2, <2>2 DEF SetupInv
<1>4. CASE StartGateway
  <2>. DEFINE place == IF IdTaken THEN "failed" ELSE "running"
              served == {file.channels[i] : i \in Created}
  <2>1. gateway' = [at |-> place, served |-> served, promised |-> promised]
    BY <1>4 DEF StartGateway
  <2>2. /\ file.channels \in Seq(Entry) /\ Distinct(file.channels) /\ promised \subseteq Entry
        /\ \A i \in DOMAIN file.channels : file.channels[i] \in Entry
    BY DEF SetupInv, SetupTypeOK, Files
  <2>3. served \subseteq Entry
    BY <2>2 DEF Created
  <2>4. SetupTypeOK'
    BY <1>1, <2>1, <2>2, <2>3 DEF SetupInv, SetupTypeOK
  <2>5. ASSUME NEW p \in promised, SanitizeId[p.name] # "" PROVE p \in served
    <3>1. p.app \in Setups /\ p \in Listed(file.channels)
      BY DEF SetupInv, PromisesKept
    <3>2. PICK i \in DOMAIN file.channels : file.channels[i] = p
      BY <3>1 DEF Listed
    <3>3. Creatable(p)
      BY <2>5, <3>1, SetupAssumption DEF Creatable, ChannelOf
    <3>. QED BY <3>2, <3>3 DEF Created
  <2>6. ASSUME IdTaken
        PROVE  \E e, f \in served : e.name # f.name /\ ChannelOf(e) = ChannelOf(f)
    <3>1. PICK i, j \in Created :
             i # j /\ ChannelOf(file.channels[i]) = ChannelOf(file.channels[j])
      BY <2>6 DEF IdTaken
    <3>2. file.channels[i].type = file.channels[j].type
      BY <3>1 DEF ChannelOf
    <3>3. file.channels[i].name # file.channels[j].name
      BY <2>2, <3>1, <3>2 DEF Distinct, Created
    <3>. QED BY <3>1, <3>3
  <2>7. SavedChannelsServed'
    <3>1. gateway'.at = place /\ gateway'.served = served /\ gateway'.promised = promised
      BY <2>1
    <3>2. gateway'.at = "running" => {p \in promised : SanitizeId[p.name] # ""} \subseteq served
      BY <2>5
    <3>3. gateway'.at = "failed" => IdTaken
      BY <3>1
    <3>. HIDE DEF place, served
    <3>. QED BY <2>6, <3>1, <3>2, <3>3 DEF SavedChannelsServed
  <2>. QED BY <1>2, <2>4, <2>7 DEF SetupInv
<1>. QED BY <1>3, <1>4

LEMMA SetupStepInv == SetupInv /\ [SetupNext]_setupVars => SetupInv'
<1>. SUFFICES ASSUME SetupInv, [SetupNext]_setupVars PROVE SetupInv'
  OBVIOUS
<1>1. CASE UNCHANGED setupVars
  <2>1. SetupTypeOK'
    BY <1>1 DEF SetupInv, SetupTypeOK, setupVars
  <2>2. \A s \in Setups : SetupFits(setup[s])'
    BY <1>1 DEF SetupInv, SetupFits, setupVars
  <2>3. PromisesKept' /\ SavedChannelsServed' /\ Distinct(file.channels)'
    BY <1>1 DEF SetupInv, PromisesKept, SavedChannelsServed, setupVars
  <2>. QED BY <2>1, <2>2, <2>3 DEF SetupInv
<1>2. ASSUME NEW s \in Setups, SetupStep(s) PROVE SetupInv'
  BY <1>2, RegistrationKeeps, FileKeeps, WriteConfigKeeps DEF SetupStep
<1>. QED BY <1>1, <1>2, WizardKeeps, GatewayKeeps DEF SetupNext

(* The entries of config.yaml, the setups under way and the promises agree. *)
THEOREM SetupInvariant == SetupSpec => []SetupInv
BY SetupInitInv, SetupStepInv, PTL DEF SetupSpec

(* Any number of setups that read and write config.yaml at the same time:  *)
(* a gateway serves every channel that was saved before and not undone.    *)
THEOREM SavedChannelsAreServed == SetupSpec => []SavedChannelsServed
<1>1. SetupInv => SavedChannelsServed
  BY DEF SetupInv
<1>. QED BY <1>1, SetupInvariant, PTL

-----------------------------------------------------------------------------
(* The installation as a whole *)

InstallationInv ==
    /\ SkillsInv /\ PathsInv /\ WorkspacesInv /\ SetupInv
    /\ ManagerInv /\ AdminInv /\ InboundInv

LEMMA InstallationInitInv == InstallationInit => InstallationInv
BY SkillsInitInv, PathsInit, WorkspacesInitInv, SetupInitInv,
   ManagerInitInv, AdminInitInv, InboundInitInv
DEF InstallationInit, InstallationInv

(* A step of one part is a stuttering step of the others. *)
LEMMA InstallationSteps ==
    ASSUME [InstallationNext]_installationVars
    PROVE  /\ [SkillsNext]_skillVars /\ [SandboxNext]_pathVars
           /\ [WorkspacesNext]_workspaceVars /\ [SetupNext]_setupVars
           /\ [GatewayNext]_gatewayVars
BY DEF InstallationNext, installationVars, SkillsPart, PathsPart, WorkspacesPart,
       SetupPart, ChannelsPart, MessagesPart

(* The variables of all five parts keep their types. *)
THEOREM InstallationTypes == InstallationSpec => []InstallationTypeOK
<1>1. InstallationInv /\ [InstallationNext]_installationVars => InstallationInv'
  <2>. SUFFICES ASSUME InstallationInv, [InstallationNext]_installationVars
                PROVE  InstallationInv'
    OBVIOUS
  <2>1. SkillsInv' /\ PathsInv' /\ WorkspacesInv' /\ SetupInv'
    BY InstallationSteps, SkillsStepInv, PathsStep, WorkspacesStepInv, SetupStepInv
    DEF InstallationInv
  <2>2. ManagerInv' /\ AdminInv' /\ InboundInv'
    BY InstallationSteps, ManagerStepInv, AdminStepInv, InboundStepInv DEF InstallationInv
  <2>. QED BY <2>1, <2>2 DEF InstallationInv
<1>2. InstallationInv => InstallationTypeOK
  <2>. SUFFICES ASSUME InstallationInv PROVE InstallationTypeOK
    OBVIOUS
  <2>1. GatewayTypeOK
    BY DEF InstallationInv, ManagerInv, AdminInv, AdminTypes, InboundInv, InboundTypes, GatewayTypeOK
  <2>. QED BY <2>1, SkillsTypes DEF InstallationInv, PathsInv, WorkspacesInv, SetupInv, InstallationTypeOK
<1>. QED BY <1>1, <1>2, InstallationInitInv, PTL DEF InstallationSpec
=============================================================================
