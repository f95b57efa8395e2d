-------------------------- MODULE MatrixGenerate ---------------------------
(***************************************************************************)
(* Matrix::generate (src/pow/heavy_hash.rs): a matrix is drawn, nibble by  *)
(* nibble, from the generator XoShiRo256PlusPlus (src/pow/xoshiro.rs), and *)
(* drawn again until its rank is full.  Everyone who checks a block draws  *)
(* the same matrix from the same hash.  (PowMatrix puts this and HeavyHash,*)
(* which uses the matrix, together.)                                       *)
(*                                                                         *)
(* A row is drawn in one step, and compute_rank eliminates one column in a *)
(* step.  Its f64 are modelled as fractions: rounding, and the EPS that    *)
(* makes up for it, are not modelled.                                      *)
(***************************************************************************)
EXTENDS Integers, FiniteSetsExt, Functions

CONSTANTS
  N,                \* rows and columns of the matrix; 64 in the code
  Nibble,           \* values of a nibble; 16 in the code
  NibbleBits,       \* its bits; 4 in the code
  WordBits,         \* bits of a word; 64 in the code
  NibblesPerWord,   \* 16 in the code
  RotateSum, RotateState, ShiftBy,  \* 23, 45 and 17 in the code
  Seeds             \* bound: the hashes the generator starts from

Indices == 0..N - 1

Words == 0..2^WordBits - 1

GenerateAssumption ==
  /\ N \in Nat \ {0} /\ NibbleBits \in Nat \ {0} /\ WordBits \in Nat \ {0}
  /\ Nibble = 2^NibbleBits /\ WordBits = NibblesPerWord * NibbleBits
  /\ NibblesPerWord \in Nat \ {0} /\ N % NibblesPerWord = 0
  /\ {RotateSum, RotateState, ShiftBy} \subseteq 1..WordBits - 1
  /\ Seeds \subseteq [0..3 -> Words]

VARIABLES
  generator,   \* s0 to s3 of the XoShiRo256PlusPlus
  phase,       \* "draw", "rank" or "done"
  matrix,      \* the matrix: the rows drawn so far
  i,           \* the row that is drawn, the column that is eliminated
  float,       \* the copy of the matrix that is eliminated
  selected,    \* row_selected
  rank

vars == <<generator, phase, matrix, i, float, selected, rank>>

Fraction(n) == [num |-> n, den |-> 1]

ZeroRow == [c \in Indices |-> 0]

Init ==
  /\ generator \in Seeds
  /\ phase = "draw"
  /\ matrix = [r \in Indices |-> ZeroRow]
  /\ i = 0
  /\ float = [r \in Indices |-> [c \in Indices |-> Fraction(0)]]
  /\ selected = {}
  /\ rank = 0

-----------------------------------------------------------------------------
(* XoShiRo256PlusPlus::u64, on words of WordBits bits.                     *)
Wrap(n) == n % 2^WordBits

(* Mutant of RotateLeft: a shift that does not bring the high bits back.   *)
ShiftLeft(word, n) == Wrap(word * 2^n)

RotateLeft(word, n) == Wrap(word * 2^n) + word \div 2^(WordBits - n)

Xor(a, b) ==
  LET bit == [k \in 0..WordBits - 1 |-> ((a \div 2^k) + (b \div 2^k)) % 2]
      sum[k \in 0..WordBits] == IF k = 0 THEN 0 ELSE sum[k - 1] + bit[k - 1] * 2^(k - 1)
  IN  sum[WordBits]

Output(g) == Wrap(g[0] + RotateLeft(Wrap(g[0] + g[3]), RotateSum))

Advance(g) ==
  LET t == Wrap(g[1] * 2^ShiftBy)
      s2 == Xor(g[2], g[0])
      s3 == Xor(g[3], g[1])
  IN  [n \in 0..3 |-> CASE n = 0 -> Xor(g[0], s3)
                        [] n = 1 -> Xor(g[1], s2)
                        [] n = 2 -> Xor(s2, t)
                        [] n = 3 -> RotateLeft(s3, RotateState)]

-----------------------------------------------------------------------------
(* The generator when its first n words have been drawn.                   *)
AdvancedBy(n) ==
  LET g[k \in 0..n] == IF k = 0 THEN generator ELSE Advance(g[k - 1])
  IN  g[n]

(* rand_matrix_no_rank_check: column c of a row is a nibble of word        *)
(* c \div NibblesPerWord, the lowest nibble first.                         *)
DrawnRow ==
  [c \in Indices |->
     (Output(AdvancedBy(c \div NibblesPerWord)) \div 2^(NibbleBits * (c % NibblesPerWord)))
       % Nibble]

DrawRow ==
  /\ phase = "draw" /\ i \in Indices
  /\ matrix' = [matrix EXCEPT ![i] = DrawnRow]
  /\ generator' = AdvancedBy(N \div NibblesPerWord)
  /\ i' = i + 1
  /\ UNCHANGED <<phase, float, selected, rank>>

(* compute_rank begins: convert_to_float.                                  *)
BeginRank ==
  /\ phase = "draw" /\ i \notin Indices
  /\ phase' = "rank"
  /\ i' = 0
  /\ float' = [r \in Indices |-> [c \in Indices |-> Fraction(matrix[r][c])]]
  /\ selected' = {}
  /\ rank' = 0
  /\ UNCHANGED <<generator, matrix>>

(* Arithmetic of fractions.                                                *)
IsZero(x) == x.num = 0

Magnitude(n) == IF n < 0 THEN -n ELSE n

Gcd[p \in Nat \X Nat] == IF p[2] = 0 THEN p[1] ELSE Gcd[<<p[2], p[1] % p[2]>>]

Reduced(num, den) ==
  LET d == Gcd[<<Magnitude(num), Magnitude(den)>>]
  IN  [num |-> num \div d, den |-> den \div d]

Divide(x, y) == Reduced(x.num * y.den, x.den * y.num)

MinusProduct(x, y, z) ==
  Reduced(x.num * y.den * z.den - y.num * z.num * x.den, x.den * y.den * z.den)

Pivots == {r \in Indices \ selected : ~IsZero(float[r][i])}

(* Row j is divided by its pivot right of column i, and then taken from    *)
(* every other row, selected rows included; column i itself is left as it  *)
(* is, and not looked at again.                                            *)
Normalized(j) ==
  [c \in Indices |-> IF c > i THEN Divide(float[j][c], float[j][i]) ELSE float[j][c]]

(* Mutant of Eliminated: the row is taken off as it is.                    *)
EliminatedOnce(r, j) ==
  IF r = j \/ IsZero(float[r][i]) THEN float[r]
  ELSE [c \in Indices |->
          IF c > i THEN MinusProduct(float[r][c], Normalized(j)[c], Fraction(1))
          ELSE float[r][c]]

Eliminated(r, j) ==
  IF r = j THEN Normalized(j)
  ELSE IF IsZero(float[r][i]) THEN float[r]
  ELSE [c \in Indices |->
          IF c > i THEN MinusProduct(float[r][c], Normalized(j)[c], float[r][i])
          ELSE float[r][c]]

EliminateColumn ==
  /\ phase = "rank" /\ i \in Indices
  /\ IF Pivots = {}
     THEN UNCHANGED <<float, selected, rank>>
     ELSE LET j == Min(Pivots)
          IN  /\ float' = [r \in Indices |-> Eliminated(r, j)]
              /\ selected' = selected \cup {j}
              /\ rank' = rank + 1
  /\ i' = i + 1
  /\ UNCHANGED <<generator, phase, matrix>>

(* Mutant of DrawAgain: the matrix is not replaced.                        *)
DrawTheSame ==
  /\ phase = "rank" /\ i \notin Indices /\ rank # N
  /\ phase' = "rank"
  /\ i' = 0
  /\ float' = [r \in Indices |-> [c \in Indices |-> Fraction(matrix[r][c])]]
  /\ selected' = {}
  /\ rank' = 0
  /\ UNCHANGED <<generator, matrix>>

(* The next matrix is drawn from where the generator is.                   *)
DrawAgain ==
  /\ phase = "rank" /\ i \notin Indices /\ rank # N
  /\ phase' = "draw"
  /\ i' = 0
  /\ matrix' = [r \in Indices |-> ZeroRow]
  /\ UNCHANGED <<generator, float, selected, rank>>

Accept ==
  /\ phase = "rank" /\ i \notin Indices /\ rank = N
  /\ phase' = "done"
  /\ UNCHANGED <<generator, matrix, i, float, selected, rank>>

Next == DrawRow \/ BeginRank \/ EliminateColumn \/ DrawAgain \/ Accept

Spec == Init /\ [][Next]_vars

-----------------------------------------------------------------------------
(* The minors of the matrix, by the definition of determinants: the signed *)
(* products of one element of each of the columns, in different rows.      *)
Inversions(f) ==
  {p \in (DOMAIN f) \X (DOMAIN f) : p[1] < p[2] /\ f[p[1]] > f[p[2]]}

SignedProduct(f) ==
  FoldSet(LAMBDA c, product : product * matrix[f[c]][c],
          IF Cardinality(Inversions(f)) % 2 = 0 THEN 1 ELSE -1, DOMAIN f)

Minor(rows, columns) ==
  MapThenSumSet(SignedProduct, Bijection(columns, rows))

(* The size of the largest minor that is not zero.                         *)
RankOf(columns) ==
  Max({0} \cup
      {Cardinality(p[2]) : p \in
         {q \in (SUBSET Indices) \X (SUBSET columns) :
            Cardinality(q[1]) = Cardinality(q[2]) /\ Minor(q[1], q[2]) # 0}})

(* compute_rank counts, column by column, the rank of the columns it has   *)
(* seen, so that the matrix that is accepted is invertible and a matrix    *)
(* that is rejected is not.                                                *)
RankIsRank == phase = "rank" => rank = RankOf(0..i - 1)

(* generate comes to an end: the generator never runs into the state of    *)
(* zeros that it could not leave again, nor into a cycle of matrices that  *)
(* are not invertible.                                                     *)
Generates == <>(phase = "done")
=============================================================================
