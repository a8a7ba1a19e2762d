------------------------------- MODULE LuaMath ------------------------------
(* Ext.Math: how the functions tell numbers, vectors, quaternions and        *)
(* matrices apart (by the length of a flat table, matrices in column-major   *)
(* order, quaternions as x, y, z, w), which operands each takes, and whether *)
(* the result is returned or written into a table.  Numbers are integers:    *)
(* what glm computes is exact on the operands chosen, and the functions that *)
(* leave the integers (angles, slerp, decompositions) are not here.  A call  *)
(* whose result is no integer is not made.                                   *)
EXTENDS Integers, Sequences, Functions

CONSTANTS
    MathInputs,      \* Lua values: [type : {"number", "table", "other"}, els : Seq(Int)]
    MathOps          \* the functions called

VARIABLES
    values,          \* the values of the names "a", "b" and "out"
    call             \* the last call: its function, operands, out and result

mathVars == <<values, call>>

Names == {"a", "b", "out"}
EmptyTable == [type |-> "table", els |-> <<>>]
Table(els) == [type |-> "table", els |-> els]
NumberOf(n) == [type |-> "number", els |-> <<n>>]
Raise == [type |-> "raised", els |-> <<>>]
NoValue == [type |-> "nothing", els |-> <<>>]

AddEach(x, y) == x + y
SumTo(n, f(_)) == FoldFunction(AddEach, 0, [k \in 1..n |-> f(k)])

-----------------------------------------------------------------------------
(* Reading.                                                                  *)

\* arity_of.
ArityOf(v) ==
    CASE v.type = "number" -> 1 [] v.type = "table" -> Len(v.els) [] OTHER -> 0

\* read_value: the shape, and a vector's missing components are zero.  A table
\* of one element is taken for a number and refused as one.
ReadValue(v) ==
    LET n == ArityOf(v)
        padded == [i \in 1..4 |-> IF i <= n THEN v.els[i] ELSE 0]
    IN  CASE n = 1 /\ v.type = "number" -> [kind |-> "scalar", els |-> v.els]
          [] n = 2 -> [kind |-> "vec2", els |-> padded]
          [] n = 3 -> [kind |-> "vec3", els |-> padded]
          [] n = 4 -> [kind |-> "vec4", els |-> padded]
          [] n = 9 -> [kind |-> "mat3", els |-> v.els]
          [] n = 16 -> [kind |-> "mat4", els |-> v.els]
          [] OTHER -> [kind |-> "raised", els |-> <<>>]

BadArgument(x) == x.kind = "raised"
IsMat(x) == x.kind \in {"mat3", "mat4"}
IsVec(x) == x.kind \in {"vec2", "vec3", "vec4"}
Side(x) == IF x.kind = "mat3" THEN 3 ELSE 4
WidthOf(kind) == CASE kind = "vec2" -> 2 [] kind = "vec3" -> 3 [] OTHER -> 4

\* read_quat: glm's constructor takes w first.
ReadQuat(v) ==
    IF ArityOf(v) # 4 THEN [ok |-> FALSE, w |-> 0, u |-> <<0, 0, 0>>]
    ELSE [ok |-> TRUE, w |-> v.els[4], u |-> SubSeq(v.els, 1, 3)]

\* push_value and the vectors' widths.
PushValue(kind, els) ==
    CASE kind = "scalar" -> NumberOf(els[1])
      [] kind \in {"vec2", "vec3", "vec4"} -> Table(SubSeq(els, 1, WidthOf(kind)))
      [] OTHER -> Table(els)

PushQuat(q) == Table(q.u \o <<q.w>>)

-----------------------------------------------------------------------------
(* glm, on column-major sequences.                                           *)

At(m, n, c, r) == m[(c - 1) * n + r]
Matrix(n, f(_, _)) == [i \in 1..n * n |-> f(((i - 1) \div n) + 1, ((i - 1) % n) + 1)]
Identity(n) == Matrix(n, LAMBDA c, r : IF c = r THEN 1 ELSE 0)
MatMat(n, m, k) ==
    Matrix(n, LAMBDA c, r : SumTo(n, LAMBDA j : At(m, n, j, r) * At(k, n, c, j)))
MatVec(n, m, v) == [r \in 1..n |-> SumTo(n, LAMBDA c : At(m, n, c, r) * v[c])]
VecMat(n, v, m) == [c \in 1..n |-> SumTo(n, LAMBDA r : v[r] * At(m, n, c, r))]
Dot(n, v, w) == SumTo(n, LAMBDA i : v[i] * w[i])
Cross(v, w) == <<v[2] * w[3] - v[3] * w[2], v[3] * w[1] - v[1] * w[3],
                 v[1] * w[2] - v[2] * w[1]>>

\* glm::mat3_cast, columns first, and a quaternion times a vector.
MatOfQuat(q) ==
    LET x == q.u[1] y == q.u[2] z == q.u[3] w == q.w
    IN  <<1 - 2 * (y * y + z * z), 2 * (x * y + w * z), 2 * (x * z - w * y),
          2 * (x * y - w * z), 1 - 2 * (x * x + z * z), 2 * (y * z + w * x),
          2 * (x * z + w * y), 2 * (y * z - w * x), 1 - 2 * (x * x + y * y)>>
QuatVec(q, v) ==
    LET uv == Cross(q.u, v)
        uuv == Cross(q.u, uv)
    IN  [i \in 1..3 |-> v[i] + 2 * (q.w * uv[i] + uuv[i])]
QuatQuat(p, q) ==
    [w |-> p.w * q.w - Dot(3, p.u, q.u),
     u |-> [i \in 1..3 |-> p.w * q.u[i] + q.w * p.u[i] + Cross(p.u, q.u)[i]]]

\* Widened to 4x4, the corner set; glm::mat4(mat3) and as_mat4.
AsMat4(x) ==
    IF x.kind = "mat4" THEN x.els
    ELSE Matrix(4, LAMBDA c, r : IF c < 4 /\ r < 4 THEN At(x.els, 3, c, r)
                                 ELSE IF c = r THEN 1 ELSE 0)
Translation(t) == Matrix(4, LAMBDA c, r : IF c = r THEN 1
                                          ELSE IF c = 4 THEN t[r] ELSE 0)
Scaling(s) == Matrix(4, LAMBDA c, r : IF c # r THEN 0 ELSE IF c = 4 THEN 1 ELSE s[c])
Turn(axis, quarters) ==
    LET cos == <<1, 0, -1, 0>>[quarters + 1]
        sin == <<0, 1, 0, -1>>[quarters + 1]
        skew == <<0, axis[3], -axis[2], -axis[3], 0, axis[1], axis[2], -axis[1], 0>>
    IN  Matrix(3, LAMBDA c, r : (IF c = r THEN cos ELSE 0)
                    + (1 - cos) * axis[c] * axis[r] + sin * At(skew, 3, c, r))

\* Determinants, and the inverse where the determinant is 1 or -1.
Minor(n, m, col, row) ==
    Matrix(n - 1, LAMBDA c, r : At(m, n, IF c < col THEN c ELSE c + 1,
                                         IF r < row THEN r ELSE r + 1))
Sign(i) == IF i % 2 = 0 THEN 1 ELSE -1
Det2(m) == m[1] * m[4] - m[2] * m[3]
Det3(m) == SumTo(3, LAMBDA c : Sign(c + 1) * At(m, 3, c, 1) * Det2(Minor(3, m, c, 1)))
Det4(m) == SumTo(4, LAMBDA c : Sign(c + 1) * At(m, 4, c, 1) * Det3(Minor(4, m, c, 1)))
Det(n, m) == IF n = 3 THEN Det3(m) ELSE Det4(m)
MatInverse(n, m) ==
    Matrix(n, LAMBDA c, r : Sign(c + r) * Det(n, m)
                 * (IF n = 3 THEN Det2(Minor(n, m, r, c)) ELSE Det3(Minor(n, m, r, c))))

-----------------------------------------------------------------------------
(* The functions: a Lua value, Raise, or Inexact where the result is no      *)
(* integer.                                                                  *)

Inexact == [type |-> "inexact", els |-> <<>>]

\* Value.V of something that is no vector.
V(x) == IF IsVec(x) THEN x.els ELSE <<0, 0, 0, 0>>

\* componentwise: a number goes with every component; of two vectors the
\* first one's width decides.
Componentwise(a, b, op) ==
    LET kind == IF a.kind = "scalar" THEN b.kind ELSE a.kind
        left(i) == IF a.kind = "scalar" THEN a.els[1] ELSE a.els[i]
        right(i) == IF b.kind = "scalar" THEN b.els[1] ELSE b.els[i]
    IN  IF IsMat(a) \/ IsMat(b) THEN Raise
        ELSE IF kind = "scalar" THEN NumberOf(op[a.els[1], b.els[1]])
        ELSE PushValue(kind, [i \in 1..WidthOf(kind) |-> op[left(i), right(i)]])

SameMat(a, b) == IsMat(a) /\ a.kind = b.kind
Each(a, op(_)) == [i \in DOMAIN a |-> op(a[i])]

\* bg3le_math_add, bg3le_math_sub.
MathAdd(a, b) ==
    IF SameMat(a, b) THEN Table([i \in DOMAIN a.els |-> a.els[i] + b.els[i]])
    ELSE Componentwise(a, b, [x, y \in Int |-> x + y])
MathSub(a, b) ==
    IF SameMat(a, b) THEN Table([i \in DOMAIN a.els |-> a.els[i] - b.els[i]])
    ELSE Componentwise(a, b, [x, y \in Int |-> x - y])

\* Mutant: the product of two matrices the wrong way round.
MathMulSwapped(a, b) ==
    IF SameMat(a, b) THEN Table(MatMat(Side(a), b.els, a.els))
    ELSE IF IsMat(a) \/ IsMat(b) THEN Raise
    ELSE Componentwise(a, b, [x, y \in Int |-> x * y])

\* bg3le_math_mul.  A row vector of four is multiplied as b.V * a.M4: the
\* zeros of a matrix's V by the identity of a vector's M4.
MathMul(a, b) ==
    LET n == IF IsMat(a) THEN Side(a) ELSE Side(b)
    IN  CASE SameMat(a, b) -> Table(MatMat(n, a.els, b.els))
          [] IsMat(a) /\ IsVec(b) /\ WidthOf(b.kind) = n -> Table(MatVec(n, a.els, b.els))
          [] a.kind = "vec4" /\ b.kind = "mat4" -> Table(VecMat(4, V(b), Identity(4)))
          [] a.kind = "vec3" /\ b.kind = "mat3" -> Table(VecMat(3, a.els, b.els))
          [] IsMat(a) /\ b.kind = "scalar" -> Table(Each(a.els, LAMBDA x : x * b.els[1]))
          [] a.kind = "scalar" /\ IsMat(b) -> Table(Each(b.els, LAMBDA x : a.els[1] * x))
          [] OTHER -> Componentwise(a, b, [x, y \in Int |-> x * y])

Divides(y, x) == y # 0 /\ x % y = 0
Quotient(x, y) == IF Divides(y, x) THEN x \div y ELSE 0

\* bg3le_math_div: by a matrix is times its inverse.
MathDiv(a, b) ==
    LET n == Side(a)
        exact == CASE SameMat(a, b) -> Det(n, b.els) \in {1, -1}
                   [] IsMat(b) -> TRUE
                   [] b.kind = "scalar" -> \A i \in DOMAIN a.els : Divides(b.els[1], a.els[i])
                   [] IsMat(a) -> TRUE
                   [] OTHER -> \A i \in 1..WidthOf(IF IsVec(a) THEN a.kind ELSE b.kind) :
                                  Divides(b.els[i], IF IsVec(a) THEN a.els[i] ELSE a.els[1])
    IN  IF ~ exact THEN Inexact
        ELSE IF SameMat(a, b) THEN Table(MatMat(n, a.els, MatInverse(n, b.els)))
        ELSE IF IsMat(a) /\ b.kind = "scalar" THEN
             Table(Each(a.els, LAMBDA x : Quotient(x, b.els[1])))
        ELSE Componentwise(a, b, [x, y \in Int |-> Quotient(x, y)])

\* bg3le_math_reflect: of a number or a matrix what is pushed is the untouched
\* part of a new Value, 0 or the identity.
MathReflect(i, n) ==
    LET k == Dot(WidthOf(i.kind), V(n), V(i))
    IN  CASE IsVec(i) -> PushValue(i.kind, [j \in 1..4 |-> V(i)[j] - 2 * k * V(n)[j]])
          [] IsMat(i) -> Table(Identity(Side(i)))
          [] OTHER -> NumberOf(0)

\* bg3le_math_project and bg3le_math_perpendicular.
MathProject(x, n) ==
    LET k == Dot(WidthOf(x.kind), V(x), V(n))
        d == Dot(WidthOf(x.kind), V(n), V(n))
    IN  IF ~ IsVec(x) THEN Raise
        ELSE IF ~ Divides(d, k) THEN Inexact
        ELSE PushValue(x.kind, [i \in 1..4 |-> Quotient(k, d) * V(n)[i]])
MathPerpendicular(x, n) ==
    LET on == MathProject(x, n)
    IN  IF on.type # "table" THEN on
        ELSE Table([i \in DOMAIN on.els |-> x.els[i] - on.els[i]])

\* bg3le_math_cross, bg3le_math_dot: of two vectors of three.
Vec3s(a, b) == a.kind = "vec3" /\ b.kind = "vec3"
MathCross(a, b) == IF Vec3s(a, b) THEN Table(Cross(a.els, b.els)) ELSE Raise
MathDot(a, b) == IF Vec3s(a, b) THEN NumberOf(Dot(3, a.els, b.els)) ELSE Raise

\* bg3le_math_length and bg3le_math_normalize, where the root is an integer.
Root(n) == {r \in 0..n : r * r = n}
MathLength(a) ==
    CASE a.kind = "scalar" -> NumberOf(IF a.els[1] < 0 THEN -a.els[1] ELSE a.els[1])
      [] IsVec(a) -> IF Root(Dot(4, V(a), V(a))) = {} THEN Inexact
                     ELSE NumberOf(CHOOSE r \in Root(Dot(4, V(a), V(a))) : TRUE)
      [] OTHER -> Raise
MathNormalize(a) ==
    LET length == MathLength(a)
    IN  IF ~ IsVec(a) THEN Raise
        ELSE IF length = Inexact \/ \E i \in 1..4 : ~ Divides(length.els[1], a.els[i])
        THEN Inexact
        ELSE PushValue(a.kind, Each(a.els, LAMBDA x : Quotient(x, length.els[1])))

\* bg3le_math_determinant, _inverse, _transpose, _outer_product.
MathDeterminant(a) == IF IsMat(a) THEN NumberOf(Det(Side(a), a.els)) ELSE Raise
MathInverse(a) ==
    IF ~ IsMat(a) THEN Raise
    ELSE IF Det(Side(a), a.els) \notin {1, -1} THEN Inexact
    ELSE Table(MatInverse(Side(a), a.els))
MathTranspose(a) ==
    IF IsMat(a) THEN Table(Matrix(Side(a), LAMBDA c, r : At(a.els, Side(a), r, c))) ELSE Raise
MathOuterProduct(a, b) ==
    IF a.kind = b.kind /\ a.kind \in {"vec3", "vec4"}
    THEN Table(Matrix(WidthOf(a.kind), LAMBDA c, r : a.els[r] * b.els[c])) ELSE Raise

\* bg3le_math_rotate (quarter turns), _translate and _scale: what is written
\* into the matrix given.  A 3x3 one that is moved or scaled becomes 4x4.
MathRotate(m, axis) ==
    IF ~ IsMat(m) \/ axis.kind # "vec3" THEN Raise
    ELSE IF Dot(3, axis.els, axis.els) # 1 THEN Inexact
    ELSE LET turn == [kind |-> "mat3", els |-> Turn(axis.els, 1)]
         IN  IF m.kind = "mat3" THEN Table(MatMat(3, m.els, turn.els))
             ELSE Table(MatMat(4, m.els, AsMat4(turn)))
MathTranslate(m, t) ==
    IF IsMat(m) /\ t.kind = "vec3" THEN Table(MatMat(4, AsMat4(m), Translation(t.els))) ELSE Raise
MathScale(m, t) ==
    IF IsMat(m) /\ t.kind = "vec3" THEN Table(MatMat(4, AsMat4(m), Scaling(t.els))) ELSE Raise

\* bg3le_math_quat_mul, by the lengths of its operands: a vector before the
\* quaternion is turned back by it.
MathQuatMul(v, w) ==
    LET p == ReadQuat(v)
        q == ReadQuat(w)
        d == q.w * q.w + Dot(3, q.u, q.u)
        back == [w |-> Quotient(q.w, d), u |-> Each(q.u, LAMBDA x : Quotient(-x, d))]
    IN  CASE ArityOf(v) = 3 /\ q.ok ->
               IF d # 1 THEN Inexact ELSE Table(QuatVec(back, v.els))
          [] p.ok /\ q.ok -> PushQuat(QuatQuat(p, q))
          [] p.ok /\ ArityOf(w) = 3 -> Table(QuatVec(p, w.els))
          [] OTHER -> Raise

\* bg3le_math_quat_rotate: the fourth component of a vector stays.
MathQuatRotate(v, w) ==
    LET q == ReadQuat(v)
    IN  IF ~ q.ok \/ ArityOf(w) \notin {3, 4} THEN Raise
        ELSE Table(QuatVec(q, w.els) \o SubSeq(w.els, 4, ArityOf(w)))

\* bg3le_math_quat_to_mat3, _to_mat4, _dot and _inverse.
MathQuatToMat3(v) == IF ReadQuat(v).ok THEN Table(MatOfQuat(ReadQuat(v))) ELSE Raise
MathQuatToMat4(v) ==
    IF ReadQuat(v).ok
    THEN Table(AsMat4([kind |-> "mat3", els |-> MatOfQuat(ReadQuat(v))])) ELSE Raise
MathQuatDot(v, w) ==
    IF ReadQuat(v).ok /\ ReadQuat(w).ok THEN NumberOf(Dot(4, v.els, w.els)) ELSE Raise
MathQuatInverse(v) ==
    LET q == ReadQuat(v)
        d == Dot(4, v.els, v.els)
    IN  IF ~ q.ok THEN Raise
        ELSE IF d # 1 THEN Inexact
        ELSE PushQuat([w |-> q.w, u |-> Each(q.u, LAMBDA x : -x)])

-----------------------------------------------------------------------------
(* Calls.                                                                    *)

\* What the function computes from the values of its operands.
Result(f, v, w) ==
    LET a == ReadValue(v)
        b == ReadValue(w)
    IN  CASE f = "QuatMul" -> MathQuatMul(v, w)
          [] f = "QuatRotate" -> MathQuatRotate(v, w)
          [] f = "QuatToMat3" -> MathQuatToMat3(v)
          [] f = "QuatToMat4" -> MathQuatToMat4(v)
          [] f = "QuatDot" -> MathQuatDot(v, w)
          [] f = "QuatInverse" -> MathQuatInverse(v)
          [] BadArgument(a) -> Raise
          [] f = "Length" -> MathLength(a)
          [] f = "Normalize" -> MathNormalize(a)
          [] f = "Determinant" -> MathDeterminant(a)
          [] f = "Inverse" -> MathInverse(a)
          [] f = "Transpose" -> MathTranspose(a)
          [] BadArgument(b) -> Raise
          [] f = "Add" -> MathAdd(a, b)
          [] f = "Sub" -> MathSub(a, b)
          [] f = "Mul" -> MathMul(a, b)
          [] f = "Div" -> MathDiv(a, b)
          [] f = "Reflect" -> MathReflect(a, b)
          [] f = "Project" -> MathProject(a, b)
          [] f = "Perpendicular" -> MathPerpendicular(a, b)
          [] f = "Cross" -> MathCross(a, b)
          [] f = "Dot" -> MathDot(a, b)
          [] f = "OuterProduct" -> MathOuterProduct(a, b)
          [] f = "Rotate" -> MathRotate(a, b)
          [] f = "Translate" -> MathTranslate(a, b)
          [] f = "Scale" -> MathScale(a, b)

\* The functions that write into their first argument, and those that take
\* no table for the result.
InPlace == {"Rotate", "Translate", "Scale"}
ReturnOnly == {"Dot", "Length", "Determinant", "QuatMul", "QuatRotate",
               "QuatToMat3", "QuatToMat4", "QuatDot", "QuatInverse"}

\* assign_value and assign_floats: element by element into a table, longer
\* ones keep the rest; a number is not written.
MathAssigned(old, result) ==
    IF result.type # "table" \/ old.type # "table" THEN Raise
    ELSE Table([i \in 1..(IF Len(old.els) > Len(result.els) THEN Len(old.els)
                                                           ELSE Len(result.els)) |->
                  IF i <= Len(result.els) THEN result.els[i] ELSE old.els[i]])

MathInit ==
    /\ values = [n \in Names |-> EmptyTable]
    /\ call = [f |-> "none", a |-> EmptyTable, b |-> EmptyTable, out |-> "none", result |-> NoValue]

\* A call on two values, with its result put where `out` says: returned
\* ("none"), or written into the table of that name, which may be an
\* operand's (deliver).
Call(f, v, w, out) ==
    LET held == [n \in Names |-> CASE n = "a" -> v [] n = "b" -> w [] OTHER -> EmptyTable]
        r    == Result(f, v, w)
        into == CASE f \in InPlace -> "a" [] f \in ReturnOnly -> "none" [] OTHER -> out
        put  == IF r = Raise THEN Raise ELSE MathAssigned(held[into], r)
    IN  /\ call.f = "none"
        /\ r # Inexact
        /\ call' = [f |-> f, a |-> v, b |-> w, out |-> into,
                    result |-> IF into = "none" THEN r
                               ELSE IF put = Raise THEN Raise ELSE NoValue]
        /\ values' = IF into = "none" \/ put = Raise THEN held
                     ELSE [held EXCEPT ![into] = put]

MathNext ==
    \E f \in MathOps, v, w \in MathInputs, out \in Names \cup {"none"} :
        Call(f, v, w, out)

MathSpec == MathInit /\ [][MathNext]_mathVars

-----------------------------------------------------------------------------
\* What a call gave, returned or in the table it was written into.
Given ==
    CASE call.result # NoValue -> call.result
      [] call.out = "none" -> Raise
      [] OTHER -> Table(SubSeq(values[call.out].els, 1,
                               Len(Result(call.f, call.a, call.b).els)))

\* The matrix product, a vector being a row on the left and a column on the
\* right: entry (r, c) from the rows of one and the columns of the other.
Rows(v, left) == CASE Len(v.els) = 9 -> 3 [] Len(v.els) = 16 -> 4
                   [] OTHER -> IF left THEN 1 ELSE Len(v.els)
ColumnsOf(v, left) == Len(v.els) \div Rows(v, left)
Multiplies(v, w) ==
    /\ v.type = "table" /\ w.type = "table"
    /\ Len(v.els) \in {9, 16} \/ Len(w.els) \in {9, 16}
    /\ Len(v.els) \in {3, 4, 9, 16} /\ Len(w.els) \in {3, 4, 9, 16}
    /\ ColumnsOf(v, TRUE) = Rows(w, FALSE)
Product(v, w) ==
    LET n == Rows(v, TRUE)
        k == ColumnsOf(v, TRUE)
    IN  Table([i \in 1..n * ColumnsOf(w, FALSE) |->
                 SumTo(k, LAMBDA j : v.els[(j - 1) * n + ((i - 1) % n) + 1]
                                     * w.els[((i - 1) \div n) * k + j])])

\* Ext.Math.Mul of matrices, or of a matrix and a vector on either side, is
\* their product, wherever the result goes, an operand's own table included.
MulIsTheProduct ==
    (call.f = "Mul" /\ Multiplies(call.a, call.b)) => Given = Product(call.a, call.b)

\* The same but for a row vector of four, which gives zeros.
MulIsTheProductOtherwise ==
    (call.f = "Mul" /\ Multiplies(call.a, call.b)
       /\ ~ (Len(call.a.els) = 4 /\ Len(call.b.els) = 16))
    => Given = Product(call.a, call.b)

\* A vector turned by a quaternion, as x, y, z, w, is the product of the
\* matrix of that rotation and the vector, and turned back by it the product
\* of the vector and the matrix: the orders of both tables fit.
QuatTurnsAsItsMatrix ==
    LET matrix(v) == Table(MatOfQuat([u |-> SubSeq(v.els, 1, 3), w |-> v.els[4]]))
    IN  /\ (call.f \in {"QuatMul", "QuatRotate"} /\ ArityOf(call.a) = 4
              /\ ArityOf(call.b) = 3) => Given = Product(matrix(call.a), call.b)
        /\ (call.f = "QuatMul" /\ ArityOf(call.a) = 3 /\ ArityOf(call.b) = 4)
              => Given = Product(call.a, matrix(call.b))

\* Products of matrices, vectors and rotations fit one another.
ProductsFit ==
    MulIsTheProductOtherwise /\ QuatTurnsAsItsMatrix
=============================================================================
