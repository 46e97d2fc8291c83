--------------------------------- MODULE Euclase ---------------------------------
(***************************************************************************)
(* The algebra of euclase: vectors, 4x4 matrices in column order,          *)
(* quaternions, rotations and cameras, over the integers.  A division by   *)
(* a length or a range is multiplied out: every such operator below        *)
(* returns the code's result times the factor its comment names.           *)
(***************************************************************************)
EXTENDS Integers, Sequences

Vec3s(S) == [1 .. 3 -> S]
Vec4s(S) == [1 .. 4 -> S]
\* A quaternion is <<x, y, z, w>>, as its fields are.
Quats(S) == Vec4s(S)

Add(u, v) == [i \in DOMAIN u |-> u[i] + v[i]]
Sub(u, v) == [i \in DOMAIN u |-> u[i] - v[i]]
Scale(u, k) == [i \in DOMAIN u |-> u[i] * k]
Neg(u) == [i \in DOMAIN u |-> -u[i]]
Dot3(u, v) == u[1] * v[1] + u[2] * v[2] + u[3] * v[3]
Dot4(u, v) == u[1] * v[1] + u[2] * v[2] + u[3] * v[3] + u[4] * v[4]

\* Mutant: the second component with its sign turned.
CrossTurned(u, v) == <<u[2] * v[3] - u[3] * v[2], u[1] * v[3] - u[3] * v[1], u[1] * v[2] - u[2] * v[1]>>
Cross(u, v) == <<u[2] * v[3] - u[3] * v[2], u[3] * v[1] - u[1] * v[3], u[1] * v[2] - u[2] * v[1]>>

Length(v) == CHOOSE n \in 0 .. Dot3(v, v) : n * n = Dot3(v, v)
HasLength(v) == \E n \in 1 .. Dot3(v, v) : n * n = Dot3(v, v)

mul_vec4(m, v) == Add(Add(Scale(m[1], v[1]), Scale(m[2], v[2])),
                      Add(Scale(m[3], v[3]), Scale(m[4], v[4])))
Mul(m, n) == [c \in 1 .. 4 |-> mul_vec4(m, n[c])]
Point(v) == <<v[1], v[2], v[3], 1>>
from_translation(v) == << <<1, 0, 0, 0>>, <<0, 1, 0, 0>>, <<0, 0, 1, 0>>, Point(v) >>
from_scale(v) == << <<v[1], 0, 0, 0>>, <<0, v[2], 0, 0>>, <<0, 0, v[3], 0>>, <<0, 0, 0, 1>> >>

\* The Hamilton product.  Mutant: its factors the other way round.
QMulReversed(r, q) ==
  <<q[4] * r[1] + q[1] * r[4] + q[2] * r[3] - q[3] * r[2],
    q[4] * r[2] - q[1] * r[3] + q[2] * r[4] + q[3] * r[1],
    q[4] * r[3] + q[1] * r[2] - q[2] * r[1] + q[3] * r[4],
    q[4] * r[4] - q[1] * r[1] - q[2] * r[2] - q[3] * r[3]>>
QMul(q, r) ==
  <<q[4] * r[1] + q[1] * r[4] + q[2] * r[3] - q[3] * r[2],
    q[4] * r[2] - q[1] * r[3] + q[2] * r[4] + q[3] * r[1],
    q[4] * r[3] + q[1] * r[2] - q[2] * r[1] + q[3] * r[4],
    q[4] * r[4] - q[1] * r[1] - q[2] * r[2] - q[3] * r[3]>>

\* from_rotation of q / |q|, times |q|^2.
from_rotation(q) ==
  LET n == Dot4(q, q)
      x2 == q[1] + q[1]
      y2 == q[2] + q[2]
      z2 == q[3] + q[3]
  IN << <<n - (q[2] * y2 + q[3] * z2), q[1] * y2 + q[4] * z2, q[1] * z2 - q[4] * y2, 0>>,
        <<q[1] * y2 - q[4] * z2, n - (q[1] * x2 + q[3] * z2), q[2] * z2 + q[4] * x2, 0>>,
        <<q[1] * z2 + q[4] * y2, q[2] * z2 - q[4] * x2, n - (q[1] * x2 + q[2] * y2), 0>>,
        <<0, 0, 0, n>> >>

\* look_at_rh, times the lengths of the view direction and of the right vector.
look_at_rh(eye, center, up) ==
  LET f == Sub(center, eye)
      s == Cross(f, up)
      u == Cross(s, f)
      right == Scale(s, Length(f))
      back == Scale(f, -Length(s))
  IN << <<right[1], u[1], back[1], 0>>, <<right[2], u[2], back[2], 0>>, <<right[3], u[3], back[3], 0>>,
        <<-Dot3(right, eye), -Dot3(u, eye), -Dot3(back, eye), Length(f) * Length(s)>> >>

\* The last two columns' z of the projections, times (near - far): what a point of
\* depth d gets is <<z, w>>, and its place on the screen's axis is z / w.
perspective_rh_zo(near, far, d) == <<near * far - far * d, d * (near - far)>>
perspective_rh_gl(near, far, d) == <<2 * far * near - (far + near) * d, d * (near - far)>>

--------------------------------------------------------------------------------
\* "(Q2 * Q1) * v applies Q1 then Q2" (quat.rs:187), and so does the product of the
\* matrices, which the renderer uploads.
RotationComposes(q, r) == from_rotation(QMul(q, r)) = Mul(from_rotation(q), from_rotation(r))

\* A rotation turns lengths and angles into themselves: the columns are orthogonal
\* and of length |q|^2.
RotationIsRigid(q) ==
  \A i, j \in 1 .. 3 :
    Dot4(from_rotation(q)[i], from_rotation(q)[j]) = IF i = j THEN Dot4(q, q) * Dot4(q, q) ELSE 0

\* A camera sees its eye at the origin, what it looks at straight ahead, and what is
\* up not below.
CameraLooks(eye, center, up) ==
  LET f == Sub(center, eye)
      s == Cross(f, up)
      m == look_at_rh(eye, center, up)
      at(p) == SubSeq(mul_vec4(m, Point(p)), 1, 3)
  IN HasLength(f) /\ HasLength(s) =>
       /\ at(eye) = <<0, 0, 0>>
       /\ at(center)[1] = 0 /\ at(center)[2] = 0
       /\ at(center)[3] = -(Length(f) * Length(f) * Length(s))
       /\ at(Add(eye, up))[1] = 0 /\ at(Add(eye, up))[2] > 0

\* Depth is mapped to [0, 1] or [-1, 1], the near plane to the lower end.
DepthRange(near, far) ==
  LET zo(d) == perspective_rh_zo(near, far, d)
      gl(d) == perspective_rh_gl(near, far, d)
  IN /\ zo(near)[1] = 0 /\ zo(far)[1] = zo(far)[2]
     /\ gl(near)[1] = -gl(near)[2] /\ gl(far)[1] = gl(far)[2]
================================================================================
