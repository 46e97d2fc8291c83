------------------------------------ MODULE Fft ------------------------------------
(***************************************************************************)
(* The transform of resonance/src/dsp.rs: FftContext::new precomputes the  *)
(* bit reversal and the powers of the root of unity, process permutes the  *)
(* buffer in place and combines it.  The complex numbers are replaced by   *)
(* the integers modulo Modulus, in which Root has order MaxSize as         *)
(* e^(-2 pi i/n) has order n: the same steps can be compared exactly.      *)
(***************************************************************************)
EXTENDS Integers

CONSTANTS Modulus, Root, MaxSize

\* 1 << k, the shifts of i to the right, and the powers of b.
Pow2[k \in Nat] == IF k = 0 THEN 1 ELSE 2 * Pow2[k - 1]
Shifts(i) == LET h[j \in Nat] == IF j = 0 THEN i ELSE h[j - 1] \div 2 IN h
Powers(b) == LET p[e \in Nat] == IF e = 0 THEN 1 ELSE (b * p[e - 1]) % Modulus IN p

\* f[0] + ... + f[n - 1].
Sum(f, n) == LET s[i \in 0 .. n] == IF i = 0 THEN 0 ELSE s[i - 1] + f[i - 1] IN s[n]

Bits(size) == CHOOSE b \in 0 .. size : Pow2[b] = size
Indexes(size) == 0 .. size - 1

\* Bit j of an index becomes bit (bits - 1 - j).
Reversed(i, bits) == Sum([j \in 0 .. bits - 1 |-> (Shifts(i)[j] % 2) * Pow2[bits - 1 - j]], bits)
RevTable(size) == [i \in Indexes(size) |-> Reversed(i, Bits(size))]

\* The root of order size is a power of Root.
Unit(size) == Powers(Root)[MaxSize \div size]
Twiddles(size) == [i \in 0 .. (size \div 2) - 1 |-> Powers(Unit(size))[i]]

\* An entry is exchanged with its mirror image if that lies behind.
Swapped(b, i, j) == IF i < j THEN [b EXCEPT ![i] = b[j], ![j] = b[i]] ELSE b
Permuted(buffer, size) ==
  LET after[i \in 0 .. size] ==
        IF i = 0 THEN buffer ELSE Swapped(after[i - 1], i - 1, RevTable(size)[i - 1])
  IN after[size]

\* One stage: all pairs at distance m / 2 are replaced by their sum and difference.
\* Mutant: the twiddle's index is not scaled to the table.
StageUnscaled(buffer, m, size) ==
  LET mh == m \div 2
      t(i) == (Twiddles(size)[i % mh] * buffer[i]) % Modulus
  IN [i \in Indexes(size) |->
        IF i % m < mh THEN (buffer[i] + t(i + mh)) % Modulus ELSE (buffer[i - mh] - t(i)) % Modulus]
Stage(buffer, m, size) ==
  LET mh == m \div 2
      t(i) == (Twiddles(size)[(i % mh) * (size \div m)] * buffer[i]) % Modulus
  IN [i \in Indexes(size) |->
        IF i % m < mh THEN (buffer[i] + t(i + mh)) % Modulus ELSE (buffer[i - mh] - t(i)) % Modulus]

Process(buffer, size) ==
  LET after[s \in 0 .. Bits(size)] ==
        IF s = 0 THEN Permuted(buffer, size) ELSE Stage(after[s - 1], Pow2[s], size)
  IN after[Bits(size)]

--------------------------------------------------------------------------------
\* The transform by its definition.
Dft(buffer, size) ==
  [k \in Indexes(size) |->
     Sum([j \in Indexes(size) |-> buffer[j] * Powers(Unit(size))[j * k]], size) % Modulus]

\* The in-place algorithm computes the transform.
FftIsDft(buffer, size) == Process(buffer, size) = Dft(buffer, size)
================================================================================
