------------------------ MODULE BatchProducer_proofs ------------------------
(***************************************************************************)
(* Proofs about BatchProducer: the buffered producer loses, repeats and    *)
(* overtakes nothing while one goroutine at a time uses the batch; what a  *)
(* failed send may have stored is sent again until that is confirmed; and  *)
(* a message is refused only for a reason.  The sizes and selections are recursive functions over the      *)
(* messages of a sequence, so the first part is about such loops.          *)
(***************************************************************************)
EXTENDS BatchProducer, SequenceTheorems, WellFoundedInduction, TLAPS

-----------------------------------------------------------------------------
(* Induction and loops *)

(* Induction on the natural numbers, for a set instead of a predicate:      *)
(* they are well founded, so the least one outside T would have a           *)
(* predecessor in T.                                                        *)
LEMMA SetInduction ==
    ASSUME NEW T \in SUBSET Nat, 0 \in T, \A n \in T : n + 1 \in T
    PROVE  T = Nat
<1>1. ASSUME Nat \ T # {} PROVE FALSE
  <2>1. PICK x \in Nat \ T : \A y \in Nat \ T : ~(<<y, x>> \in OpToRel(<, Nat))
    <3> DEFINE U == Nat \ T
    <3>1. U \subseteq Nat /\ U # {}
      BY <1>1
    <3> QED
      BY <3>1, NatLessThanWellFounded, WFMin
  <2>2. x \in Nat /\ x # 0 /\ x \notin T
    BY <2>1
  <2>3. x - 1 \in Nat /\ x - 1 < x /\ x = (x - 1) + 1
    BY <2>2
  <2>4. <<x - 1, x>> \in OpToRel(<, Nat)
    BY <2>2, <2>3 DEF OpToRel
  <2>5. x - 1 \in T
    BY <2>1, <2>3, <2>4
  <2> QED
    BY <2>5, <2>2, <2>3
<1> QED
  BY <1>1

(* A set that holds the empty sequence and every extension of what it holds *)
(* holds every sequence.                                                    *)
LEMMA SeqInduction ==
    ASSUME NEW S, NEW T \in SUBSET Seq(S), <<>> \in T,
           \A s \in T, e \in S : Append(s, e) \in T
    PROVE  T = Seq(S)
<1> DEFINE L == {n \in Nat : \A s \in Seq(S) : Len(s) = n => s \in T}
<1>1. 0 \in L
  <2>1. \A s \in Seq(S) : Len(s) = 0 => s = <<>>
    BY EmptySeq
  <2> QED
    BY <2>1
<1>2. ASSUME NEW n \in L PROVE n + 1 \in L
  <2>1. n \in Nat
    OBVIOUS
  <2> SUFFICES ASSUME NEW s \in Seq(S), Len(s) = n + 1 PROVE s \in T
    BY <2>1
  <2>2. s # <<>>
    BY <2>1, EmptySeq
  <2>3. PICK t \in Seq(S), e \in S : s = Append(t, e)
    BY <2>2, SequenceEmptyOrAppend
  <2>4. Len(t) = n
    BY <2>1, <2>3, AppendProperties, LenProperties
  <2>5. t \in T
    BY <2>4
  <2> QED
    BY <2>3, <2>5
<1>3. L = Nat
  <2>1. L \in SUBSET Nat
    OBVIOUS
  <2> HIDE DEF L
  <2> QED
    BY <1>1, <1>2, <2>1, SetInduction
<1> QED
  BY <1>3, LenProperties

(* step[i][x] is the value after round i of a loop that had x before it.    *)
StaysIn(S, n, step) == \A i \in 1..n, x \in S : step[i][x] \in S

(* f[i] is the value of a loop from base after i of its n rounds.           *)
IsRun(f, n, base, step) == f[0] = base /\ \A i \in 1..n : f[i] = step[i][f[i-1]]

(* Every such loop has a run. *)
LEMMA LoopRuns ==
    ASSUME NEW S, NEW base \in S, NEW n \in Nat, NEW step, StaysIn(S, n, step)
    PROVE  \E f \in [0..n -> S] : IsRun(f, n, base, step)
<1> DEFINE T == {k \in Nat : k <= n => \E f \in [0..k -> S] : IsRun(f, k, base, step)}
<1>1. 0 \in T
  <2> DEFINE g == [i \in 0..0 |-> base]
  <2>1. g \in [0..0 -> S] /\ IsRun(g, 0, base, step)
    BY DEF IsRun
  <2> QED
    BY <2>1
<1>2. ASSUME NEW k \in T PROVE k + 1 \in T
  <2>1. k \in Nat
    OBVIOUS
  <2> SUFFICES ASSUME k + 1 <= n PROVE \E f \in [0..(k+1) -> S] : IsRun(f, k + 1, base, step)
    BY <2>1
  <2>2. PICK f \in [0..k -> S] : IsRun(f, k, base, step)
    BY <2>1
  <2> DEFINE g == [i \in 0..(k+1) |-> IF i <= k THEN f[i] ELSE step[k+1][f[k]]]
  <2>3. step[k+1][f[k]] \in S
    BY <2>1, <2>2 DEF StaysIn
  <2>4. g \in [0..(k+1) -> S]
    BY <2>1, <2>2, <2>3
  <2>5. g[0] = base
    BY <2>1, <2>2 DEF IsRun
  <2>6. ASSUME NEW i \in 1..(k+1) PROVE g[i] = step[i][g[i-1]]
    <3>1. CASE i <= k
      BY <2>1, <2>2, <3>1 DEF IsRun
    <3>2. CASE i = k + 1
      BY <2>1, <2>2, <3>2
    <3> QED
      BY <2>1, <3>1, <3>2
  <2>7. IsRun(g, k + 1, base, step)
    BY <2>5, <2>6 DEF IsRun
  <2> QED
    BY <2>4, <2>7
<1>3. T = Nat
  <2>1. T \in SUBSET Nat
    OBVIOUS
  <2> HIDE DEF T
  <2> QED
    BY <1>1, <1>2, <2>1, SetInduction
<1>4. n \in T
  BY <1>3
<1> QED
  BY <1>4

(* Two loops with the same first n rounds have the same value after them.   *)
LEMMA LoopsAgree ==
    ASSUME NEW n \in Nat, NEW m \in Nat, n <= m, NEW base,
           NEW f, NEW stepf, IsRun(f, n, base, stepf),
           NEW g, NEW stepg, IsRun(g, m, base, stepg),
           \A i \in 1..n : stepf[i] = stepg[i]
    PROVE  f[n] = g[n]
<1> DEFINE T == {k \in Nat : k <= n => f[k] = g[k]}
<1>1. 0 \in T
  BY DEF IsRun
<1>2. ASSUME NEW k \in T PROVE k + 1 \in T
  <2>1. k \in Nat
    OBVIOUS
  <2> SUFFICES ASSUME k + 1 <= n PROVE f[k+1] = g[k+1]
    BY <2>1
  <2>2. f[k] = g[k]
    BY <2>1
  <2>3. k + 1 \in 1..n /\ k + 1 \in 1..m /\ (k + 1) - 1 = k
    BY <2>1
  <2>4. f[k+1] = stepf[k+1][f[k]] /\ g[k+1] = stepg[k+1][g[k]]
    BY <2>3 DEF IsRun
  <2> QED
    BY <2>2, <2>3, <2>4
<1>3. T = Nat
  <2>1. T \in SUBSET Nat
    OBVIOUS
  <2> HIDE DEF T
  <2> QED
    BY <1>1, <1>2, <2>1, SetInduction
<1>4. n \in T
  BY <1>3
<1> QED
  BY <1>4

Follows(g, n, S, base, step) ==
    g[0] = base /\ \A i \in 1..n : g[i-1] \in S => g[i] = step[i][g[i-1]]

(* What follows the rounds of a loop wherever its value is in S, is a run   *)
(* of it, and its values are in S.                                          *)
LEMMA LoopStays ==
    ASSUME NEW S, NEW base \in S, NEW n \in Nat, NEW step, StaysIn(S, n, step),
           NEW g, Follows(g, n, S, base, step)
    PROVE  IsRun(g, n, base, step) /\ \A k \in 0..n : g[k] \in S
<1> DEFINE T == {k \in Nat : k <= n => g[k] \in S}
<1>1. 0 \in T
  BY DEF Follows
<1>2. ASSUME NEW k \in T PROVE k + 1 \in T
  <2> SUFFICES ASSUME k + 1 <= n PROVE g[k+1] \in S
    OBVIOUS
  <2>1. k + 1 \in 1..n /\ (k + 1) - 1 = k /\ g[k] \in S
    OBVIOUS
  <2> QED
    BY <2>1 DEF StaysIn, Follows
<1>3. T = Nat
  <2>1. T \in SUBSET Nat
    OBVIOUS
  <2> HIDE DEF T
  <2> QED
    BY <1>1, <1>2, <2>1, SetInduction
<1>4. \A k \in 0..n : g[k] \in S
  <2>1. \A k \in Nat : k <= n => g[k] \in S
    BY <1>3
  <2> QED
    BY <2>1
<1>5. \A i \in 1..n : g[i-1] \in S
  BY <1>4
<1> QED
  BY <1>4, <1>5 DEF IsRun, Follows

-----------------------------------------------------------------------------
(* The size of a batch *)

ByteSteps(s) ==
    [i \in 1..Len(s) |-> [x \in Nat |-> x + Body[s[i]] + Overhead[s[i]]]]

(* Bytes computes what calculateBatchSize's loop does. *)
LEMMA BytesRun ==
    ASSUME NEW s \in Seq(Messages)
    PROVE  \E f : /\ IsRun(f, Len(s), 0, ByteSteps(s))
                  /\ Bytes(s) = f[Len(s)] /\ Bytes(s) \in Nat
<1>1. Len(s) \in Nat /\ \A i \in 1..Len(s) : s[i] \in Messages
  BY LenProperties, ElementOfSeq
<1>2. StaysIn(Nat, Len(s), ByteSteps(s))
  BY <1>1, BatchAssumption DEF StaysIn, ByteSteps
<1>3. PICK f \in [0..Len(s) -> Nat] : IsRun(f, Len(s), 0, ByteSteps(s))
  BY <1>1, <1>2, LoopRuns
<1> DEFINE Loop(g) == g = [i \in 0..Len(s) |->
                             IF i = 0 THEN 0 ELSE g[i-1] + Body[s[i]] + Overhead[s[i]]]
<1>4. \A i \in 1..Len(s) : f[i] = f[i-1] + Body[s[i]] + Overhead[s[i]]
  <2> SUFFICES ASSUME NEW i \in 1..Len(s)
               PROVE  f[i] = f[i-1] + Body[s[i]] + Overhead[s[i]]
    OBVIOUS
  <2>1. f[i-1] \in Nat
    BY <1>1
  <2>2. f[i] = ByteSteps(s)[i][f[i-1]]
    BY <1>3 DEF IsRun
  <2> QED
    BY <2>1, <2>2 DEF ByteSteps
<1>5. Loop(f)
  <2>1. DOMAIN f = 0..Len(s) /\ f = [i \in DOMAIN f |-> f[i]]
    OBVIOUS
  <2>2. \A i \in 0..Len(s) : f[i] = IF i = 0 THEN 0 ELSE f[i-1] + Body[s[i]] + Overhead[s[i]]
    BY <1>1, <1>3, <1>4 DEF IsRun
  <2> QED
    BY <2>1, <2>2
<1>6. Loop(CHOOSE g : Loop(g))
  <2> HIDE DEF Loop
  <2> QED
    BY <1>5
<1>7. PICK g : Loop(g) /\ Bytes(s) = g[Len(s)]
  BY <1>6 DEF Bytes
<1>8. g[0] = 0 /\ \A i \in 1..Len(s) : g[i] = g[i-1] + Body[s[i]] + Overhead[s[i]]
  BY <1>7, <1>1
<1> HIDE DEF Loop
<1>9. Follows(g, Len(s), Nat, 0, ByteSteps(s))
  BY <1>1, <1>8 DEF ByteSteps, Follows
<1>10. IsRun(g, Len(s), 0, ByteSteps(s)) /\ \A k \in 0..Len(s) : g[k] \in Nat
  BY <1>1, <1>2, <1>9, LoopStays
<1> QED
  BY <1>1, <1>7, <1>10

(* An empty batch has no bytes.                                             *)
LEMMA BytesEmpty == Bytes(<<>>) = 0
<1>1. <<>> \in Seq(Messages) /\ Len(<<>>) = 0
  BY EmptySeq
<1>2. PICK f : IsRun(f, 0, 0, ByteSteps(<<>>)) /\ Bytes(<<>>) = f[0]
  BY <1>1, BytesRun
<1> QED
  BY <1>2 DEF IsRun

-----------------------------------------------------------------------------
(* The accepted messages less the refused ones *)

KeepSteps(s, R) ==
    [i \in 1..Len(s) |->
        [x \in Seq(Messages) |-> IF s[i] \in R THEN x ELSE Append(x, s[i])]]

(* Without is what its loop over the sequence has in the end.               *)
LEMMA WithoutRun ==
    ASSUME NEW s \in Seq(Messages), NEW R
    PROVE  \E f : /\ IsRun(f, Len(s), <<>>, KeepSteps(s, R))
                  /\ Without(s, R) = f[Len(s)] /\ Without(s, R) \in Seq(Messages)
<1>1. Len(s) \in Nat /\ \A i \in 1..Len(s) : s[i] \in Messages
  BY LenProperties, ElementOfSeq
<1>2. <<>> \in Seq(Messages)
  BY EmptySeq
<1>3. StaysIn(Seq(Messages), Len(s), KeepSteps(s, R))
  <2> SUFFICES ASSUME NEW i \in 1..Len(s), NEW x \in Seq(Messages)
               PROVE  KeepSteps(s, R)[i][x] \in Seq(Messages)
    BY DEF StaysIn
  <2>1. Append(x, s[i]) \in Seq(Messages)
    BY <1>1, AppendProperties
  <2> QED
    BY <2>1 DEF KeepSteps
<1>4. PICK f \in [0..Len(s) -> Seq(Messages)] : IsRun(f, Len(s), <<>>, KeepSteps(s, R))
  BY <1>1, <1>2, <1>3, LoopRuns
<1> DEFINE Loop(g) == g = [i \in 0..Len(s) |->
                             IF i = 0 THEN <<>>
                             ELSE IF s[i] \in R THEN g[i-1] ELSE Append(g[i-1], s[i])]
<1>5. Loop(f)
  <2>1. DOMAIN f = 0..Len(s) /\ f = [i \in DOMAIN f |-> f[i]]
    OBVIOUS
  <2>2. ASSUME NEW i \in 1..Len(s)
        PROVE  f[i] = IF s[i] \in R THEN f[i-1] ELSE Append(f[i-1], s[i])
    <3>1. f[i-1] \in Seq(Messages)
      BY <1>1
    <3>2. f[i] = KeepSteps(s, R)[i][f[i-1]]
      BY <1>4 DEF IsRun
    <3> QED
      BY <3>1, <3>2 DEF KeepSteps
  <2>3. \A i \in 0..Len(s) :
          f[i] = IF i = 0 THEN <<>>
                 ELSE IF s[i] \in R THEN f[i-1] ELSE Append(f[i-1], s[i])
    <3>1. f[0] = <<>>
      BY <1>4 DEF IsRun
    <3>2. \A i \in 0..Len(s) : i = 0 \/ i \in 1..Len(s)
      BY <1>1
    <3> QED
      BY <2>2, <3>1, <3>2
  <2> QED
    BY <2>1, <2>3
<1>6. Loop(CHOOSE g : Loop(g))
  <2> HIDE DEF Loop
  <2> QED
    BY <1>5
<1>7. PICK g : Loop(g) /\ Without(s, R) = g[Len(s)]
  BY <1>6 DEF Without
<1>8. /\ g[0] = <<>>
      /\ \A i \in 1..Len(s) : g[i] = IF s[i] \in R THEN g[i-1] ELSE Append(g[i-1], s[i])
  <2>1. 0 \in 0..Len(s) /\ \A i \in 1..Len(s) : i \in 0..Len(s) /\ i # 0
    BY <1>1
  <2>2. g[0] = <<>>
    BY <1>7, <2>1
  <2>3. ASSUME NEW i \in 1..Len(s)
        PROVE  g[i] = IF s[i] \in R THEN g[i-1] ELSE Append(g[i-1], s[i])
    BY <1>7, <2>1
  <2> QED
    BY <2>2, <2>3
<1> HIDE DEF Loop
<1>9. Follows(g, Len(s), Seq(Messages), <<>>, KeepSteps(s, R))
  BY <1>8 DEF KeepSteps, Follows
<1>10. /\ IsRun(g, Len(s), <<>>, KeepSteps(s, R))
       /\ \A k \in 0..Len(s) : g[k] \in Seq(Messages)
  BY <1>1, <1>2, <1>3, <1>9, LoopStays
<1> QED
  BY <1>1, <1>7, <1>10

(* What remains of a sequence of messages is one.                           *)
LEMMA WithoutType ==
    ASSUME NEW s \in Seq(Messages), NEW R
    PROVE  Without(s, R) \in Seq(Messages)
BY WithoutRun

(* Nothing remains of the empty sequence.                                   *)
LEMMA WithoutEmpty ==
    ASSUME NEW R
    PROVE  Without(<<>>, R) = <<>>
<1>1. <<>> \in Seq(Messages) /\ Len(<<>>) = 0
  BY EmptySeq
<1>2. PICK f : IsRun(f, 0, <<>>, KeepSteps(<<>>, R)) /\ Without(<<>>, R) = f[0]
  BY <1>1, WithoutRun
<1> QED
  BY <1>2 DEF IsRun

(* A message more is kept behind the others, or dropped.                    *)
LEMMA WithoutAppend ==
    ASSUME NEW s \in Seq(Messages), NEW m \in Messages, NEW R
    PROVE  Without(Append(s, m), R) =
             IF m \in R THEN Without(s, R) ELSE Append(Without(s, R), m)
<1> DEFINE t == Append(s, m)
<1>1. /\ t \in Seq(Messages) /\ Len(t) = Len(s) + 1 /\ Len(s) \in Nat
      /\ t[Len(t)] = m /\ \A i \in 1..Len(s) : t[i] = s[i]
  BY AppendProperties, LenProperties
<1> HIDE DEF t
<1>2. PICK f : /\ IsRun(f, Len(s), <<>>, KeepSteps(s, R))
               /\ Without(s, R) = f[Len(s)] /\ Without(s, R) \in Seq(Messages)
  BY WithoutRun
<1>3. PICK g : IsRun(g, Len(t), <<>>, KeepSteps(t, R)) /\ Without(t, R) = g[Len(t)]
  BY <1>1, WithoutRun
<1>4. \A i \in 1..Len(s) : KeepSteps(s, R)[i] = KeepSteps(t, R)[i]
  <2> SUFFICES ASSUME NEW i \in 1..Len(s) PROVE KeepSteps(s, R)[i] = KeepSteps(t, R)[i]
    OBVIOUS
  <2>1. i \in 1..Len(t) /\ t[i] = s[i]
    BY <1>1
  <2> QED
    BY <2>1 DEF KeepSteps
<1>5. f[Len(s)] = g[Len(s)]
  BY <1>1, <1>2, <1>3, <1>4, LoopsAgree
<1>6. Len(t) \in 1..Len(t) /\ Len(t) - 1 = Len(s)
  BY <1>1
<1>7. g[Len(t)] = KeepSteps(t, R)[Len(t)][g[Len(s)]]
  BY <1>3, <1>6 DEF IsRun
<1> QED
  BY <1>1, <1>2, <1>3, <1>5, <1>6, <1>7 DEF KeepSteps, t

Once(s) == \A i, j \in 1..Len(s) : s[i] = s[j] => i = j

Holds(s, m) == \E i \in 1..Len(s) : s[i] = m

(* A sequence holds what it held and what was appended to it.               *)
LEMMA HoldsAppend ==
    ASSUME NEW s \in Seq(Messages), NEW e \in Messages, NEW m
    PROVE  Holds(Append(s, e), m) <=> Holds(s, m) \/ m = e
<1>1. /\ Len(Append(s, e)) = Len(s) + 1 /\ Len(s) \in Nat
      /\ Append(s, e)[Len(s) + 1] = e
      /\ \A i \in 1..Len(s) : Append(s, e)[i] = s[i]
  BY AppendProperties, LenProperties
<1>2. \A i \in 1..(Len(s) + 1) : i \in 1..Len(s) \/ i = Len(s) + 1
  BY <1>1
<1>3. \A i \in 1..Len(s) : i \in 1..(Len(s) + 1)
  BY <1>1
<1>4. Len(s) + 1 \in 1..(Len(s) + 1)
  BY <1>1
<1> QED
  BY <1>1, <1>2, <1>3, <1>4 DEF Holds

(* Messages still occur once each when a new one is appended.               *)
LEMMA OnceAppend ==
    ASSUME NEW s \in Seq(Messages), NEW e \in Messages
    PROVE  Once(Append(s, e)) <=> Once(s) /\ ~Holds(s, e)
<1>1. /\ Len(Append(s, e)) = Len(s) + 1 /\ Len(s) \in Nat
      /\ Append(s, e)[Len(s) + 1] = e
      /\ \A i \in 1..Len(s) : Append(s, e)[i] = s[i]
  BY AppendProperties, LenProperties
<1>2. \A i \in 1..(Len(s) + 1) : i \in 1..Len(s) \/ i = Len(s) + 1
  BY <1>1
<1>3. \A i \in 1..Len(s) : i \in 1..(Len(s) + 1) /\ i # Len(s) + 1
  BY <1>1
<1>4. Len(s) + 1 \in 1..(Len(s) + 1)
  BY <1>1
<1> QED
  BY <1>1, <1>2, <1>3, <1>4 DEF Holds, Once

(* What the sequence does not hold, neither does its rest, and to drop it   *)
(* too changes nothing.                                                     *)
LEMMA WithoutMissing ==
    ASSUME NEW s \in Seq(Messages), NEW R, NEW h, ~Holds(s, h)
    PROVE  ~Holds(Without(s, R), h) /\ Without(s, R \cup {h}) = Without(s, R)
<1> DEFINE T == {t \in Seq(Messages) :
                   ~Holds(t, h) => /\ ~Holds(Without(t, R), h)
                                   /\ Without(t, R \cup {h}) = Without(t, R)}
<1>1. <<>> \in T
  <2>1. <<>> \in Seq(Messages) /\ ~Holds(<<>>, h)
    BY EmptySeq DEF Holds
  <2> QED
    BY <2>1, WithoutEmpty
<1>2. ASSUME NEW t \in T, NEW e \in Messages PROVE Append(t, e) \in T
  <2>1. Append(t, e) \in Seq(Messages)
    BY AppendProperties
  <2> SUFFICES ASSUME ~Holds(Append(t, e), h)
               PROVE  /\ ~Holds(Without(Append(t, e), R), h)
                      /\ Without(Append(t, e), R \cup {h}) = Without(Append(t, e), R)
    BY <2>1
  <2>2. ~Holds(t, h) /\ e # h
    BY HoldsAppend
  <2>3. ~Holds(Without(t, R), h) /\ Without(t, R \cup {h}) = Without(t, R)
    BY <2>2
  <2>4. Without(t, R) \in Seq(Messages)
    BY WithoutType
  <2>5. e \in R \cup {h} <=> e \in R
    BY <2>2
  <2> HIDE DEF T
  <2>6. t \in Seq(Messages)
    BY DEF T
  <2>7. /\ Without(Append(t, e), R) =
             IF e \in R THEN Without(t, R) ELSE Append(Without(t, R), e)
        /\ Without(Append(t, e), R \cup {h}) =
             IF e \in R \cup {h} THEN Without(t, R \cup {h})
             ELSE Append(Without(t, R \cup {h}), e)
    BY <2>6, WithoutAppend
  <2>8. ~Holds(Append(Without(t, R), e), h)
    BY <2>2, <2>3, <2>4, HoldsAppend
  <2> QED
    BY <2>3, <2>5, <2>7, <2>8
<1>3. T = Seq(Messages)
  <2>1. T \in SUBSET Seq(Messages)
    OBVIOUS
  <2> HIDE DEF T
  <2> QED
    BY <1>1, <1>2, <2>1, SeqInduction
<1>4. s \in T
  BY <1>3
<1> QED
  BY <1>4

(* t holds what s holds and R does not, and once each if s does.            *)
RemainsOf(t, s, R) ==
    /\ \A m : Holds(t, m) <=> Holds(s, m) /\ m \notin R
    /\ Once(s) => Once(t)

(* That is what Without leaves of a sequence.                               *)
LEMMA WithoutRemains ==
    ASSUME NEW s \in Seq(Messages), NEW R
    PROVE  RemainsOf(Without(s, R), s, R)
<1> DEFINE T == {t \in Seq(Messages) : RemainsOf(Without(t, R), t, R)}
<1>1. <<>> \in T
  <2>1. <<>> \in Seq(Messages) /\ \A m : ~Holds(<<>>, m)
    BY EmptySeq DEF Holds
  <2> QED
    BY <2>1, WithoutEmpty DEF RemainsOf
<1>2. ASSUME NEW t \in T, NEW e \in Messages PROVE Append(t, e) \in T
  <2>1. t \in Seq(Messages) /\ Append(t, e) \in Seq(Messages)
    BY AppendProperties
  <2>2. RemainsOf(Without(t, R), t, R)
    OBVIOUS
  <2> SUFFICES RemainsOf(Without(Append(t, e), R), Append(t, e), R)
    BY <2>1
  <2> HIDE DEF T
  <2>3. Without(Append(t, e), R) =
             IF e \in R THEN Without(t, R) ELSE Append(Without(t, R), e)
    BY <2>1, WithoutAppend
  <2>4. Without(t, R) \in Seq(Messages)
    BY <2>1, WithoutType
  <2>5. /\ \A m : Holds(Append(t, e), m) <=> Holds(t, m) \/ m = e
        /\ Once(Append(t, e)) <=> Once(t) /\ ~Holds(t, e)
    BY <2>1, HoldsAppend, OnceAppend
  <2>6. CASE e \in R
    BY <2>2, <2>3, <2>5, <2>6 DEF RemainsOf
  <2>7. CASE e \notin R
    <3>1. /\ \A m : Holds(Append(Without(t, R), e), m) <=> Holds(Without(t, R), m) \/ m = e
          /\ Once(Append(Without(t, R), e)) <=> Once(Without(t, R)) /\ ~Holds(Without(t, R), e)
      BY <2>4, HoldsAppend, OnceAppend
    <3> QED
      BY <2>2, <2>3, <2>5, <2>7, <3>1 DEF RemainsOf
  <2> QED
    BY <2>6, <2>7
<1>3. T = Seq(Messages)
  <2>1. T \in SUBSET Seq(Messages)
    OBVIOUS
  <2> HIDE DEF T
  <2> QED
    BY <1>1, <1>2, <2>1, SeqInduction
<1>4. s \in T
  BY <1>3
<1> QED
  BY <1>4

(* What begins a sequence is held by it, and occurs once if it does there.  *)
LEMMA PrefixRemains ==
    ASSUME NEW p \in Seq(Messages), NEW q \in Seq(Messages)
    PROVE  /\ \A m : Holds(p, m) => Holds(p \o q, m)
           /\ Once(p \o q) => Once(p)
<1>1. /\ Len(p) \in Nat /\ Len(q) \in Nat /\ Len(p \o q) = Len(p) + Len(q)
      /\ \A i \in 1..Len(p) : (p \o q)[i] = p[i]
  BY ConcatProperties, LenProperties
<1>2. \A i \in 1..Len(p) : i \in 1..Len(p \o q)
  BY <1>1
<1> QED
  BY <1>1, <1>2 DEF Holds, Once

(* To append to the second of two sequences is to append to both.           *)
LEMMA ConcatAppend ==
    ASSUME NEW S, NEW p \in Seq(S), NEW q \in Seq(S), NEW x \in S
    PROVE  p \o Append(q, x) = Append(p \o q, x)
<1>1. <<x>> \in Seq(S) /\ Append(q, x) = q \o <<x>>
  BY AppendIsConcat
<1>2. p \o q \in Seq(S) /\ Append(p \o q, x) = (p \o q) \o <<x>>
  BY ConcatProperties, AppendIsConcat
<1> QED
  BY <1>1, <1>2, ConcatAssociative

(* Wherever h is cut out of s, t remains.                                   *)
Removes(s, h, t) ==
    \A u, v \in Seq(Messages) : s = (u \o <<h>>) \o v => t = u \o v

(* Either h comes last, and nowhere before ...                              *)
LEMMA RemovesLast ==
    ASSUME NEW s \in Seq(Messages), NEW h \in Messages, ~Holds(s, h)
    PROVE  Removes(Append(s, h), h, s)
<1> SUFFICES ASSUME NEW u \in Seq(Messages), NEW v \in Seq(Messages),
                    Append(s, h) = (u \o <<h>>) \o v
             PROVE  s = u \o v
  BY DEF Removes
<1>1. <<h>> \in Seq(Messages) /\ Len(<<h>>) = 1
  OBVIOUS
<1>2. u \o <<h>> \in Seq(Messages) /\ u \o <<h>> = Append(u, h)
  BY <1>1, ConcatProperties, AppendIsConcat
<1>3. CASE v = <<>>
  <2>1. (u \o <<h>>) \o v = u \o <<h>> /\ u \o v = u
    BY <1>2, <1>3, ConcatEmptySeq
  <2>2. Append(s, h) = Append(u, h)
    BY <1>2, <2>1
  <2> QED
    BY <2>1, <2>2, AppendInjective
<1>4. CASE v # <<>>
  <2>1. PICK w \in Seq(Messages), x \in Messages : v = Append(w, x)
    BY <1>4, SequenceEmptyOrAppend
  <2> DEFINE r == (u \o <<h>>) \o w
  <2>2. r \in Seq(Messages)
    BY <1>2, ConcatProperties
  <2>3. (u \o <<h>>) \o v = Append(r, x)
    BY <1>2, <2>1, ConcatAppend
  <2>4. s = r
    <3>1. Append(s, h) = Append(r, x)
      BY <2>3
    <3> HIDE DEF r
    <3> QED
      BY <2>2, <3>1, AppendInjective
  <2>5. Holds(r, h)
    <3>1. Len(u) \in Nat /\ Len(w) \in Nat
      BY LenProperties
    <3>2. Len(u \o <<h>>) = Len(u) + 1 /\ (u \o <<h>>)[Len(u) + 1] = h
      BY <1>1, <3>1, ConcatProperties
    <3>3. Len(r) = (Len(u) + 1) + Len(w) /\ r[Len(u) + 1] = (u \o <<h>>)[Len(u) + 1]
      BY <1>2, <3>1, <3>2, ConcatProperties
    <3> HIDE DEF r
    <3>4. Len(u) + 1 \in 1..Len(r)
      BY <3>1, <3>3
    <3> QED
      BY <3>2, <3>3, <3>4 DEF Holds
  <2> QED
    BY <2>4, <2>5
<1> QED
  BY <1>3, <1>4

(* ... or something else does, and stays last.                              *)
LEMMA RemovesBefore ==
    ASSUME NEW s \in Seq(Messages), NEW t \in Seq(Messages), NEW h \in Messages,
           NEW e \in Messages, e # h, Removes(s, h, t)
    PROVE  Removes(Append(s, e), h, Append(t, e))
<1> SUFFICES ASSUME NEW u \in Seq(Messages), NEW v \in Seq(Messages),
                    Append(s, e) = (u \o <<h>>) \o v
             PROVE  Append(t, e) = u \o v
  BY DEF Removes
<1>1. <<h>> \in Seq(Messages)
  OBVIOUS
<1>2. u \o <<h>> \in Seq(Messages) /\ u \o <<h>> = Append(u, h)
  BY <1>1, ConcatProperties, AppendIsConcat
<1>3. CASE v = <<>>
  <2>1. Append(s, e) = Append(u, h)
    BY <1>2, <1>3, ConcatEmptySeq
  <2> QED
    BY <2>1, AppendInjective
<1>4. CASE v # <<>>
  <2>1. PICK w \in Seq(Messages), x \in Messages : v = Append(w, x)
    BY <1>4, SequenceEmptyOrAppend
  <2> DEFINE r == (u \o <<h>>) \o w
  <2>2. r \in Seq(Messages)
    BY <1>2, ConcatProperties
  <2>3. (u \o <<h>>) \o v = Append(r, x) /\ u \o v = Append(u \o w, x)
    BY <1>2, <2>1, ConcatAppend
  <2>4. s = r /\ e = x
    <3>1. Append(s, e) = Append(r, x)
      BY <2>3
    <3> HIDE DEF r
    <3> QED
      BY <2>2, <3>1, AppendInjective
  <2>5. t = u \o w
    BY <2>4 DEF Removes
  <2> QED
    BY <2>3, <2>4, <2>5
<1> QED
  BY <1>3, <1>4

(* To drop one message more of a sequence without repetitions takes it out  *)
(* of what is kept and leaves the rest in place.                            *)
LEMMA WithoutRemoves ==
    ASSUME NEW s \in Seq(Messages), Once(s), NEW R, NEW h \in Messages
    PROVE  Removes(Without(s, R), h, Without(s, R \cup {h}))
<1> DEFINE T == {t \in Seq(Messages) :
                   Once(t) => Removes(Without(t, R), h, Without(t, R \cup {h}))}
<1>1. <<>> \in T
  <2>1. <<>> \in Seq(Messages)
    BY EmptySeq
  <2>2. ASSUME NEW u \in Seq(Messages), NEW v \in Seq(Messages)
        PROVE  <<>> # (u \o <<h>>) \o v
    <3>1. <<h>> \in Seq(Messages) /\ Len(<<h>>) = 1 /\ Len(u) \in Nat /\ Len(v) \in Nat
      BY LenProperties
    <3>2. u \o <<h>> \in Seq(Messages) /\ Len(u \o <<h>>) = Len(u) + 1
      BY <3>1, ConcatProperties
    <3>3. Len((u \o <<h>>) \o v) = (Len(u) + 1) + Len(v)
      BY <3>2, ConcatProperties
    <3> QED
      BY <3>1, <3>3, EmptySeq
  <2> QED
    BY <2>1, <2>2, WithoutEmpty DEF Removes
<1>2. ASSUME NEW t \in T, NEW e \in Messages PROVE Append(t, e) \in T
  <2>1. t \in Seq(Messages) /\ Append(t, e) \in Seq(Messages)
    BY AppendProperties
  <2> SUFFICES ASSUME Once(Append(t, e))
               PROVE  Removes(Without(Append(t, e), R), h, Without(Append(t, e), R \cup {h}))
    BY <2>1
  <2>2. Once(t) /\ ~Holds(t, e)
    BY <2>1, OnceAppend
  <2>3. Removes(Without(t, R), h, Without(t, R \cup {h}))
    BY <2>2
  <2> HIDE DEF T
  <2>4. /\ Without(Append(t, e), R) =
             IF e \in R THEN Without(t, R) ELSE Append(Without(t, R), e)
        /\ Without(Append(t, e), R \cup {h}) =
             IF e \in R \cup {h} THEN Without(t, R \cup {h})
             ELSE Append(Without(t, R \cup {h}), e)
    BY <2>1, WithoutAppend
  <2>5. Without(t, R) \in Seq(Messages) /\ Without(t, R \cup {h}) \in Seq(Messages)
    BY <2>1, WithoutType
  <2>6. CASE e \in R
    BY <2>3, <2>4, <2>6
  <2>7. CASE e \notin R /\ e = h
    <3>1. ~Holds(Without(t, R), h) /\ Without(t, R \cup {h}) = Without(t, R)
      BY <2>1, <2>2, <2>7, WithoutMissing
    <3> QED
      BY <2>4, <2>5, <2>7, <3>1, RemovesLast
  <2>8. CASE e \notin R /\ e # h
    BY <2>3, <2>4, <2>5, <2>8, RemovesBefore
  <2> QED
    BY <2>6, <2>7, <2>8
<1>3. T = Seq(Messages)
  <2>1. T \in SUBSET Seq(Messages)
    OBVIOUS
  <2> HIDE DEF T
  <2> QED
    BY <1>1, <1>2, <2>1, SeqInduction
<1>4. s \in T
  BY <1>3
<1> QED
  BY <1>4

-----------------------------------------------------------------------------
(* The inductive invariant *)

Using(a) == pc[a] \notin {"idle", "select", "exited", "done"}

(* pc of run and of a call of Flush *)
PlacesOK ==
    /\ pc[Runner] \notin {"idle", "done"}
    /\ \A f \in Flushers : pc[f] \in {"idle", "flushing", "clearing", "reporting", "done"}

(* run holds a message exactly while it is going to try it again. *)
HandOK ==
    /\ hand # NoMessage <=> after = "retrying"
    /\ pc[Runner] = "retrying" => after = "retrying"
    /\ pc[Runner] \in {"select", "rejecting"} => after = "select"
    /\ pc[Runner] = "exited" => after = "exited"

(* Until goroutines race, one at a time uses the batch. *)
OneAtATime == ~raced => \A a, b \in Actors : Using(a) /\ Using(b) => a = b

(* No message is accepted twice. *)
AcceptedOnce == Once(accepted)

(* What is queued, in hand or refused was accepted.                         *)
FromSend ==
    /\ \A i \in 1..Len(sendCh) : Holds(accepted, sendCh[i])
    /\ hand # NoMessage => Holds(accepted, hand)
    /\ \A m \in rejected : Holds(accepted, m)

(* After a flush that made room for the message in hand, the batch is empty *)
(* unless the flush failed.                                                 *)
MadeRoom ==
    pc[Runner] \in {"reporting", "retrying"} /\ after = "retrying" => stuck \/ batch = <<>>

IInv ==
    /\ TypeOK
    /\ PlacesOK
    /\ HandOK
    /\ OneAtATime
    /\ AcceptedOnce
    /\ FromSend
    /\ MadeRoom
    /\ FlowIsConserved

-----------------------------------------------------------------------------
(* Types *)

USE DEF Actors

(* The producer as NewBatchProducer makes it has the right types.           *)
LEMMA TypeInit == Init => TypeOK
<1> SUFFICES ASSUME Init PROVE TypeOK
  OBVIOUS
<1> USE DEF Init
<1>1. <<>> \in Seq(Messages) /\ Len(<<>>) = 0 /\ 0 <= BatchSize /\ 0 <= 2 * BatchSize
  BY BatchAssumption, EmptySeq
<1>2. sendCh \in Seq(Messages) /\ Len(sendCh) <= 2 * BatchSize
  BY <1>1
<1>3. batch \in Seq(Messages) /\ Len(batch) <= BatchSize
  BY <1>1
<1>4. accepted \in Seq(Messages) /\ acked \in Seq(Messages)
  BY <1>1
<1>5. pc \in [Actors -> {"idle", "select", "retrying", "rejecting", "flushing",
                         "clearing", "reporting", "exited", "done"}]
  OBVIOUS
<1>6. /\ hand \in Messages \cup {NoMessage} /\ after \in {"select", "retrying", "exited"}
      /\ errCh \in 0..1 /\ closeCall \in {"none", "waiting", "returned"}
      /\ beforeClose \in Nat
  OBVIOUS
<1>7. /\ rejected \subseteq Messages /\ doubted \subseteq Messages
      /\ stuck \in BOOLEAN /\ raced \in BOOLEAN
  OBVIOUS
<1> QED
  BY <1>2, <1>3, <1>4, <1>5, <1>6, <1>7 DEF TypeOK

(* The batch never gets longer than BatchSize. *)
LEMMA TypeJoin ==
    ASSUME TypeOK, NEW m \in Messages, NEW from, Fits(batch, m), Join(m, from)
    PROVE  /\ batch' \in Seq(Messages) /\ Len(batch') <= BatchSize
           /\ batch' = Append(batch, m)
           /\ hand' = NoMessage /\ after' = "select"
           /\ pc[Runner] = from
           /\ pc' = [pc EXCEPT ![Runner] = IF IsFull(batch') THEN "flushing" ELSE "select"]
           /\ pc' \in [Actors -> {"idle", "select", "retrying", "rejecting", "flushing",
                                  "clearing", "reporting", "exited", "done"}]
<1>1. batch \in Seq(Messages) /\ Len(batch) \in Nat /\ Len(batch) < BatchSize
  BY LenProperties DEF TypeOK, Fits
<1>2. batch' = Append(batch, m) /\ hand' = NoMessage /\ after' = "select"
  BY DEF Join
<1>3. batch' \in Seq(Messages) /\ Len(batch') = Len(batch) + 1
  BY <1>1, <1>2, AppendProperties
<1>4. /\ pc[Runner] = from
      /\ pc' = [pc EXCEPT ![Runner] = IF IsFull(batch') THEN "flushing" ELSE "select"]
  BY DEF Join, Goto
<1>5. pc' \in [Actors -> {"idle", "select", "retrying", "rejecting", "flushing",
                          "clearing", "reporting", "exited", "done"}]
  BY <1>4 DEF TypeOK
<1> QED
  BY <1>1, <1>2, <1>3, <1>4, <1>5, BatchAssumption

(* Every step keeps the types; batch and channel stay within their bounds.  *)
LEMMA TypeStep == TypeOK /\ HandOK /\ [Next]_vars => TypeOK'
<1> SUFFICES ASSUME TypeOK, HandOK, [Next]_vars PROVE TypeOK'
  OBVIOUS
<1> USE DEF TypeOK
<1>0. /\ Len(sendCh) \in Nat /\ Len(batch) \in Nat /\ Len(accepted) \in Nat
      /\ sendCh # <<>> => /\ Head(sendCh) \in Messages /\ Tail(sendCh) \in Seq(Messages)
                          /\ Len(Tail(sendCh)) <= 2 * BatchSize
  <2>1. Len(sendCh) \in Nat /\ Len(batch) \in Nat /\ Len(accepted) \in Nat
    BY LenProperties
  <2>2. sendCh # <<>> => /\ Head(sendCh) \in Messages /\ Tail(sendCh) \in Seq(Messages)
                         /\ Len(Tail(sendCh)) = Len(sendCh) - 1
    BY HeadTailProperties
  <2> QED
    BY <2>1, <2>2, BatchAssumption
<1>1. ASSUME NEW m \in Messages, Send(m) PROVE TypeOK'
  <2>1. Append(sendCh, m) \in Seq(Messages) /\ Len(Append(sendCh, m)) = Len(sendCh) + 1
    BY AppendProperties
  <2>2. Append(accepted, m) \in Seq(Messages)
    BY AppendProperties
  <2> QED
    BY <1>0, <1>1, <2>1, <2>2, BatchAssumption DEF Send, runVars
<1>2. CASE ReadError
  BY <1>2 DEF ReadError, runVars, historyVars
<1>3. CASE Close
  BY <1>0, <1>3 DEF Close, chanVars, runVars
<1>4. CASE CloseReturns
  BY <1>4 DEF CloseReturns, chanVars, runVars, historyVars
<1>5. ASSUME NEW f \in Flushers, Flush(f) PROVE TypeOK'
  BY <1>5 DEF Flush, Goto, chanVars, runVars
<1>6. CASE ReceiveFit
  BY <1>0, <1>6, TypeJoin DEF ReceiveFit, NoteRace
<1>7. CASE ReceiveUnfit
  BY <1>0, <1>7 DEF ReceiveUnfit, Goto, NoteRace
<1>8. CASE RetryFits
  <2>1. hand \in Messages
    BY <1>8 DEF RetryFits, HandOK
  <2> QED
    BY <1>8, <2>1, TypeJoin DEF RetryFits, chanVars, historyVars
<1>9. CASE RetryRefused
  <2>1. hand \in Messages
    BY <1>9 DEF RetryRefused, Goto, HandOK
  <2> QED
    BY <1>9, <2>1 DEF RetryRefused, Goto, chanVars
<1>10. CASE ReportRejected
  BY <1>10 DEF ReportRejected, Goto, runVars, historyVars
<1>11. CASE Tick
  BY <1>11 DEF Tick, Goto, NoteRace, chanVars
<1>12. CASE CloseSeen
  BY <1>12 DEF CloseSeen, Goto, NoteRace, chanVars
<1>13. ASSUME NEW a \in Actors, SendSucceeds(a) PROVE TypeOK'
  <2>1. acked \o batch \in Seq(Messages)
    BY ConcatProperties
  <2> QED
    BY <1>13, <2>1 DEF SendSucceeds, Goto, chanVars, runVars
<1>14. ASSUME NEW a \in Actors, SendFails(a) PROVE TypeOK'
  <2>1. Range(batch) \subseteq Messages
    BY ElementOfSeq, RangeEquality
  <2>2. doubted' \subseteq Messages
    BY <1>14, <2>1 DEF SendFails
  <2> QED
    BY <1>14, <2>2 DEF SendFails, Goto, chanVars, runVars
<1>15. ASSUME NEW a \in Actors, ReportFailure(a) PROVE TypeOK'
  BY <1>15 DEF ReportFailure, Goto, Resume, runVars, historyVars
<1>16. ASSUME NEW a \in Actors, Clear(a) PROVE TypeOK'
  <2>1. <<>> \in Seq(Messages) /\ Len(<<>>) = 0 /\ 0 <= BatchSize
    BY EmptySeq, BatchAssumption
  <2>2. batch' \in Seq(Messages) /\ Len(batch') <= BatchSize
    BY <1>16, <2>1 DEF Clear
  <2> QED
    BY <1>16, <2>2 DEF Clear, Goto, Resume, chanVars, runVars
<1>17. CASE UNCHANGED vars
  BY <1>17 DEF vars, chanVars, runVars, historyVars
<1> QED
  BY <1>1, <1>2, <1>3, <1>4, <1>5, <1>6, <1>7, <1>8, <1>9, <1>10, <1>11, <1>12,
     <1>13, <1>14, <1>15, <1>16, <1>17 DEF Next, Receive, RunStep, FlushStep

-----------------------------------------------------------------------------
(* Where the goroutines are *)

(* Every goroutine goes through its own places, run with what it holds.     *)
LEMMA PlacesStep == TypeOK /\ PlacesOK /\ HandOK /\ [Next]_vars => PlacesOK' /\ HandOK'
<1> SUFFICES ASSUME TypeOK, PlacesOK, HandOK, [Next]_vars PROVE PlacesOK' /\ HandOK'
  OBVIOUS
<1>0. /\ DOMAIN pc = Actors /\ pc = [a \in Actors |-> pc[a]]
      /\ Runner \in Actors /\ Runner \notin Flushers
      /\ sendCh # <<>> => Head(sendCh) \in Messages /\ Head(sendCh) # NoMessage
  <2>1. sendCh # <<>> => Head(sendCh) \in Messages
    BY HeadTailProperties DEF TypeOK
  <2> QED
    BY <2>1, BatchAssumption DEF TypeOK
<1> USE <1>0 DEF PlacesOK, HandOK, Goto
<1>1. ASSUME NEW m \in Messages, Send(m) PROVE PlacesOK' /\ HandOK'
  BY <1>1 DEF Send, runVars
<1>2. CASE ReadError
  BY <1>2 DEF ReadError, runVars
<1>3. CASE Close
  BY <1>3 DEF Close, runVars
<1>4. CASE CloseReturns
  BY <1>4 DEF CloseReturns, runVars
<1>5. ASSUME NEW f \in Flushers, Flush(f) PROVE PlacesOK' /\ HandOK'
  BY <1>5 DEF Flush, runVars
<1>6. CASE ReceiveFit
  BY <1>6 DEF ReceiveFit, Join
<1>7. CASE ReceiveUnfit
  BY <1>7 DEF ReceiveUnfit
<1>8. CASE RetryFits
  BY <1>8 DEF RetryFits, Join
<1>9. CASE RetryRefused
  BY <1>9 DEF RetryRefused
<1>10. CASE ReportRejected
  BY <1>10 DEF ReportRejected, runVars
<1>11. CASE Tick
  BY <1>11 DEF Tick
<1>12. CASE CloseSeen
  BY <1>12 DEF CloseSeen
<1>13. ASSUME NEW a \in Actors, SendSucceeds(a) PROVE PlacesOK' /\ HandOK'
  BY <1>13 DEF SendSucceeds, runVars
<1>14. ASSUME NEW a \in Actors, SendFails(a) PROVE PlacesOK' /\ HandOK'
  BY <1>14 DEF SendFails, runVars
<1>15. ASSUME NEW a \in Actors, ReportFailure(a) PROVE PlacesOK' /\ HandOK'
  BY <1>15 DEF ReportFailure, Resume, runVars, TypeOK
<1>16. ASSUME NEW a \in Actors, Clear(a) PROVE PlacesOK' /\ HandOK'
  BY <1>16 DEF Clear, Resume, runVars, TypeOK
<1>17. CASE UNCHANGED vars
  BY <1>17 DEF vars, runVars
<1> QED
  BY <1>1, <1>2, <1>3, <1>4, <1>5, <1>6, <1>7, <1>8, <1>9, <1>10, <1>11, <1>12,
     <1>13, <1>14, <1>15, <1>16, <1>17 DEF Next, Receive, RunStep, FlushStep

(* The goroutines that use the batch. *)
LEMMA OneStep == TypeOK /\ PlacesOK /\ OneAtATime /\ [Next]_vars => OneAtATime'
<1> SUFFICES ASSUME TypeOK, PlacesOK, OneAtATime, [Next]_vars, ~raced',
                    NEW a \in Actors, NEW b \in Actors, Using(a)', Using(b)'
             PROVE  a = b
  BY DEF OneAtATime
<1>0. /\ DOMAIN pc = Actors /\ Runner \in Actors /\ Runner \notin Flushers
      /\ \A f \in Actors : f \in Flushers \/ f = Runner
      /\ Flushers \subseteq Actors
  BY BatchAssumption DEF TypeOK
<1>1. CASE UNCHANGED <<pc, raced>>
  BY <1>1 DEF OneAtATime, Using
<1>2. ASSUME NEW f \in Flushers, Flush(f) PROVE a = b
  <2>1. /\ pc' = [pc EXCEPT ![f] = "flushing"]
        /\ pc[Runner] \in {"select", "exited"}
        /\ \A g \in Flushers \ {f} : pc[g] \in {"idle", "done"}
    BY <1>2 DEF Flush, Goto
  <2>2. \A g \in Actors : g # f => ~Using(g)'
    BY <1>0, <2>1 DEF Using
  <2> QED
    BY <2>2
<1>3. ASSUME pc[Runner] = "select", NoteRace, \A f \in Flushers : pc'[f] = pc[f] PROVE a = b
  <2>1. \A f \in Flushers : ~Using(f)'
    BY <1>3 DEF NoteRace, Using
  <2> QED
    BY <1>0, <2>1
<1>4. ASSUME NEW c \in Actors, Using(c), raced' = raced,
             \A d \in Actors \ {c} : pc'[d] = pc[d]
      PROVE  a = b
  <2>1. \A d \in Actors : d # c => ~Using(d)'
    BY <1>4 DEF OneAtATime, Using
  <2> QED
    BY <2>1
<1>5. ASSUME NEW m \in Messages, Send(m) PROVE a = b
  BY <1>1, <1>5 DEF Send
<1>6. ReadError \/ Close \/ CloseReturns \/ UNCHANGED vars => a = b
  BY <1>1 DEF ReadError, Close, CloseReturns, historyVars, vars
<1>7. CASE ReceiveFit
  BY <1>0, <1>3, <1>7 DEF ReceiveFit, Join, Goto
<1>8. CASE ReceiveUnfit \/ Tick \/ CloseSeen
  BY <1>0, <1>3, <1>8 DEF ReceiveUnfit, Tick, CloseSeen, Goto
<1>9. CASE RetryFits
  <2>1. Using(Runner) /\ raced' = raced /\ \A d \in Actors \ {Runner} : pc'[d] = pc[d]
    BY <1>0, <1>9 DEF RetryFits, Join, Goto, Using, historyVars
  <2> QED
    BY <1>0, <1>4, <2>1
<1>10. CASE RetryRefused
  <2>1. Using(Runner) /\ raced' = raced /\ \A d \in Actors \ {Runner} : pc'[d] = pc[d]
    BY <1>0, <1>10 DEF RetryRefused, Goto, Using
  <2> QED
    BY <1>0, <1>4, <2>1
<1>11. CASE ReportRejected
  <2>1. Using(Runner) /\ raced' = raced /\ \A d \in Actors \ {Runner} : pc'[d] = pc[d]
    BY <1>0, <1>11 DEF ReportRejected, Goto, Using, historyVars
  <2> QED
    BY <1>0, <1>4, <2>1
<1>12. ASSUME NEW c \in Actors, FlushStep(c) PROVE a = b
  <2>1. Using(c) /\ raced' = raced /\ \A d \in Actors \ {c} : pc'[d] = pc[d]
    BY <1>0, <1>12 DEF FlushStep, SendSucceeds, SendFails, ReportFailure, Clear, Goto,
                       Using, historyVars
  <2> QED
    BY <1>4, <2>1
<1> QED
  BY <1>2, <1>5, <1>6, <1>7, <1>8, <1>9, <1>10, <1>11, <1>12 DEF Next, Receive, RunStep

-----------------------------------------------------------------------------
(* What happens to a message *)

(* What a sequence holds are the members of its range.                      *)
LEMMA HoldsRange ==
    ASSUME NEW s \in Seq(Messages), NEW m
    PROVE  m \in Range(s) <=> Holds(s, m)
BY RangeEquality DEF Holds

(* A message is accepted once, and only an accepted one gets any further.   *)
LEMMA OnceStep ==
    TypeOK /\ HandOK /\ AcceptedOnce /\ FromSend /\ [Next]_vars => AcceptedOnce' /\ FromSend'
<1> SUFFICES ASSUME TypeOK, HandOK, AcceptedOnce, FromSend, [Next]_vars
             PROVE  AcceptedOnce' /\ FromSend'
  OBVIOUS
<1>0. sendCh # <<>> =>
        /\ Holds(accepted, Head(sendCh))
        /\ \A i \in 1..Len(Tail(sendCh)) : Holds(accepted, Tail(sendCh)[i])
  <2> SUFFICES ASSUME sendCh # <<>>
               PROVE  /\ Holds(accepted, Head(sendCh))
                      /\ \A i \in 1..Len(Tail(sendCh)) : Holds(accepted, Tail(sendCh)[i])
    OBVIOUS
  <2>1. sendCh \in Seq(Messages) /\ Len(sendCh) \in Nat \ {0}
    BY EmptySeq DEF TypeOK
  <2>2. /\ Len(Tail(sendCh)) = Len(sendCh) - 1
        /\ \A i \in 1..Len(Tail(sendCh)) : Tail(sendCh)[i] = sendCh[i+1]
    BY <2>1, HeadTailProperties
  <2>3. Head(sendCh) = sendCh[1] /\ 1 \in 1..Len(sendCh)
    BY <2>1
  <2>4. \A i \in 1..Len(Tail(sendCh)) : i + 1 \in 1..Len(sendCh)
    BY <2>1, <2>2
  <2> QED
    BY <2>2, <2>3, <2>4 DEF FromSend
<1>1. ASSUME NEW m \in Messages, Send(m) PROVE AcceptedOnce' /\ FromSend'
  <2>1. accepted \in Seq(Messages) /\ sendCh \in Seq(Messages)
    BY DEF TypeOK
  <2>2. ~Holds(accepted, m)
    BY <1>1, <2>1, HoldsRange DEF Send
  <2>3. accepted' = Append(accepted, m) /\ sendCh' = Append(sendCh, m)
        /\ hand' = hand /\ rejected' = rejected
    BY <1>1 DEF Send, runVars
  <2>4. AcceptedOnce'
    BY <2>1, <2>2, <2>3, OnceAppend DEF AcceptedOnce
  <2>5. \A x : Holds(accepted, x) \/ x = m => Holds(accepted', x)
    BY <2>1, <2>3, HoldsAppend
  <2>6. \A i \in 1..Len(sendCh') :
          (i \in 1..Len(sendCh) /\ sendCh'[i] = sendCh[i]) \/ sendCh'[i] = m
    <3>1. /\ Len(sendCh) \in Nat /\ Len(sendCh') = Len(sendCh) + 1
          /\ \A i \in 1..Len(sendCh) : sendCh'[i] = sendCh[i]
          /\ sendCh'[Len(sendCh) + 1] = m
      BY <2>1, <2>3, AppendProperties, LenProperties
    <3> QED
      BY <3>1
  <2> QED
    BY <2>3, <2>4, <2>5, <2>6 DEF FromSend
<1>2. CASE UNCHANGED <<accepted, sendCh, hand, rejected>>
  BY <1>2 DEF AcceptedOnce, FromSend, Once, Holds
<1>3. CASE ReceiveFit
  BY <1>0, <1>3 DEF ReceiveFit, Join, AcceptedOnce, FromSend, Once, Holds
<1>4. CASE ReceiveUnfit
  BY <1>0, <1>4 DEF ReceiveUnfit, AcceptedOnce, FromSend, Once, Holds
<1>5. CASE RetryFits
  BY <1>5 DEF RetryFits, Join, chanVars, historyVars, AcceptedOnce, FromSend, Once, Holds
<1>6. CASE RetryRefused
  <2>1. hand # NoMessage
    BY <1>6 DEF RetryRefused, Goto, HandOK
  <2> QED
    BY <1>6, <2>1 DEF RetryRefused, chanVars, AcceptedOnce, FromSend, Once, Holds
<1>7. ReadError \/ Close \/ CloseReturns \/ ReportRejected \/ Tick \/ CloseSeen
        => UNCHANGED <<accepted, sendCh, hand, rejected>>
  BY DEF ReadError, Close, CloseReturns, ReportRejected, Tick, CloseSeen,
         chanVars, runVars, historyVars
<1>8. ASSUME NEW f \in Flushers, Flush(f) PROVE UNCHANGED <<accepted, sendCh, hand, rejected>>
  BY <1>8 DEF Flush, chanVars, runVars
<1>9. ASSUME NEW a \in Actors, FlushStep(a) PROVE UNCHANGED <<accepted, sendCh, hand, rejected>>
  BY <1>9 DEF FlushStep, SendSucceeds, SendFails, ReportFailure, Clear, chanVars, runVars, historyVars
<1>10. UNCHANGED vars => UNCHANGED <<accepted, sendCh, hand, rejected>>
  BY DEF vars, chanVars, runVars, historyVars
<1> QED
  BY <1>1, <1>2, <1>3, <1>4, <1>5, <1>6, <1>7, <1>8, <1>9, <1>10 DEF Next, Receive, RunStep

(* A flush that succeeds on the way to a retry leaves the batch empty.      *)
LEMMA RoomStep ==
    TypeOK /\ PlacesOK /\ HandOK /\ MadeRoom /\ [Next]_vars => MadeRoom'
<1> SUFFICES ASSUME TypeOK, PlacesOK, HandOK, MadeRoom, [Next]_vars PROVE MadeRoom'
  OBVIOUS
<1>0. DOMAIN pc = Actors /\ Runner \in Actors /\ Runner \notin Flushers
  BY BatchAssumption DEF TypeOK
<1> USE <1>0 DEF PlacesOK, HandOK, Goto, MadeRoom
<1>1. ASSUME NEW m \in Messages, Send(m) PROVE MadeRoom'
  BY <1>1 DEF Send, runVars
<1>2. CASE ReadError \/ Close \/ CloseReturns
  BY <1>2 DEF ReadError, Close, CloseReturns, runVars, historyVars
<1>3. ASSUME NEW f \in Flushers, Flush(f) PROVE MadeRoom'
  BY <1>3 DEF Flush, runVars
<1>4. CASE ReceiveFit
  BY <1>4 DEF ReceiveFit, Join
<1>5. CASE ReceiveUnfit
  BY <1>5 DEF ReceiveUnfit
<1>6. CASE RetryFits
  BY <1>6 DEF RetryFits, Join
<1>7. CASE RetryRefused \/ ReportRejected
  BY <1>7 DEF RetryRefused, ReportRejected, runVars, historyVars
<1>8. CASE Tick \/ CloseSeen
  BY <1>8 DEF Tick, CloseSeen
<1>9. ASSUME NEW a \in Actors, SendSucceeds(a) PROVE MadeRoom'
  BY <1>9 DEF SendSucceeds, runVars
<1>10. ASSUME NEW a \in Actors, SendFails(a) PROVE MadeRoom'
  BY <1>10 DEF SendFails, runVars
<1>11. ASSUME NEW a \in Actors, ReportFailure(a) PROVE MadeRoom'
  BY <1>11 DEF ReportFailure, runVars, historyVars
<1>12. ASSUME NEW a \in Actors, Clear(a) PROVE MadeRoom'
  BY <1>12 DEF Clear, runVars
<1>13. CASE UNCHANGED vars
  BY <1>13 DEF vars, runVars, historyVars
<1> QED
  BY <1>1, <1>2, <1>3, <1>4, <1>5, <1>6, <1>7, <1>8, <1>9, <1>10, <1>11, <1>12, <1>13
     DEF Next, Receive, RunStep, FlushStep

-----------------------------------------------------------------------------
(* The flow of messages *)

(* A message that changes its place next to the border of two parts leaves  *)
(* the whole as it is.                                                      *)
LEMMA FlowMoves ==
    ASSUME NEW p \in Seq(Messages), NEW b \in Seq(Messages), NEW s \in Seq(Messages)
    PROVE  /\ p \o b \in Seq(Messages)
           /\ ((p \o b) \o <<>>) \o s = (p \o b) \o s
           /\ ((p \o <<>>) \o <<>>) \o s = p \o s
           /\ \A h \in Messages : ((p \o Append(b, h)) \o <<>>) \o s = ((p \o b) \o <<h>>) \o s
           /\ s # <<>> => ((p \o b) \o <<Head(s)>>) \o Tail(s) = (p \o b) \o s
<1>1. p \o b \in Seq(Messages) /\ (p \o b) \o <<>> = p \o b /\ p \o <<>> = p
  BY ConcatProperties, ConcatEmptySeq
<1>2. ASSUME NEW h \in Messages
      PROVE  ((p \o Append(b, h)) \o <<>>) \o s = ((p \o b) \o <<h>>) \o s
  <2>1. Append(b, h) \in Seq(Messages)
    BY AppendProperties
  <2>2. p \o Append(b, h) \in Seq(Messages)
    BY <2>1, ConcatProperties
  <2>3. (p \o Append(b, h)) \o <<>> = p \o Append(b, h)
    BY <2>2, ConcatEmptySeq
  <2>4. p \o Append(b, h) = Append(p \o b, h)
    BY ConcatAppend
  <2>5. Append(p \o b, h) = (p \o b) \o <<h>>
    BY <1>1, AppendIsConcat
  <2> QED
    BY <2>3, <2>4, <2>5
<1>3. ASSUME s # <<>> PROVE ((p \o b) \o <<Head(s)>>) \o Tail(s) = (p \o b) \o s
  <2>1. Head(s) \in Messages /\ Tail(s) \in Seq(Messages)
    BY <1>3, HeadTailProperties
  <2>2. <<Head(s)>> \in Seq(Messages)
    BY <2>1
  <2>3. s = <<Head(s)>> \o Tail(s)
    BY <1>3, <2>1
  <2> QED
    BY <1>1, <2>1, <2>2, <2>3, ConcatAssociative
<1> QED
  BY <1>1, <1>2, <1>3

(* Only what reaches or leaves the clearing of the batch changes Unsent.    *)
LEMMA UnsentSame ==
    ASSUME TypeOK, NEW a \in Actors, pc[a] # "clearing", NEW to, to # "clearing",
           pc' = [pc EXCEPT ![a] = to], batch' = batch
    PROVE  Unsent' = Unsent
<1>1. DOMAIN pc = Actors
  BY DEF TypeOK
<1>2. \A x \in Actors : pc'[x] = "clearing" <=> pc[x] = "clearing"
  BY <1>1
<1> QED
  BY <1>2 DEF Unsent

(* The parts a message can be in are sequences of messages.                 *)
LEMMA UnsentType == TypeOK => /\ Unsent \in Seq(Messages) /\ InHand \in Seq(Messages)
                              /\ acked \in Seq(Messages) /\ batch \in Seq(Messages)
                              /\ sendCh \in Seq(Messages) /\ accepted \in Seq(Messages)
                              /\ acked \o Unsent \in Seq(Messages)
<1> SUFFICES ASSUME TypeOK
             PROVE  /\ Unsent \in Seq(Messages) /\ InHand \in Seq(Messages)
                    /\ acked \o Unsent \in Seq(Messages)
  BY DEF TypeOK
<1>1. <<>> \in Seq(Messages) /\ acked \in Seq(Messages)
  BY EmptySeq DEF TypeOK
<1>2. Unsent \in Seq(Messages)
  BY <1>1 DEF Unsent, TypeOK
<1>3. InHand \in Seq(Messages)
  <2>1. CASE hand = NoMessage
    BY <1>1, <2>1 DEF InHand
  <2>2. CASE hand # NoMessage
    <3>1. hand \in Messages /\ InHand = <<hand>>
      BY <2>2 DEF InHand, TypeOK
    <3> QED
      BY <3>1
  <2> QED
    BY <2>1, <2>2
<1> QED
  BY <1>1, <1>2, <1>3, ConcatProperties

(* Whoever uses the batch alone is the only one that may be clearing it.    *)
LEMMA UnsentAlone ==
    ASSUME TypeOK, OneAtATime, ~raced, NEW a \in Actors, Using(a), pc[a] # "clearing"
    PROVE  Unsent = batch
<1>1. \A x \in Actors : pc[x] # "clearing"
  BY DEF OneAtATime, Using
<1> QED
  BY <1>1 DEF Unsent

(* What is in flight, and each step that moves it.                          *)
Flow == acked \o Unsent \o InHand \o sendCh

(* Send adds at the end of the flow what it adds to the accepted.           *)
LEMMA FlowSend ==
    ASSUME IInv, ~raced, NEW m \in Messages, Send(m)
    PROVE  Flow' = Without(accepted', rejected')
<1>1. TypeOK /\ FromSend /\ Flow = Without(accepted, rejected)
  BY DEF IInv, FlowIsConserved, Flow
<1>2. /\ acked' = acked /\ Unsent' = Unsent /\ InHand' = InHand /\ rejected' = rejected
      /\ sendCh' = Append(sendCh, m) /\ accepted' = Append(accepted, m)
  BY DEF Send, Unsent, InHand, runVars
<1>3. /\ acked \o Unsent \in Seq(Messages) /\ InHand \in Seq(Messages)
      /\ sendCh \in Seq(Messages) /\ accepted \in Seq(Messages)
  BY <1>1, UnsentType
<1>4. (acked \o Unsent) \o InHand \in Seq(Messages)
  BY <1>3, ConcatProperties
<1>5. Flow' = Append(Flow, m)
  BY <1>2, <1>3, <1>4, ConcatAppend DEF Flow
<1>6. m \notin rejected
  BY <1>1, <1>3, HoldsRange DEF FromSend, Send
<1>7. Without(accepted', rejected') = Append(Without(accepted, rejected), m)
  BY <1>2, <1>3, <1>6, WithoutAppend
<1> QED
  BY <1>1, <1>5, <1>7

(* run takes a message out of the channel, into the batch or in its hand.   *)
LEMMA FlowReceive ==
    ASSUME IInv, ~raced', ReceiveFit \/ ReceiveUnfit
    PROVE  Flow' = Without(accepted', rejected')
<1>1. TypeOK /\ HandOK /\ PlacesOK
  BY DEF IInv
<1>2. /\ pc[Runner] = "select" /\ sendCh # <<>> /\ sendCh' = Tail(sendCh) /\ NoteRace
      /\ UNCHANGED <<accepted, acked, rejected>>
  BY DEF ReceiveFit, ReceiveUnfit, Join, Goto
<1>3. ~raced /\ \A f \in Flushers : pc[f] \in {"idle", "done"}
  BY <1>2 DEF NoteRace
<1>4. Flow = Without(accepted, rejected)
  BY <1>3 DEF IInv, FlowIsConserved, Flow
<1>5. Unsent = batch /\ InHand = <<>>
  BY <1>1, <1>2, <1>3 DEF Unsent, InHand, HandOK
<1>6. Runner \in Actors /\ DOMAIN pc = Actors /\ Runner \notin Flushers
  BY <1>1, BatchAssumption DEF TypeOK
<1>7. \A x \in Actors : pc'[x] # "clearing"
  <2>1. PICK to \in {"flushing", "select", "retrying"} : pc' = [pc EXCEPT ![Runner] = to]
    BY DEF ReceiveFit, ReceiveUnfit, Join, Goto
  <2> QED
    BY <1>3, <1>6, <2>1
<1>8. Unsent' = batch'
  BY <1>7 DEF Unsent
<1>9. /\ acked \in Seq(Messages) /\ batch \in Seq(Messages) /\ sendCh \in Seq(Messages)
      /\ Head(sendCh) \in Messages /\ Head(sendCh) # NoMessage /\ Tail(sendCh) \in Seq(Messages)
  BY <1>1, <1>2, UnsentType, HeadTailProperties, BatchAssumption
<1>10. Flow = (acked \o batch) \o sendCh
  BY <1>5, <1>9, FlowMoves DEF Flow
<1>11. ((acked \o batch) \o <<Head(sendCh)>>) \o Tail(sendCh) = (acked \o batch) \o sendCh
  BY <1>2, <1>9, FlowMoves
<1>12. CASE ReceiveFit
  <2>1. batch' = Append(batch, Head(sendCh)) /\ InHand' = <<>>
    BY <1>12 DEF ReceiveFit, Join, InHand
  <2>2. Flow' = ((acked \o Append(batch, Head(sendCh))) \o <<>>) \o Tail(sendCh)
    BY <1>2, <1>8, <2>1 DEF Flow
  <2>3. Flow' = ((acked \o batch) \o <<Head(sendCh)>>) \o Tail(sendCh)
    BY <1>9, <2>2, FlowMoves
  <2> QED
    BY <1>2, <1>4, <1>10, <1>11, <2>3
<1>13. CASE ReceiveUnfit
  <2>1. batch' = batch /\ InHand' = <<Head(sendCh)>>
    BY <1>9, <1>13 DEF ReceiveUnfit, InHand
  <2>2. Flow' = ((acked \o batch) \o <<Head(sendCh)>>) \o Tail(sendCh)
    BY <1>2, <1>8, <2>1 DEF Flow
  <2> QED
    BY <1>2, <1>4, <1>10, <1>11, <2>2
<1> QED
  BY <1>12, <1>13

(* The message in hand goes into the batch, or out of the flow as refused.  *)
LEMMA FlowRetry ==
    ASSUME IInv, ~raced, RetryFits \/ RetryRefused
    PROVE  Flow' = Without(accepted', rejected')
<1>1. /\ TypeOK /\ HandOK /\ OneAtATime /\ AcceptedOnce
      /\ Flow = Without(accepted, rejected)
  BY DEF IInv, FlowIsConserved, Flow
<1>2. /\ pc[Runner] = "retrying" /\ hand' = NoMessage
      /\ UNCHANGED <<accepted, acked, sendCh>>
  BY DEF RetryFits, RetryRefused, Join, Goto, chanVars, historyVars
<1>3. hand # NoMessage /\ hand \in Messages
  BY <1>1, <1>2 DEF HandOK, TypeOK
<1>4. /\ acked \in Seq(Messages) /\ batch \in Seq(Messages) /\ sendCh \in Seq(Messages)
      /\ accepted \in Seq(Messages) /\ Runner \in Actors /\ DOMAIN pc = Actors
  BY <1>1, UnsentType DEF TypeOK
<1>5. Unsent = batch /\ \A x \in Actors : pc[x] # "clearing"
  BY <1>1, <1>2, <1>4, UnsentAlone DEF Using, OneAtATime
<1>6. InHand = <<hand>> /\ InHand' = <<>>
  BY <1>2, <1>3 DEF InHand
<1>7. \A x \in Actors : pc'[x] # "clearing"
  <2>1. PICK to \in {"flushing", "select", "rejecting"} : pc' = [pc EXCEPT ![Runner] = to]
    BY DEF RetryFits, RetryRefused, Join, Goto
  <2> QED
    BY <1>4, <1>5, <2>1
<1>8. Unsent' = batch'
  BY <1>7 DEF Unsent
<1>9. Flow = ((acked \o batch) \o <<hand>>) \o sendCh
  BY <1>5, <1>6 DEF Flow
<1>10. CASE RetryFits
  <2>1. batch' = Append(batch, hand) /\ rejected' = rejected
    BY <1>10 DEF RetryFits, Join, historyVars
  <2>2. Flow' = ((acked \o Append(batch, hand)) \o <<>>) \o sendCh
    BY <1>2, <1>6, <1>8, <2>1 DEF Flow
  <2>3. Flow' = ((acked \o batch) \o <<hand>>) \o sendCh
    BY <1>3, <1>4, <2>2, FlowMoves
  <2> QED
    BY <1>1, <1>2, <1>9, <2>1, <2>3
<1>11. CASE RetryRefused
  <2>1. batch' = batch /\ rejected' = rejected \cup {hand}
    BY <1>11 DEF RetryRefused
  <2>2. Flow' = ((acked \o batch) \o <<>>) \o sendCh
    BY <1>2, <1>6, <1>8, <2>1 DEF Flow
  <2>3. Flow' = (acked \o batch) \o sendCh /\ acked \o batch \in Seq(Messages)
    BY <1>4, <2>2, FlowMoves
  <2>4. Removes(Without(accepted, rejected), hand, Without(accepted, rejected \cup {hand}))
    BY <1>1, <1>3, <1>4, WithoutRemoves DEF AcceptedOnce
  <2>5. Without(accepted, rejected) = ((acked \o batch) \o <<hand>>) \o sendCh
    BY <1>1, <1>9
  <2>6. Without(accepted, rejected \cup {hand}) = (acked \o batch) \o sendCh
    BY <1>4, <2>3, <2>4, <2>5 DEF Removes
  <2> QED
    BY <1>2, <2>1, <2>3, <2>6
<1> QED
  BY <1>10, <1>11

(* A send that succeeded moves the batch over, and clearing it adds nothing. *)
LEMMA FlowFlush ==
    ASSUME IInv, ~raced, NEW a \in Actors, SendSucceeds(a) \/ Clear(a)
    PROVE  Flow' = Without(accepted', rejected')
<1>1. TypeOK /\ OneAtATime /\ Flow = Without(accepted, rejected)
  BY DEF IInv, FlowIsConserved, Flow
<1>2. UNCHANGED <<accepted, rejected, sendCh, hand>> /\ InHand' = InHand
  BY DEF SendSucceeds, Clear, chanVars, runVars, InHand
<1>3. DOMAIN pc = Actors
  BY <1>1 DEF TypeOK
<1>4. acked \o batch \in Seq(Messages) /\ acked \in Seq(Messages)
  BY <1>1, UnsentType, ConcatProperties
<1>5. CASE SendSucceeds(a)
  <2>1. pc[a] = "flushing" /\ pc' = [pc EXCEPT ![a] = "clearing"] /\ acked' = acked \o batch
    BY <1>5 DEF SendSucceeds, Goto
  <2>2. Unsent = batch
    BY <1>1, <2>1, UnsentAlone DEF Using
  <2>3. Unsent' = <<>>
    BY <1>3, <2>1 DEF Unsent
  <2>4. acked' \o Unsent' = acked \o Unsent
    BY <1>4, <2>1, <2>2, <2>3, ConcatEmptySeq
  <2> QED
    BY <1>1, <1>2, <2>4 DEF Flow
<1>6. CASE Clear(a)
  <2>1. pc[a] = "clearing" /\ batch' = <<>> /\ acked' = acked
    BY <1>6 DEF Clear, Goto
  <2>2. Unsent = <<>>
    BY <2>1 DEF Unsent
  <2>3. Unsent' = <<>>
    BY <2>1 DEF Unsent
  <2> QED
    BY <1>1, <1>2, <2>1, <2>2, <2>3 DEF Flow
<1> QED
  BY <1>5, <1>6

(* A step that moves no message leaves the flow alone.                      *)
LEMMA FlowRest ==
    ASSUME IInv, ~raced, UNCHANGED <<acked, batch, hand, sendCh, accepted, rejected>>,
           \/ UNCHANGED pc
           \/ \E a \in Actors, to \in {"select", "flushing", "reporting", "retrying", "exited", "done"} :
                pc[a] # "clearing" /\ pc' = [pc EXCEPT ![a] = to]
    PROVE  Flow' = Without(accepted', rejected')
<1>1. TypeOK /\ Flow = Without(accepted, rejected)
  BY DEF IInv, FlowIsConserved, Flow
<1>2. Unsent' = Unsent
  <2>1. CASE UNCHANGED pc
    BY <2>1 DEF Unsent
  <2>2. ASSUME NEW a \in Actors, NEW to \in {"select", "flushing", "reporting", "retrying", "exited", "done"},
               pc[a] # "clearing", pc' = [pc EXCEPT ![a] = to]
        PROVE  Unsent' = Unsent
    BY <1>1, <2>2, UnsentSame
  <2> QED
    BY <2>1, <2>2
<1>3. InHand' = InHand
  BY DEF InHand
<1>4. Flow' = Flow
  BY <1>2, <1>3 DEF Flow
<1> QED
  BY <1>1, <1>4

(* Every step conserves the flow, unless it is where the race begins.       *)
LEMMA FlowStep == IInv /\ [Next]_vars => FlowIsConserved'
<1> SUFFICES ASSUME IInv, [Next]_vars, ~raced' PROVE Flow' = Without(accepted', rejected')
  BY DEF FlowIsConserved, Flow
<1>0. TypeOK /\ PlacesOK /\ Runner \in Actors /\ DOMAIN pc = Actors /\ Flushers \subseteq Actors
  BY DEF IInv, TypeOK
<1> DEFINE Ends == {"select", "flushing", "reporting", "retrying", "exited", "done"}
           Same == UNCHANGED <<acked, batch, hand, sendCh, accepted, rejected>>
           Moves == \/ UNCHANGED pc
                    \/ \E a \in Actors, to \in Ends :
                         pc[a] # "clearing" /\ pc' = [pc EXCEPT ![a] = to]
<1>1. ASSUME Same, Moves, ~raced PROVE Flow' = Without(accepted', rejected')
  BY <1>1, FlowRest
<1>2. ASSUME NEW m \in Messages, Send(m) PROVE Flow' = Without(accepted', rejected')
  BY <1>2, FlowSend DEF Send
<1>3. CASE ReadError \/ Close \/ CloseReturns \/ UNCHANGED vars
  <2>1. Same /\ UNCHANGED pc /\ ~raced
    BY <1>3 DEF ReadError, Close, CloseReturns, chanVars, runVars, historyVars, vars
  <2> QED
    BY <1>1, <2>1
<1>4. ASSUME NEW f \in Flushers, Flush(f) PROVE Flow' = Without(accepted', rejected')
  <2>1. Same /\ ~raced /\ pc[f] # "clearing" /\ pc' = [pc EXCEPT ![f] = "flushing"]
    BY <1>4 DEF Flush, Goto, chanVars, runVars
  <2> QED
    BY <1>0, <1>1, <2>1
<1>5. CASE Receive
  BY <1>5, FlowReceive DEF Receive
<1>6. CASE RetryFits \/ RetryRefused
  BY <1>6, FlowRetry DEF RetryFits, RetryRefused, historyVars
<1>7. CASE ReportRejected
  <2>1. Same /\ ~raced /\ pc[Runner] # "clearing" /\ pc' = [pc EXCEPT ![Runner] = "select"]
    BY <1>7 DEF ReportRejected, Goto, runVars, historyVars
  <2> QED
    BY <1>0, <1>1, <2>1
<1>8. CASE Tick \/ CloseSeen
  <2>1. Same /\ ~raced /\ pc[Runner] # "clearing"
    BY <1>8 DEF Tick, CloseSeen, NoteRace, Goto, chanVars
  <2>2. \E to \in Ends : pc' = [pc EXCEPT ![Runner] = to]
    BY <1>8 DEF Tick, CloseSeen, Goto
  <2> QED
    BY <1>0, <1>1, <2>1, <2>2
<1>9. ASSUME NEW a \in Actors, SendSucceeds(a) \/ Clear(a)
      PROVE  Flow' = Without(accepted', rejected')
  <2>1. ~raced
    BY <1>9 DEF SendSucceeds, Clear
  <2> QED
    BY <1>9, <2>1, FlowFlush
<1>10. ASSUME NEW a \in Actors, SendFails(a) PROVE Flow' = Without(accepted', rejected')
  <2>1. Same /\ ~raced /\ pc[a] # "clearing" /\ pc' = [pc EXCEPT ![a] = "reporting"]
    BY <1>10 DEF SendFails, Goto, chanVars, runVars
  <2> QED
    BY <1>1, <2>1
<1>11. ASSUME NEW a \in Actors, ReportFailure(a) PROVE Flow' = Without(accepted', rejected')
  <2>1. Same /\ ~raced /\ pc[a] # "clearing" /\ pc' = [pc EXCEPT ![a] = Resume(a)]
    BY <1>11 DEF ReportFailure, Goto, runVars, historyVars
  <2>2. Resume(a) \in Ends
    BY <1>0 DEF Resume, TypeOK
  <2> QED
    BY <1>1, <2>1, <2>2
<1> QED
  BY <1>2, <1>3, <1>4, <1>5, <1>6, <1>7, <1>8, <1>9, <1>10, <1>11 DEF Next, RunStep, FlushStep

-----------------------------------------------------------------------------
(* Results *)

(* The invariant holds of a new producer.                                   *)
LEMMA InvInit == Init => IInv
<1> SUFFICES ASSUME Init PROVE IInv
  OBVIOUS
<1>1. TypeOK
  BY TypeInit
<1>2. PlacesOK /\ HandOK
  BY BatchAssumption DEF Init, PlacesOK, HandOK
<1>3. \A a \in Actors : ~Using(a) /\ pc[a] # "clearing"
  BY DEF Init, Using
<1>4. sendCh = <<>> /\ batch = <<>> /\ acked = <<>> /\ accepted = <<>> /\ rejected = {}
      /\ hand = NoMessage /\ Len(<<>>) = 0 /\ <<>> \in Seq(Messages)
  BY EmptySeq DEF Init
<1>5. AcceptedOnce /\ FromSend
  BY <1>4 DEF AcceptedOnce, Once, FromSend
<1>6. MadeRoom
  BY <1>4 DEF MadeRoom
<1>7. FlowIsConserved
  <2>1. Unsent = <<>> /\ InHand = <<>>
    BY <1>4 DEF Unsent, InHand
  <2>2. ((<<>> \o <<>>) \o <<>>) \o <<>> = <<>>
    BY <1>4, ConcatEmptySeq
  <2>3. Without(accepted, rejected) = <<>>
    BY <1>4, WithoutEmpty
  <2> QED
    BY <1>4, <2>1, <2>2, <2>3 DEF FlowIsConserved
<1> QED
  BY <1>1, <1>2, <1>3, <1>5, <1>6, <1>7 DEF IInv, OneAtATime

(* Every step keeps the invariant.                                          *)
LEMMA InvStep == IInv /\ [Next]_vars => IInv'
<1> SUFFICES ASSUME IInv, [Next]_vars PROVE IInv'
  OBVIOUS
<1>1. TypeOK'
  BY TypeStep DEF IInv
<1>2. PlacesOK' /\ HandOK'
  BY PlacesStep DEF IInv
<1>3. OneAtATime'
  BY OneStep DEF IInv
<1>4. AcceptedOnce' /\ FromSend'
  BY OnceStep DEF IInv
<1>5. MadeRoom'
  BY RoomStep DEF IInv
<1>6. FlowIsConserved'
  BY FlowStep
<1> QED
  BY <1>1, <1>2, <1>3, <1>4, <1>5, <1>6 DEF IInv

(* The invariant holds in every reachable state.                            *)
LEMMA Invariance == Spec => []IInv
<1>1. Init => IInv
  BY InvInit
<1>2. IInv /\ [Next]_vars => IInv'
  BY InvStep
<1> QED
  BY <1>1, <1>2, PTL DEF Spec

(* The batch never gets longer than BatchSize, nor the channel than twice   *)
(* that, whatever is accepted, refused, sent or left behind by a flush.     *)
THEOREM BatchTypeCorrect == Spec => []TypeOK
<1>1. IInv => TypeOK
  BY DEF IInv
<1> QED
  BY <1>1, Invariance, PTL

(* For any messages, sizes and number of Flush calls: what was sent, the    *)
(* batch, the message in hand and the queue are together what Send          *)
(* accepted, in that order, less what was refused, as long as one goroutine *)
(* at a time uses the batch.                                                *)
THEOREM BatchFlowConserved == Spec => []FlowIsConserved
<1>1. IInv => FlowIsConserved
  BY DEF IInv
<1> QED
  BY <1>1, Invariance, PTL

(* What a failed send may have stored is in the batch, and nobody is about  *)
(* to clear that.                                                           *)
DoubtedHeld ==
    ~raced => /\ \A m \in doubted : Holds(batch, m)
              /\ \A a \in Actors : pc[a] = "clearing" => doubted = {}

(* Only a send that was confirmed takes messages out of doubt. *)
LEMMA DoubtStep == IInv /\ DoubtedHeld /\ [Next]_vars => DoubtedHeld'
<1> SUFFICES ASSUME IInv, DoubtedHeld, [Next]_vars, ~raced'
             PROVE  /\ \A m \in doubted' : Holds(batch', m)
                    /\ \A a \in Actors : pc'[a] = "clearing" => doubted' = {}
  BY DEF DoubtedHeld
<1> DEFINE Goal == /\ \A m \in doubted' : Holds(batch', m)
                   /\ \A a \in Actors : pc'[a] = "clearing" => doubted' = {}
<1>0. /\ TypeOK /\ HandOK /\ OneAtATime /\ DOMAIN pc = Actors /\ Runner \in Actors
      /\ Flushers \subseteq Actors /\ batch \in Seq(Messages)
  BY DEF IInv, TypeOK
<1>1. ASSUME ~raced, UNCHANGED <<batch, doubted>>,
             \A a \in Actors : pc'[a] = "clearing" => pc[a] = "clearing"
      PROVE  Goal
  BY <1>1 DEF DoubtedHeld
<1>2. ASSUME ~raced, NEW m \in Messages, batch' = Append(batch, m), UNCHANGED doubted,
             \A a \in Actors : pc'[a] = "clearing" => pc[a] = "clearing"
      PROVE  Goal
  <2>1. \A x : Holds(batch, x) => Holds(batch', x)
    BY <1>0, <1>2, HoldsAppend
  <2> QED
    BY <1>2, <2>1 DEF DoubtedHeld
<1>3. ASSUME NEW m \in Messages, Send(m) PROVE Goal
  BY <1>1, <1>3 DEF Send
<1>4. CASE ReadError \/ Close \/ CloseReturns \/ UNCHANGED vars
  BY <1>1, <1>4 DEF ReadError, Close, CloseReturns, historyVars, vars
<1>5. ASSUME NEW f \in Flushers, Flush(f) PROVE Goal
  BY <1>0, <1>1, <1>5 DEF Flush, Goto
<1>6. CASE ReceiveFit
  <2>1. Head(sendCh) \in Messages
    BY <1>0, <1>6, HeadTailProperties DEF ReceiveFit, TypeOK
  <2>2. /\ ~raced /\ batch' = Append(batch, Head(sendCh)) /\ UNCHANGED doubted
        /\ \A a \in Actors : pc'[a] = "clearing" => pc[a] = "clearing"
    BY <1>0, <1>6 DEF ReceiveFit, Join, Goto, NoteRace
  <2> QED
    BY <1>2, <2>1, <2>2
<1>7. CASE ReceiveUnfit \/ Tick \/ CloseSeen
  <2>1. /\ ~raced /\ UNCHANGED <<batch, doubted>>
        /\ \A a \in Actors : pc'[a] = "clearing" => pc[a] = "clearing"
    BY <1>0, <1>7 DEF ReceiveUnfit, Tick, CloseSeen, Goto, NoteRace
  <2> QED
    BY <1>1, <2>1
<1>8. CASE RetryFits
  <2>1. hand \in Messages
    BY <1>0, <1>8 DEF RetryFits, HandOK, TypeOK
  <2>2. /\ ~raced /\ batch' = Append(batch, hand) /\ UNCHANGED doubted
        /\ \A a \in Actors : pc'[a] = "clearing" => pc[a] = "clearing"
    BY <1>0, <1>8 DEF RetryFits, Join, Goto, historyVars
  <2> QED
    BY <1>2, <2>1, <2>2
<1>9. CASE RetryRefused \/ ReportRejected
  <2>1. /\ ~raced /\ UNCHANGED <<batch, doubted>>
        /\ \A a \in Actors : pc'[a] = "clearing" => pc[a] = "clearing"
    BY <1>0, <1>9 DEF RetryRefused, ReportRejected, Goto, historyVars
  <2> QED
    BY <1>1, <2>1
<1>10. ASSUME NEW a \in Actors, SendSucceeds(a) PROVE Goal
  <2>1. ~raced /\ doubted' = doubted \ Range(batch)
    BY <1>10 DEF SendSucceeds
  <2>2. \A m \in doubted : m \in Range(batch)
    BY <1>0, <2>1, HoldsRange DEF DoubtedHeld
  <2> QED
    BY <2>1, <2>2
<1>11. ASSUME NEW a \in Actors, SendFails(a) PROVE Goal
  <2>1. /\ ~raced /\ batch' = batch /\ pc[a] = "flushing"
        /\ \A b \in Actors : pc'[b] = "clearing" => pc[b] = "clearing"
        /\ \A m \in doubted' : m \in doubted \/ m \in Range(batch)
    BY <1>0, <1>11 DEF SendFails, Goto
  <2>2. \A b \in Actors : pc[b] # "clearing"
    BY <1>0, <2>1 DEF OneAtATime, Using
  <2>3. \A m \in doubted' : Holds(batch, m)
    BY <1>0, <2>1, HoldsRange DEF DoubtedHeld
  <2> QED
    BY <2>1, <2>2, <2>3
<1>12. ASSUME NEW a \in Actors, ReportFailure(a) PROVE Goal
  <2>1. /\ ~raced /\ UNCHANGED <<batch, doubted>>
        /\ \A b \in Actors : pc'[b] = "clearing" => pc[b] = "clearing"
    BY <1>0, <1>12 DEF ReportFailure, Goto, Resume, historyVars, TypeOK
  <2> QED
    BY <1>1, <2>1
<1>13. ASSUME NEW a \in Actors, Clear(a) PROVE Goal
  <2>1. doubted' = doubted /\ doubted = {}
    BY <1>13 DEF Clear, Goto, DoubtedHeld
  <2> QED
    BY <2>1
<1> QED
  BY <1>3, <1>4, <1>5, <1>6, <1>7, <1>8, <1>9, <1>10, <1>11, <1>12, <1>13
     DEF Next, Receive, RunStep, FlushStep

(* What follows in a sequence without repetitions is not what begins it.    *)
LEMMA ConcatParts ==
    ASSUME NEW p \in Seq(Messages), NEW q \in Seq(Messages)
    PROVE  /\ \A m : Holds(q, m) => Holds(p \o q, m)
           /\ Once(p \o q) => \A m : ~(Holds(p, m) /\ Holds(q, m))
<1>1. /\ Len(p) \in Nat /\ Len(q) \in Nat /\ Len(p \o q) = Len(p) + Len(q)
      /\ \A i \in 1..Len(p) : (p \o q)[i] = p[i]
  BY ConcatProperties, LenProperties
<1>2. \A j \in 1..Len(q) : (p \o q)[Len(p) + j] = q[j]
  <2> SUFFICES ASSUME NEW j \in 1..Len(q) PROVE (p \o q)[Len(p) + j] = q[j]
    OBVIOUS
  <2> DEFINE k == Len(p) + j
  <2>1. k \in 1..(Len(p) + Len(q)) /\ ~(k <= Len(p)) /\ k - Len(p) = j
    BY <1>1
  <2> HIDE DEF k
  <2>2. (p \o q)[k] = q[k - Len(p)]
    BY <1>1, <2>1, ConcatProperties
  <2> QED
    BY <2>1, <2>2 DEF k
<1>3. ASSUME NEW j \in 1..Len(q)
      PROVE  Len(p) + j \in 1..Len(p \o q) /\ \A i \in 1..Len(p) : i # Len(p) + j
  BY <1>1
<1>4. \A i \in 1..Len(p) : i \in 1..Len(p \o q)
  BY <1>1
<1> QED
  BY <1>1, <1>2, <1>3, <1>4 DEF Holds, Once

(* Sends are repeated only after an error, and until they are confirmed: a  *)
(* SendSync that failed with the batch on the broker is made again, one     *)
(* that succeeded is not, and what the broker may hold is not reported as   *)
(* refused, as long as one goroutine at a time uses the batch.              *)
THEOREM BatchSendsUntilAcked == Spec => []SentUntilAcked
<1>1. IInv /\ DoubtedHeld => SentUntilAcked
  <2> SUFFICES ASSUME IInv, DoubtedHeld, ~raced
               PROVE  /\ doubted \subseteq Range(Unsent)
                      /\ Range(acked) \cap Range(Unsent) = {}
                      /\ rejected \cap (Range(acked) \cup doubted) = {}
    BY DEF SentUntilAcked
  <2>1. /\ acked \in Seq(Messages) /\ accepted \in Seq(Messages) /\ sendCh \in Seq(Messages)
        /\ Unsent \in Seq(Messages) /\ InHand \in Seq(Messages) /\ batch \in Seq(Messages)
    BY UnsentType DEF IInv, TypeOK
  <2>2. acked \o Unsent \in Seq(Messages) /\ acked \o Unsent \o InHand \in Seq(Messages)
    BY <2>1, ConcatProperties
  <2>3. acked \o Unsent \o InHand \o sendCh = Without(accepted, rejected)
    BY DEF IInv, FlowIsConserved
  <2> DEFINE rest == Without(accepted, rejected)
  <2>4. RemainsOf(rest, accepted, rejected) /\ Once(accepted)
    BY <2>1, WithoutRemains DEF IInv, AcceptedOnce
  <2>5. /\ \A m : Holds(acked \o Unsent \o InHand, m) => Holds(rest, m)
        /\ Once(rest) => Once(acked \o Unsent \o InHand)
    <3> DEFINE front == acked \o Unsent \o InHand
    <3>1. front \in Seq(Messages) /\ front \o sendCh = rest
      BY <2>2, <2>3
    <3> HIDE DEF front, rest
    <3>2. /\ \A m : Holds(front, m) => Holds(front \o sendCh, m)
          /\ Once(front \o sendCh) => Once(front)
      BY <2>1, <3>1, PrefixRemains
    <3>3. /\ \A m : Holds(front, m) => Holds(rest, m)
          /\ Once(rest) => Once(front)
      BY <3>1, <3>2, Zenon
    <3> QED
      BY <3>3 DEF front
  <2>6. /\ \A m : Holds(acked \o Unsent, m) => Holds(acked \o Unsent \o InHand, m)
        /\ Once(acked \o Unsent \o InHand) => Once(acked \o Unsent)
    BY <2>1, <2>2, PrefixRemains
  <2>7. /\ \A m : Holds(acked, m) => Holds(acked \o Unsent, m)
        /\ \A m : Holds(Unsent, m) => Holds(acked \o Unsent, m)
        /\ Once(acked \o Unsent) => \A m : ~(Holds(acked, m) /\ Holds(Unsent, m))
    BY <2>1, PrefixRemains, ConcatParts
  <2>8. /\ \A m : ~(Holds(acked, m) /\ Holds(Unsent, m))
        /\ \A m : Holds(acked, m) \/ Holds(Unsent, m) => m \notin rejected
    BY <2>4, <2>5, <2>6, <2>7 DEF RemainsOf
  <2>9. \A m \in doubted : Holds(Unsent, m)
    BY DEF DoubtedHeld, Unsent
  <2>10. \A m : /\ m \in Range(acked) <=> Holds(acked, m)
                /\ m \in Range(Unsent) <=> Holds(Unsent, m)
    BY <2>1, HoldsRange
  <2> QED
    BY <2>8, <2>9, <2>10
<1>2. Init => DoubtedHeld
  BY DEF Init, DoubtedHeld
<1>3. IInv /\ DoubtedHeld /\ [Next]_vars => DoubtedHeld'
  BY DoubtStep
<1> QED
  BY <1>1, <1>2, <1>3, Invariance, PTL DEF Spec

(* run refuses a message only if its body alone exceeds BatchBytes, or if a *)
(* flush failed and left the batch in its way, even when Flush races it.    *)
THEOREM RefusalsHaveReasons == Spec => RefusedForAReason
<1> DEFINE Reasons == \A m \in rejected' \ rejected : Body[m] > BatchBytes \/ stuck
<1>1. IInv /\ [Next]_vars => [Reasons]_vars
  <2> SUFFICES ASSUME IInv, [Next]_vars, NEW m \in rejected', m \notin rejected
               PROVE  Body[m] > BatchBytes \/ stuck
    OBVIOUS
  <2>1. RetryRefused
    <3>1. ASSUME NEW x \in Messages, Send(x) PROVE rejected' = rejected
      BY <3>1 DEF Send
    <3>2. ASSUME NEW f \in Flushers, Flush(f) PROVE rejected' = rejected
      BY <3>2 DEF Flush
    <3>3. ASSUME NEW a \in Actors, FlushStep(a) PROVE rejected' = rejected
      BY <3>3 DEF FlushStep, SendSucceeds, SendFails, ReportFailure, Clear, historyVars
    <3>4. ReadError \/ Close \/ CloseReturns \/ Receive \/ RetryFits \/ ReportRejected \/ Tick
            \/ CloseSeen \/ UNCHANGED vars => rejected' = rejected
      BY DEF ReadError, Close, CloseReturns, Receive, ReceiveFit, ReceiveUnfit, RetryFits,
             ReportRejected, Tick, CloseSeen, historyVars, vars
    <3> QED
      BY <3>1, <3>2, <3>3, <3>4 DEF Next, RunStep
  <2>2. m = hand /\ pc[Runner] = "retrying" /\ ~Fits(batch, hand)
    BY <2>1 DEF RetryRefused, Goto
  <2>3. stuck \/ batch = <<>>
    BY <2>2 DEF IInv, MadeRoom, HandOK
  <2>4. CASE batch = <<>>
    <3>1. hand \in Messages
      BY <2>2 DEF IInv, TypeOK, HandOK
    <3>2. Len(batch) = 0 /\ Bytes(batch) = 0
      BY <2>4, EmptySeq, BytesEmpty
    <3>3. Len(batch) < BatchSize /\ Body[hand] \in Nat /\ BatchBytes \in Nat
      BY <3>1, <3>2, BatchAssumption
    <3>4. ~(0 + Body[hand] <= BatchBytes)
      BY <2>2, <3>2, <3>3 DEF Fits
    <3> QED
      BY <2>2, <3>3, <3>4
  <2> QED
    BY <2>3, <2>4
<1> QED
  BY <1>1, Invariance, PTL DEF Spec, RefusedForAReason
=============================================================================
