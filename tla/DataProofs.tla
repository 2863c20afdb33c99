------------------------------ MODULE DataProofs ------------------------------
(***************************************************************************)
(* Proofs about what is stored: Migrate, the schema of a service, for any  *)
(* number of files and processes, and Payload, the data of a deployment,   *)
(* for fields of any length and words of any size.                         *)
(*                                                                         *)
(* The loops of Payload are recursive functions, and what they compute is  *)
(* shown without induction over an operator: a least counterexample is     *)
(* taken instead (LeastNatural).                                           *)
(***************************************************************************)
EXTENDS Migrate, Payload, FiniteSetTheorems, SequenceTheorems,
        WellFoundedInduction, TLAPS

-----------------------------------------------------------------------------
(* Migrate.                                                                *)

\* Every step keeps the types.  Loading the types apart keeps them out of the
\* way of the arguments about the files.
LEMMA TypeStep == TypeOK /\ [MigrateNext]_migrateVars => TypeOK'
<1> SUFFICES ASSUME TypeOK, [MigrateNext]_migrateVars PROVE TypeOK'
  OBVIOUS
<1> USE MigrateAssumption DEF TypeOK
<1>1. CASE Release
  BY <1>1 DEF Release
<1>2. ASSUME NEW p \in Procs, Start(p) PROVE TypeOK'
  BY <1>2 DEF Start
<1>3. ASSUME NEW p \in Procs, Apply(p) PROVE TypeOK'
  <2>1. next[p] \in 1..N /\ next[p] + 1 \in 1..N + 1
    BY <1>3 DEF Apply
  <2>2. applied' \subseteq 1..N
    BY <1>3, <2>1 DEF Apply
  <2>3. next' \in [Procs -> 1..N + 1]
    BY <1>3, <2>1 DEF Apply
  <2> QED
    BY <1>3, <2>2, <2>3 DEF Apply
<1>4. ASSUME NEW p \in Procs, Conflict(p) \/ Fail(p) \/ Finish(p) PROVE TypeOK'
  BY <1>4 DEF Conflict, Fail, Finish, Serve
<1>5. ASSUME NEW p \in Procs, Stop(p) PROVE TypeOK'
  BY <1>5 DEF Stop
<1>6. CASE UNCHANGED migrateVars
  BY <1>6 DEF migrateVars
<1> QED
  BY <1>1, <1>2, <1>3, <1>4, <1>5, <1>6 DEF MigrateNext

\* Every step keeps the invariant of the loop.
LEMMA InvStep == IInv /\ [MigrateNext]_migrateVars => IInv'
<1> SUFFICES ASSUME IInv, [MigrateNext]_migrateVars PROVE IInv'
  OBVIOUS
<1>0. TypeOK /\ TypeOK'
  BY TypeStep DEF IInv
<1> USE MigrateAssumption, <1>0
<1>1. CASE Release
  BY <1>1 DEF Release, IInv, TypeOK, AppliedPrefix, CleanIsComplete
<1>2. ASSUME NEW p \in Procs, Start(p) PROVE IInv'
  BY <1>2 DEF Start, IInv, TypeOK, AppliedPrefix, CleanIsComplete
<1>3. ASSUME NEW p \in Procs, Apply(p) PROVE IInv'
  <2>1. 1..next[p] \subseteq applied'
    BY <1>3 DEF Apply, IInv, TypeOK
  <2>2. AppliedPrefix'
    BY <1>3, <2>1 DEF Apply, IInv, AppliedPrefix
  <2>3. ASSUME NEW q \in Procs
        PROVE /\ dir'[q] <= released'
              /\ pc'[q] = "migrating" =>
                   next'[q] <= dir'[q] + 1 /\ 1..next'[q] - 1 \subseteq applied'
    BY <1>3, <2>1 DEF Apply, IInv, TypeOK
  <2>4. CleanIsComplete'
    BY <1>3 DEF Apply, IInv, CleanIsComplete
  <2> QED
    BY <2>2, <2>3, <2>4 DEF IInv
<1>4. ASSUME NEW p \in Procs, Conflict(p) \/ Fail(p) PROVE IInv'
  BY <1>4 DEF Conflict, Fail, Serve, IInv, TypeOK, AppliedPrefix, CleanIsComplete
<1>5. ASSUME NEW p \in Procs, Finish(p) PROVE IInv'
  <2>1. 1..dir[p] \subseteq applied
    BY <1>5 DEF Finish, IInv, TypeOK
  <2> QED
    BY <1>5, <2>1 DEF Finish, Serve, IInv, TypeOK, AppliedPrefix, CleanIsComplete
<1>6. ASSUME NEW p \in Procs, Stop(p) PROVE IInv'
  BY <1>6 DEF Stop, IInv, TypeOK, AppliedPrefix, CleanIsComplete
<1>7. CASE UNCHANGED migrateVars
  BY <1>7 DEF migrateVars, IInv, TypeOK, AppliedPrefix, CleanIsComplete
<1> QED
  BY <1>1, <1>2, <1>3, <1>4, <1>5, <1>6, <1>7 DEF MigrateNext

\* What the loop knows holds in every reachable state.
THEOREM LoopInvariant == MigrateSpec => []IInv
<1>1. MigrateInit => IInv
  BY MigrateAssumption DEF MigrateInit, IInv, TypeOK, AppliedPrefix, CleanIsComplete
<1> QED
  BY <1>1, InvStep, PTL DEF MigrateSpec

\* However many processes migrate, fail and restart, no file is ever applied
\* before the files it builds on.
THEOREM FilesInOrder == MigrateSpec => []AppliedPrefix
<1>1. IInv => AppliedPrefix
  BY DEF IInv
<1> QED
  BY <1>1, LoopInvariant, PTL

\* "All migrations applied" is only ever reported over a complete schema.
THEOREM CleanStartComplete == MigrateSpec => []CleanIsComplete
<1>1. IInv => CleanIsComplete
  BY DEF IInv
<1> QED
  BY <1>1, LoopInvariant, PTL

-----------------------------------------------------------------------------
(* Loops.  The library's induction takes the predicate as a parameter,     *)
(* which the provers here cannot instantiate; WFMin takes a set.           *)

\* Every set of natural numbers has a least one.
LEMMA LeastNatural ==
  ASSUME NEW T \in SUBSET Nat, T # {}
  PROVE  \E x \in T : \A y \in T : x <= y
<1> DEFINE R == {ss \in Nat \X Nat : ss[1] < ss[2]}
<1>1. R = OpToRel(<, Nat)
  BY DEF OpToRel
<1>2. IsWellFoundedOn(R, Nat)
  BY <1>1, NatLessThanWellFounded
<1>3. \A x, y \in Nat : x < y => <<x, y>> \in R
  OBVIOUS
<1> HIDE DEF R
<1>4. PICK x \in T : \A y \in T : ~ (<<y, x>> \in R)
  BY <1>2, WFMin
<1>5. ASSUME NEW y \in T PROVE x <= y
  <2>1. x \in Nat /\ y \in Nat
    OBVIOUS
  <2>2. ~ (<<y, x>> \in R)
    BY <1>4
  <2>3. y < x => <<y, x>> \in R
    BY <2>1, <1>3
  <2> QED
    BY <2>1, <2>2, <2>3
<1> QED
  BY <1>5

\* A set of places of a list has a last one.
LEMMA LastPlace ==
  ASSUME NEW n \in Nat, NEW T \in SUBSET (1 .. n), T # {}
  PROVE  \E m \in T : \A j \in T : j <= m
<1> DEFINE U == {k \in Nat : \E i \in T : k = n - i}
<1>1. U \in SUBSET Nat /\ U # {}
  <2>1. PICK i \in T : TRUE
    OBVIOUS
  <2>2. n - i \in U
    BY <2>1
  <2> QED
    BY <2>2
<1>2. PICK x \in U : \A y \in U : x <= y
  <2> HIDE DEF U
  <2> QED
    BY <1>1, LeastNatural
<1>3. PICK m \in T : x = n - m
  BY <1>2
<1>4. ASSUME NEW j \in T PROVE j <= m
  <2>1. n - j \in U
    OBVIOUS
  <2>2. x <= n - j
    BY <1>2, <2>1
  <2> QED
    BY <1>3, <2>2
<1> QED
  BY <1>4

\* f has the values of a loop over the places 1 to n that begins with s0.
IsLoop(f, n, S, s0, step) ==
  /\ f \in [0 .. n -> S]
  /\ f[0] = s0
  /\ \A k \in 1 .. n : f[k] = step[k][f[k - 1]]

\* Every loop runs to its end.
LEMMA LoopRuns ==
  ASSUME NEW len \in Nat, NEW S, NEW s0 \in S, NEW step \in [1 .. len -> [S -> S]]
  PROVE  \E f : IsLoop(f, len, S, s0, step)
<1> DEFINE Runs(n) == \E f : IsLoop(f, n, S, s0, step)
           T == {n \in 0 .. len : ~ Runs(n)}
<1>1. SUFFICES ASSUME T # {} PROVE FALSE
  <2> HIDE DEF Runs
  <2>1. Runs(len)
    BY <1>1
  <2> QED
    BY <2>1 DEF Runs
<1>2. PICK n \in T : \A m \in T : n <= m
  <2>1. T \in SUBSET Nat
    OBVIOUS
  <2> HIDE DEF T
  <2> QED
    BY <1>1, <2>1, LeastNatural
<1>3. CASE n = 0
  <2> DEFINE g == [k \in 0 .. 0 |-> s0]
  <2>1. g \in [0 .. 0 -> S] /\ g[0] = s0 /\ \A k \in 1 .. 0 : g[k] = step[k][g[k - 1]]
    OBVIOUS
  <2>2. Runs(0)
    <3> HIDE DEF g
    <3> QED
      BY <2>1 DEF IsLoop
  <2> QED
    BY <1>2, <1>3, <2>2
<1>4. CASE n # 0
  <2>1. n \in 1 .. len /\ n - 1 \in 0 .. len /\ n - 1 \in Nat
    BY <1>4
  <2>2. n - 1 \notin T
    <3> HIDE DEF T
    <3> QED
      BY <2>1, <1>2
  <2>3. Runs(n - 1)
    <3> HIDE DEF Runs
    <3> QED
      BY <2>1, <2>2
  <2>4. PICK f : IsLoop(f, n - 1, S, s0, step)
    BY <2>3
  <2> USE <2>4 DEF IsLoop
  <2> DEFINE g == [k \in 0 .. n |-> IF k = n THEN step[n][f[n - 1]] ELSE f[k]]
  <2>5. f[n - 1] \in S
    BY <2>1
  <2>6. step[n] \in [S -> S]
    BY <2>1
  <2>7. step[n][f[n - 1]] \in S
    BY <2>5, <2>6
  <2>8. \A k \in 0 .. n : k # n => k \in 0 .. n - 1
    BY <2>1
  <2>9. g \in [0 .. n -> S]
    BY <2>7, <2>8
  <2>10. g[0] = s0
    BY <2>1, <2>4
  <2>11. ASSUME NEW k \in 1 .. n PROVE g[k] = step[k][g[k - 1]]
    <3>1. g[k - 1] = f[k - 1]
      BY <2>1
    <3>2. CASE k = n
      BY <3>1, <3>2, <2>1
    <3>3. CASE k # n
      <4>1. k \in 1 .. n - 1 /\ k \in 0 .. n
        BY <3>3, <2>1
      <4>2. g[k] = f[k]
        BY <3>3, <4>1
      <4> QED
        BY <3>1, <4>1, <4>2, <2>4
    <3> QED
      BY <3>2, <3>3
  <2>12. Runs(n)
    <3> HIDE DEF g
    <3> QED
      BY <2>9, <2>10, <2>11 DEF IsLoop
  <2> QED
    BY <2>12, <1>2
<1> QED
  BY <1>3, <1>4

\* Induction up to len, with a set in place of the predicate.
LEMMA SetInduction ==
  ASSUME NEW len \in Nat, NEW T, 0 \in T, \A k \in 1 .. len : k - 1 \in T => k \in T
  PROVE  0 .. len \subseteq T
<1> DEFINE U == {n \in 0 .. len : n \notin T}
<1>1. SUFFICES ASSUME U # {} PROVE FALSE
  BY <1>1
<1>2. PICK n \in U : \A m \in U : n <= m
  <2>1. U \in SUBSET Nat
    OBVIOUS
  <2> HIDE DEF U
  <2> QED
    BY <1>1, <2>1, LeastNatural
<1>3. n \in 1 .. len /\ n - 1 \in 0 .. len /\ n \notin T
  OBVIOUS
<1>4. n - 1 \notin U
  BY <1>2, <1>3
<1> QED
  BY <1>3, <1>4

-----------------------------------------------------------------------------
(* What the loops of Payload compute.                                      *)

\* HostFor is the host port of the last binding of the container port.
LEMMA HostForLast ==
  ASSUME NEW b, Len(b) \in Nat, NEW c, NEW d
  PROVE  /\ (\A i \in 1 .. Len(b) : b[i][2] # c) => HostFor(b, c, d) = d
         /\ \A m \in 1 .. Len(b) :
              b[m][2] = c /\ (\A j \in m + 1 .. Len(b) : b[j][2] # c)
                => HostFor(b, c, d) = b[m][1]
<1>1. PICK h : /\ HostFor(b, c, d) = h[Len(b)]
               /\ h[0] = d
               /\ \A n \in 1 .. Len(b) :
                    h[n] = IF b[n][2] = c THEN b[n][1] ELSE h[n - 1]
  <2> DEFINE S == {d} \union {b[i][1] : i \in 1 .. Len(b)}
             step == [n \in 1 .. Len(b) |->
                        [x \in S |-> IF b[n][2] = c THEN b[n][1] ELSE x]]
  <2>1. step \in [1 .. Len(b) -> [S -> S]] /\ d \in S
    OBVIOUS
  <2>2. PICK f : IsLoop(f, Len(b), S, d, step)
    <3> HIDE DEF step, S
    <3> QED
      BY <2>1, LoopRuns
  <2>3. ASSUME NEW n \in 1 .. Len(b)
        PROVE  f[n] = IF b[n][2] = c THEN b[n][1] ELSE f[n - 1]
    <3>1. f[n - 1] \in S
      <4> HIDE DEF S
      <4> QED
        BY <2>2 DEF IsLoop
    <3> QED
      BY <2>2, <3>1 DEF IsLoop
  <2> HIDE DEF S, step
  <2>4. f = [n \in 0 .. Len(b) |->
               IF n = 0 THEN d ELSE IF b[n][2] = c THEN b[n][1] ELSE f[n - 1]]
    BY <2>2, <2>3 DEF IsLoop
  <2> DEFINE host[n \in 0 .. Len(b)] ==
               IF n = 0 THEN d ELSE IF b[n][2] = c THEN b[n][1] ELSE host[n - 1]
  <2>5. host = [n \in 0 .. Len(b) |->
                  IF n = 0 THEN d ELSE IF b[n][2] = c THEN b[n][1] ELSE host[n - 1]]
    BY <2>4
  <2>6. HostFor(b, c, d) = host[Len(b)]
    BY DEF HostFor
  <2> HIDE DEF host
  <2>7. host[0] = d /\ \A n \in 1 .. Len(b) :
          host[n] = IF b[n][2] = c THEN b[n][1] ELSE host[n - 1]
    BY <2>5
  <2> QED
    BY <2>6, <2>7
<1>2. ASSUME \A i \in 1 .. Len(b) : b[i][2] # c PROVE HostFor(b, c, d) = d
  <2> DEFINE T == {n \in 0 .. Len(b) : h[n] = d}
  <2>1. 0 \in T
    BY <1>1
  <2>2. ASSUME NEW k \in 1 .. Len(b), k - 1 \in T PROVE k \in T
    BY <1>1, <1>2, <2>2
  <2>3. 0 .. Len(b) \subseteq T
    <3> HIDE DEF T
    <3> QED
      BY <2>1, <2>2, SetInduction
  <2> QED
    BY <1>1, <2>3
<1>3. ASSUME NEW m \in 1 .. Len(b), b[m][2] = c, \A j \in m + 1 .. Len(b) : b[j][2] # c
      PROVE  HostFor(b, c, d) = b[m][1]
  <2> DEFINE T == {n \in 0 .. Len(b) : n >= m => h[n] = b[m][1]}
  <2>1. 0 \in T
    OBVIOUS
  <2>2. ASSUME NEW k \in 1 .. Len(b), k - 1 \in T PROVE k \in T
    <3>1. CASE k < m
      BY <3>1
    <3>2. CASE k = m
      BY <1>1, <1>3, <3>2
    <3>3. CASE k > m
      <4>1. k \in m + 1 .. Len(b) /\ k - 1 >= m
        BY <3>3
      <4>2. h[k] = h[k - 1]
        BY <1>1, <1>3, <4>1
      <4> QED
        BY <2>2, <4>1, <4>2
    <3> QED
      BY <3>1, <3>2, <3>3
  <2>3. 0 .. Len(b) \subseteq T
    <3> HIDE DEF T
    <3> QED
      BY <2>1, <2>2, SetInduction
  <2> QED
    BY <1>1, <2>3
<1> QED
  BY <1>2, <1>3

\* The host port that counts, by the place of its binding.
LEMMA HostForPlace ==
  ASSUME NEW S, NEW b \in Seq(S), NEW c, NEW d
  PROVE  LET at == {i \in 1 .. Len(b) : b[i][2] = c}
         IN  IF at = {} THEN HostFor(b, c, d) = d
             ELSE \E m \in at : (\A j \in at : j <= m) /\ HostFor(b, c, d) = b[m][1]
<1> DEFINE at == {i \in 1 .. Len(b) : b[i][2] = c}
<1>0. Len(b) \in Nat
  OBVIOUS
<1>1. CASE at = {}
  <2>1. HostFor(b, c, d) = d
    BY <1>0, <1>1, HostForLast
  <2> QED
    BY <1>1, <2>1
<1>2. CASE at # {}
  <2>1. PICK m \in at : \A j \in at : j <= m
    <3>1. at \in SUBSET (1 .. Len(b))
      OBVIOUS
    <3> HIDE DEF at
    <3> QED
      BY <1>0, <1>2, <3>1, LastPlace
  <2>2. \A j \in m + 1 .. Len(b) : b[j][2] # c
    BY <1>0, <2>1
  <2>3. HostFor(b, c, d) = b[m][1]
    BY <1>0, <2>1, <2>2, HostForLast
  <2> QED
    BY <1>2, <2>1, <2>3
<1> QED
  BY <1>1, <1>2

\* A host port is one that was asked for, or the one to take otherwise.
LEMMA HostForType ==
  ASSUME NEW b \in Seq(Pairs), NEW c, NEW d \in Ports
  PROVE  HostFor(b, c, d) \in Ports
<1>1. \A i \in 1 .. Len(b) : b[i][1] \in Ports
  BY DEF Pairs
<1> QED
  BY <1>1, HostForPlace

\* Appending one element to a list.
LEMMA AppendOne ==
  ASSUME NEW S, NEW s \in Seq(S), NEW e \in S
  PROVE  /\ Append(s, e) \in Seq(S) /\ Len(Append(s, e)) = Len(s) + 1
         /\ \A i \in 1 .. Len(s) : Append(s, e)[i] = s[i]
         /\ Append(s, e)[Len(s) + 1] = e
OBVIOUS

\* NotBlank leaves no blank part, and leaves a list without one as it is.
LEMMA NotBlankKeeps ==
  ASSUME NEW P, NEW s \in Seq(P)
  PROVE  /\ NotBlank(s) \in Seq(P \ {Blank})
         /\ (\A i \in 1 .. Len(s) : s[i] # Blank) => NotBlank(s) = s
<1> DEFINE S == Seq(P \ {Blank})
           start == <<>>
           then(n, x) == IF s[n] = Blank THEN x ELSE Append(x, s[n])
           step == [n \in 1 .. Len(s) |-> [x \in S |-> then(n, x)]]
<1>0. Len(s) \in Nat /\ \A n \in 1 .. Len(s) : s[n] \in P
  OBVIOUS
<1>1. step \in [1 .. Len(s) -> [S -> S]] /\ start \in S
  <2>1. \A n \in 1 .. Len(s) : \A x \in S : then(n, x) \in S
    BY <1>0, AppendOne
  <2> HIDE DEF S, then
  <2>2. step \in [1 .. Len(s) -> [S -> S]]
    BY <2>1
  <2> QED
    BY <2>2 DEF S
<1>2. PICK f : IsLoop(f, Len(s), S, start, step)
  <2> HIDE DEF step, S, start
  <2> QED
    BY <1>0, <1>1, LoopRuns
<1> HIDE DEF S, start, then
<1>3. ASSUME NEW n \in 1 .. Len(s) PROVE f[n] = then(n, f[n - 1])
  <2>1. f[n - 1] \in S
    BY <1>0, <1>2 DEF IsLoop
  <2> QED
    BY <1>2, <2>1 DEF IsLoop
<1> HIDE DEF step
<1>4. f = [n \in 0 .. Len(s) |-> IF n = 0 THEN start ELSE then(n, f[n - 1])]
  BY <1>0, <1>2, <1>3 DEF IsLoop
<1> DEFINE kept[n \in 0 .. Len(s)] == IF n = 0 THEN start ELSE then(n, kept[n - 1])
<1>5. kept = [n \in 0 .. Len(s) |-> IF n = 0 THEN start ELSE then(n, kept[n - 1])]
  BY <1>4
<1>6. NotBlank(s) = kept[Len(s)]
  BY DEF NotBlank, start, then
<1> HIDE DEF kept
<1>7. start \in Seq(P \ {Blank}) /\ start \in Seq(P) /\ Len(start) = 0
  BY DEF start
<1>8. kept[0] = start
  BY <1>0, <1>5
<1>9. \A n \in 1 .. Len(s) : kept[n] = IF s[n] = Blank THEN kept[n - 1]
                                      ELSE Append(kept[n - 1], s[n])
  <2>1. \A n \in 1 .. Len(s) : kept[n] = then(n, kept[n - 1])
    BY <1>0, <1>5
  <2> QED
    BY <2>1 DEF then
<1>10. NotBlank(s) \in Seq(P \ {Blank})
  <2> DEFINE T == {n \in 0 .. Len(s) : kept[n] \in Seq(P \ {Blank})}
  <2>1. 0 \in T
    <3>1. 0 \in 0 .. Len(s)
      BY <1>0
    <3>2. kept[0] \in Seq(P \ {Blank}) /\ kept[0] \in Seq(P) /\ Len(kept[0]) = 0
      BY <1>7, <1>8
    <3> QED
      BY <3>1, <3>2
  <2>2. ASSUME NEW k \in 1 .. Len(s), k - 1 \in T PROVE k \in T
    <3>1. kept[k - 1] \in Seq(P \ {Blank}) /\ k \in 0 .. Len(s)
      BY <1>0, <2>2
    <3>2. CASE s[k] = Blank
      BY <1>9, <3>1, <3>2
    <3>3. CASE s[k] # Blank
      <4>1. s[k] \in P \ {Blank}
        BY <1>0, <3>3
      <4>2. kept[k] = Append(kept[k - 1], s[k])
        BY <1>9, <3>3
      <4>3. kept[k] \in Seq(P \ {Blank})
        BY <3>1, <4>1, <4>2, AppendOne
      <4> QED
        BY <3>1, <4>3
    <3> QED
      BY <3>2, <3>3
  <2>3. 0 .. Len(s) \subseteq T
    <3> HIDE DEF T
    <3> QED
      BY <1>0, <2>1, <2>2, SetInduction
  <2> QED
    BY <1>0, <1>6, <2>3
<1>11. ASSUME \A i \in 1 .. Len(s) : s[i] # Blank PROVE NotBlank(s) = s
  <2> DEFINE T == {n \in 0 .. Len(s) : /\ kept[n] \in Seq(P) /\ Len(kept[n]) = n
                                       /\ \A i \in 1 .. n : kept[n][i] = s[i]}
  <2>1. 0 \in T
    <3>1. 0 \in 0 .. Len(s)
      BY <1>0
    <3>2. kept[0] \in Seq(P \ {Blank}) /\ kept[0] \in Seq(P) /\ Len(kept[0]) = 0
      BY <1>7, <1>8
    <3> QED
      BY <3>1, <3>2
  <2>2. ASSUME NEW k \in 1 .. Len(s), k - 1 \in T PROVE k \in T
    <3>1. kept[k] = Append(kept[k - 1], s[k])
      BY <1>9, <1>11
    <3>2. kept[k - 1] \in Seq(P) /\ s[k] \in P /\ Len(kept[k - 1]) + 1 = k /\ k \in 0 .. Len(s)
      BY <1>0, <2>2
    <3>3. /\ kept[k] \in Seq(P) /\ Len(kept[k]) = k /\ kept[k][k] = s[k]
          /\ \A i \in 1 .. k - 1 : kept[k][i] = kept[k - 1][i]
      BY <3>1, <3>2, AppendOne
    <3>4. ASSUME NEW i \in 1 .. k PROVE kept[k][i] = s[i]
      <4>1. CASE i = k
        BY <3>3, <4>1
      <4>2. CASE i # k
        <5>1. i \in 1 .. k - 1
          BY <4>2
        <5> QED
          BY <2>2, <3>3, <5>1
      <4> QED
        BY <4>1, <4>2
    <3> QED
      BY <3>2, <3>3, <3>4
  <2>3. 0 .. Len(s) \subseteq T
    <3> HIDE DEF T
    <3> QED
      BY <1>0, <2>1, <2>2, SetInduction
  <2>4. /\ NotBlank(s) \in Seq(P) /\ Len(NotBlank(s)) = Len(s)
        /\ \A i \in 1 .. Len(s) : NotBlank(s)[i] = s[i]
    BY <1>0, <1>6, <2>3
  <2> QED
    BY <2>4, SeqEqual
<1> QED
  BY <1>10, <1>11

\* Joined gives what can be read, and leaves entries without a comma as they are.
LEMMA JoinedKeeps ==
  ASSUME NEW s \in Seq((Keys \X Values) \union {Junk})
  PROVE  /\ Joined(s) \in Seq(EnvPart)
         /\ (\A i \in 1 .. Len(s) : s[i] \in Plain \union {Junk}) => Joined(s) = s
<1> DEFINE S == Seq(EnvPart)
           start == <<>>
           piece(n) == IF s[n] = Junk THEN <<Junk>> ELSE Cut[s[n]]
           then(n, x) == x \o piece(n)
           step == [n \in 1 .. Len(s) |-> [x \in S |-> then(n, x)]]
<1>0. Len(s) \in Nat /\ \A n \in 1 .. Len(s) : s[n] \in (Keys \X Values) \union {Junk}
  OBVIOUS
<1>1. ASSUME NEW n \in 1 .. Len(s) PROVE piece(n) \in Seq(EnvPart)
  <2>1. CASE s[n] = Junk
    <3>1. Junk \in EnvPart
      BY DEF EnvPart
    <3>2. <<Junk>> \in Seq(EnvPart)
      BY <3>1
    <3> QED
      BY <2>1, <3>2
  <2>2. CASE s[n] # Junk
    <3>1. s[n] \in Keys \X Values
      BY <1>0, <2>2
    <3>2. Cut[s[n]] \in Seq(EnvPart)
      BY <3>1, PayloadAssumption
    <3> QED
      BY <2>2, <3>2
  <2> QED
    BY <2>1, <2>2
<1>2. ASSUME NEW n \in 1 .. Len(s), s[n] \in Plain \union {Junk} PROVE piece(n) = <<s[n]>>
  BY <1>2 DEF Plain
<1>3. start \in S /\ Len(start) = 0
  OBVIOUS
<1> HIDE DEF piece, start
<1>4. step \in [1 .. Len(s) -> [S -> S]]
  <2>1. \A n \in 1 .. Len(s) : \A x \in S : then(n, x) \in S
    BY <1>1, ConcatProperties
  <2> HIDE DEF S, then
  <2> QED
    BY <2>1
<1> HIDE DEF then, S, step
<1>5. PICK f : IsLoop(f, Len(s), S, start, step)
  BY <1>0, <1>3, <1>4, LoopRuns
<1>6. ASSUME NEW n \in 1 .. Len(s) PROVE f[n] = then(n, f[n - 1])
  <2>1. f[n - 1] \in S
    BY <1>0, <1>5 DEF IsLoop
  <2> QED
    BY <1>5, <2>1 DEF IsLoop, step
<1>7. f = [n \in 0 .. Len(s) |-> IF n = 0 THEN start ELSE then(n, f[n - 1])]
  BY <1>0, <1>5, <1>6 DEF IsLoop
<1> DEFINE text[n \in 0 .. Len(s)] == IF n = 0 THEN start ELSE then(n, text[n - 1])
<1>8. text = [n \in 0 .. Len(s) |-> IF n = 0 THEN start ELSE then(n, text[n - 1])]
  BY <1>7
<1>9. Joined(s) = text[Len(s)]
  BY DEF Joined, start, then, piece
<1> HIDE DEF text
<1>10. text[0] = start
  BY <1>0, <1>8
<1>11. ASSUME NEW n \in 1 .. Len(s) PROVE text[n] = text[n - 1] \o piece(n)
  <2>1. text[n] = then(n, text[n - 1])
    BY <1>0, <1>8
  <2> QED
    BY <2>1 DEF then
<1>12. Joined(s) \in Seq(EnvPart)
  <2> DEFINE T == {n \in 0 .. Len(s) : text[n] \in S}
  <2>1. 0 \in T
    <3>1. 0 \in 0 .. Len(s)
      BY <1>0
    <3> QED
      BY <1>3, <1>10, <3>1
  <2>2. ASSUME NEW k \in 1 .. Len(s), k - 1 \in T PROVE k \in T
    <3>1. text[k - 1] \in S /\ k \in 0 .. Len(s)
      BY <1>0, <2>2
    <3>2. text[k] \in S
      BY <1>1, <1>11, <3>1, ConcatProperties DEF S
    <3> QED
      BY <3>1, <3>2
  <2>3. 0 .. Len(s) \subseteq T
    <3> HIDE DEF T
    <3> QED
      BY <1>0, <2>1, <2>2, SetInduction
  <2> QED
    BY <1>0, <1>9, <2>3 DEF S
<1>13. ASSUME \A i \in 1 .. Len(s) : s[i] \in Plain \union {Junk} PROVE Joined(s) = s
  <2> DEFINE E == (Keys \X Values) \union {Junk}
             T == {n \in 0 .. Len(s) : /\ text[n] \in Seq(E) /\ Len(text[n]) = n
                                       /\ \A i \in 1 .. n : text[n][i] = s[i]}
  <2>1. 0 \in T
    <3>1. 0 \in 0 .. Len(s)
      BY <1>0
    <3>2. start \in Seq(E)
      BY DEF start
    <3>3. text[0] \in Seq(E) /\ Len(text[0]) = 0
      BY <1>3, <1>10, <3>2
    <3> QED
      BY <3>1, <3>3
  <2>2. ASSUME NEW k \in 1 .. Len(s), k - 1 \in T PROVE k \in T
    <3>1. text[k] = text[k - 1] \o <<s[k]>>
      BY <1>2, <1>11, <1>13
    <3>2. text[k - 1] \in Seq(E) /\ s[k] \in E /\ Len(text[k - 1]) = k - 1 /\ k \in 0 .. Len(s)
      BY <1>0, <2>2
    <3> HIDE DEF E
    <3>3. <<s[k]>> \in Seq(E) /\ Len(<<s[k]>>) = 1 /\ <<s[k]>>[1] = s[k]
      BY <3>2
    <3>4. /\ text[k] \in Seq(E) /\ Len(text[k]) = k
          /\ \A i \in 1 .. k : text[k][i] = IF i <= k - 1 THEN text[k - 1][i] ELSE <<s[k]>>[i - (k - 1)]
      BY <3>1, <3>2, <3>3, ConcatProperties
    <3>5. ASSUME NEW i \in 1 .. k PROVE text[k][i] = s[i]
      <4>1. CASE i = k
        BY <3>3, <3>4, <4>1
      <4>2. CASE i # k
        <5>1. i \in 1 .. k - 1
          BY <4>2
        <5>2. text[k][i] = text[k - 1][i]
          BY <3>4, <5>1
        <5> QED
          BY <2>2, <5>1, <5>2
      <4> QED
        BY <4>1, <4>2
    <3> QED
      BY <3>2, <3>4, <3>5
  <2>3. 0 .. Len(s) \subseteq T
    <3> HIDE DEF T
    <3> QED
      BY <1>0, <2>1, <2>2, SetInduction
  <2>4. /\ Joined(s) \in Seq(E) /\ Len(Joined(s)) = Len(s)
        /\ \A i \in 1 .. Len(s) : Joined(s)[i] = s[i]
    BY <1>0, <1>9, <2>3
  <2> QED
    BY <2>4, SeqEqual
<1> QED
  BY <1>12, <1>13

\* An environment that is read from a field has the names and values of its parts.
LEMMA ParseEnvType ==
  ASSUME NEW s \in Seq(EnvPart)
  PROVE  ParseEnv(s) \in [Keys -> Values \union {None}]
<1> DEFINE S == [Keys -> Values \union {None}]
           start == NoEnv
           then(n, x) == IF s[n] \in {Blank, Junk} THEN x ELSE [x EXCEPT ![s[n][1]] = s[n][2]]
           step == [n \in 1 .. Len(s) |-> [x \in S |-> then(n, x)]]
<1>0. Len(s) \in Nat /\ \A n \in 1 .. Len(s) : s[n] \in EnvPart
  OBVIOUS
<1>1. start \in S
  BY DEF NoEnv
<1>2. ASSUME NEW n \in 1 .. Len(s), NEW x \in S PROVE then(n, x) \in S
  <2>1. CASE s[n] \in {Blank, Junk}
    BY <2>1
  <2>2. CASE s[n] \notin {Blank, Junk}
    <3>1. s[n][1] \in Keys /\ s[n][2] \in Values
      BY <1>0, <2>2 DEF EnvPart, Plain
    <3> QED
      BY <2>2, <3>1
  <2> QED
    BY <2>1, <2>2
<1> HIDE DEF S, start, then
<1>3. step \in [1 .. Len(s) -> [S -> S]]
  BY <1>2
<1> HIDE DEF step
<1>4. PICK f : IsLoop(f, Len(s), S, start, step)
  BY <1>0, <1>1, <1>3, LoopRuns
<1>5. ASSUME NEW n \in 1 .. Len(s) PROVE f[n] = then(n, f[n - 1])
  <2>1. f[n - 1] \in S
    BY <1>0, <1>4 DEF IsLoop
  <2> QED
    BY <1>4, <2>1 DEF IsLoop, step
<1>6. f = [n \in 0 .. Len(s) |-> IF n = 0 THEN start ELSE then(n, f[n - 1])]
  BY <1>0, <1>4, <1>5 DEF IsLoop
<1> DEFINE env[n \in 0 .. Len(s)] == IF n = 0 THEN start ELSE then(n, env[n - 1])
<1>7. env = [n \in 0 .. Len(s) |-> IF n = 0 THEN start ELSE then(n, env[n - 1])]
  BY <1>6
<1>8. ParseEnv(s) = env[Len(s)]
  BY DEF ParseEnv, start, then
<1> HIDE DEF env
<1> DEFINE T == {n \in 0 .. Len(s) : env[n] \in S}
<1>9. 0 \in T
  BY <1>0, <1>1, <1>7
<1>10. ASSUME NEW k \in 1 .. Len(s), k - 1 \in T PROVE k \in T
  BY <1>0, <1>2, <1>7, <1>10
<1>11. 0 .. Len(s) \subseteq T
  <2> HIDE DEF T
  <2> QED
    BY <1>0, <1>9, <1>10, SetInduction
<1> QED
  BY <1>0, <1>8, <1>11 DEF S

\* A finite set and the list of its elements in some order.
LEMMA Enumerates ==
  ASSUME NEW S, IsFiniteSet(S)
  PROVE  SetToSeq(S) \in Seq(S) /\ ToSet(SetToSeq(S)) = S
<1> DEFINE n == Cardinality(S)
           g == SetToSeq(S)
<1>1. n \in Nat /\ ExistsBijection(1 .. n, S)
  BY FS_CardinalityType
<1>2. PICK f \in [1 .. n -> S] : IsInjective(f)
  BY <1>1 DEF ExistsBijection, Bijection, Injection
<1>3. g \in [1 .. n -> S] /\ IsInjective(g)
  BY <1>2 DEF SetToSeq
<1>4. g \in Seq(S) /\ DOMAIN g = 1 .. n
  BY <1>1, <1>3
<1> HIDE DEF g
<1>5. g \in Injection(1 .. n, S)
  BY <1>3 DEF Injection
<1>6. Cardinality(1 .. n) = n
  BY <1>1, FS_Interval
<1> HIDE DEF n
<1>7. g \in Surjection(1 .. n, S)
  BY <1>5, <1>6, FS_Injection DEF n
<1>8. ToSet(g) = S
  BY <1>4, <1>7 DEF ToSet, Surjection
<1> QED
  BY <1>4, <1>8 DEF g

\* A number that a word holds is what the word holds.
LEMMA WrapKeeps ==
  ASSUME NEW n, InWord(n)
  PROVE  n \in Int /\ Wrap(n) = n
<1>1. Half \in Nat \ {0}
  BY PayloadAssumption
<1>2. n \in Int /\ n + Half \in 0 .. 2 * Half - 1
  BY <1>1 DEF InWord
<1>3. \A k, l \in Nat : l # 0 /\ k < l => k % l = k
  OBVIOUS
<1>4. (n + Half) % (2 * Half) = n + Half
  BY <1>1, <1>2, <1>3
<1> QED
  BY <1>1, <1>2, <1>4 DEF Wrap

\* The field of the ports shows the bindings of the row.
LEMMA ShownSame ==
  ASSUME NEW s \in Seq(Pairs)
  PROVE  [i \in DOMAIN s |-> Shown(s[i])] = s
BY DEF Shown, Pairs

\* A text is a list of its parts.
LEMMA TextIsList ==
  ASSUME NEW P, NEW s \in Texts(P)
  PROVE  s \in Seq(P)
<1>1. PICK n \in 0 .. MaxParts : s \in [1 .. n -> P]
  BY DEF Texts
<1>2. n \in Nat
  BY PayloadAssumption
<1> QED
  BY <1>1, <1>2

\* The ports of a deployment are bindings.
LEMMA MergePortsType ==
  ASSUME NEW t \in Templates \union {None}, NEW b \in Seq(Pairs)
  PROVE  MergePorts(t, b) \in Seq(Pairs)
<1>1. CASE t # None /\ t.ports # <<>>
  <2> DEFINE p == t.ports
  <2>1. p \in Seq(Ports)
    BY <1>1, PayloadAssumption
  <2> HIDE DEF p
  <2>2. ASSUME NEW i \in DOMAIN p PROVE <<HostFor(b, p[i], p[i]), p[i]>> \in Pairs
    <3>1. p[i] \in Ports
      BY <2>1
    <3>2. HostFor(b, p[i], p[i]) \in Ports
      BY <3>1, HostForType
    <3> QED
      BY <3>1, <3>2 DEF Pairs
  <2>3. [i \in DOMAIN p |-> <<HostFor(b, p[i], p[i]), p[i]>>] \in Seq(Pairs)
    BY <2>1, <2>2
  <2> QED
    BY <1>1, <2>3 DEF MergePorts, p
<1>2. CASE ~ (t # None /\ t.ports # <<>>)
  BY <1>2 DEF MergePorts
<1> QED
  BY <1>1, <1>2

\* The ports of a template's fields that can be read are bindings.
LEMMA FieldPorts ==
  ASSUME NEW t \in Templates, NEW fields \in [DOMAIN t.ports -> Ports \union {Blank, Junk}],
         Readable(fields)
  PROVE  [i \in DOMAIN t.ports |->
            <<IF fields[i] = Blank THEN t.ports[i] ELSE fields[i], t.ports[i]>>] \in Seq(Pairs)
<1> DEFINE p == t.ports
           b(i) == <<IF fields[i] = Blank THEN p[i] ELSE fields[i], p[i]>>
<1>1. p \in Seq(Ports)
  BY PayloadAssumption
<1> HIDE DEF p
<1>2. fields \in [1 .. Len(p) -> Ports \union {Blank, Junk}] /\ Len(p) \in Nat
  BY <1>1 DEF p
<1>3. Len(fields) = Len(p)
  BY <1>2
<1>4. ASSUME NEW i \in DOMAIN p PROVE b(i) \in Pairs
  <2>1. p[i] \in Ports /\ i \in 1 .. Len(p)
    BY <1>1
  <2>2. fields[i] # Junk
    BY <1>3, <2>1 DEF Readable, Contains
  <2>3. (IF fields[i] = Blank THEN p[i] ELSE fields[i]) \in Ports
    BY <1>2, <2>1, <2>2
  <2> QED
    BY <2>1, <2>3 DEF Pairs
<1>5. [i \in DOMAIN p |-> b(i)] \in Seq(Pairs)
  <2> HIDE DEF b
  <2> QED
    BY <1>1, <1>4
<1> QED
  BY <1>5 DEF p

\* What NotBlank leaves of a text that can be read are its bindings.
LEMMA ReadPorts ==
  ASSUME NEW s \in Seq(PortPart), Readable(s)
  PROVE  NotBlank(s) \in Seq(Pairs)
<1> DEFINE P == PortPart \ {Junk}
<1>1. s \in Seq(P)
  BY DEF Readable, Contains
<1>2. NotBlank(s) \in Seq(P \ {Blank})
  <2> HIDE DEF P
  <2> QED
    BY <1>1, NotBlankKeeps
<1>3. P \ {Blank} \subseteq Pairs
  BY DEF PortPart
<1> QED
  BY <1>2, <1>3, SeqMonotonic

-----------------------------------------------------------------------------
(* From the request to the container.                                      *)

\* Every step keeps what is known of the command and of the container.
LEMMA CommandStep == CommandInv /\ [Next]_vars => CommandInv'
<1> SUFFICES ASSUME CommandInv, [Next]_vars PROVE CommandInv'
  OBVIOUS
<1> DEFINE ReqOK == /\ req.tpl \in Templates \union {None}
                    /\ req.ports \in Seq(Pairs)
                    /\ req.env \in [Keys -> Values \union {None}]
<1>1. ReqOK /\ (cont # None => payload # None) /\ (payload # None => stage = "saved")
  BY DEF CommandInv
<1>2. ASSUME stage # "saved", ReqOK', UNCHANGED <<payload, cont>> PROVE CommandInv'
  BY <1>1, <1>2 DEF CommandInv
<1>3. NoEnv \in [Keys -> Values \union {None}]
  BY DEF NoEnv
<1>4. ASSUME NEW ports \in Texts(PortPart), NEW env \in Texts(EnvPart), SubmitCustom(ports, env)
      PROVE  CommandInv'
  <2>1. NotBlank(ports) \in Seq(Pairs)
    BY <1>4, TextIsList, ReadPorts DEF SubmitCustom
  <2>2. ParseEnv(env) \in [Keys -> Values \union {None}]
    BY TextIsList, ParseEnvType
  <2>3. req' = [tpl |-> None, ports |-> NotBlank(ports), env |-> ParseEnv(env), memory |-> None]
    BY <1>4 DEF SubmitCustom, NoRequest
  <2>4. ReqOK'
    BY <2>1, <2>2, <2>3
  <2> QED
    BY <1>2, <1>4, <2>4 DEF SubmitCustom
<1>5. ASSUME NEW t \in Templates, NEW env \in Texts(EnvPart),
             NEW fields \in [DOMAIN t.ports -> Ports \union {Blank, Junk}],
             SubmitTemplate(t, fields, env)
      PROVE  CommandInv'
  <2> DEFINE p == [i \in DOMAIN t.ports |->
                     <<IF fields[i] = Blank THEN t.ports[i] ELSE fields[i], t.ports[i]>>]
  <2>1. p \in Seq(Pairs)
    BY <1>5, FieldPorts DEF SubmitTemplate
  <2>2. ParseEnv(env) \in [Keys -> Values \union {None}]
    BY TextIsList, ParseEnvType
  <2>3. req' = [tpl |-> t, ports |-> p, env |-> ParseEnv(env), memory |-> None]
    BY <1>5 DEF SubmitTemplate, NoRequest
  <2> HIDE DEF p
  <2>4. ReqOK'
    BY <2>1, <2>2, <2>3
  <2> QED
    BY <1>2, <1>5, <2>4 DEF SubmitTemplate
<1>6. ASSUME NEW t \in Templates \union {None}, NEW ports \in Texts(Pairs),
             NEW env \in [Keys -> Values \union {None}], NEW memory \in Limits,
             Post(t, ports, env, memory)
      PROVE  CommandInv'
  <2>1. ports \in Seq(Pairs)
    BY TextIsList
  <2>2. ReqOK'
    BY <1>6, <2>1 DEF Post
  <2> QED
    BY <1>2, <1>6, <2>2 DEF Post
<1>7. CASE Create
  BY <1>1, <1>7 DEF Create, CommandInv, Merged, Container
<1>8. CASE HandleCreate
  BY <1>8 DEF HandleCreate, CommandInv, Merged, Container
<1>9. CASE OpenEdit
  <2>1. req' = NoRequest /\ payload' = None /\ cont' = None
    BY <1>9 DEF OpenEdit
  <2>2. ReqOK'
    BY <1>3, <2>1 DEF NoRequest
  <2> QED
    BY <2>1, <2>2 DEF CommandInv
<1>10. CASE Save
  BY <1>1, <1>2, <1>10 DEF Save
<1>11. ASSUME NEW text, TypePorts(text) \/ TypeEnv(text) PROVE CommandInv'
  BY <1>1, <1>2, <1>11 DEF TypePorts, TypeEnv
<1>12. CASE UNCHANGED vars
  BY <1>12 DEF vars, CommandInv, Merged, Container
<1> QED
  BY <1>4, <1>5, <1>6, <1>7, <1>8, <1>9, <1>10, <1>11, <1>12 DEF Next, Ask

\* In every reachable state the command is the merge of its request and the
\* container is made of the command.
THEOREM CommandInvariant == Spec => []CommandInv
<1>1. Init => CommandInv
  BY DEF Init, CommandInv, NoRequest, NoEnv
<1> QED
  BY <1>1, CommandStep, PTL DEF Spec

\* The host port that was asked for, by the place of its binding.
LEMMA AskedPlace ==
  ASSUME CommandInv, NEW c, NEW m \in DOMAIN req.ports, req.ports[m][2] = c,
         \A j \in DOMAIN req.ports : req.ports[j][2] = c => j <= m,
         ~ (req.tpl # None /\ req.tpl.ports # <<>> /\ c \notin ToSet(req.tpl.ports))
  PROVE  Asked(c) = req.ports[m][1]
<1> DEFINE at == {i \in DOMAIN req.ports : req.ports[i][2] = c}
           last == CHOOSE i \in at : \A j \in at : j <= i
<1>1. m \in at /\ \A j \in at : j <= m
  OBVIOUS
<1>2. last \in at /\ \A j \in at : j <= last
  BY <1>1
<1>3. at \subseteq Nat
  BY DEF CommandInv
<1>4. last = m
  <2> HIDE DEF last, at
  <2> QED
    BY <1>1, <1>2, <1>3
<1>5. Asked(c) = req.ports[last][1]
  BY <1>1 DEF Asked
<1> QED
  BY <1>4, <1>5

\* Each port is bound as it was asked for, with a template that has ports.
LEMMA TemplatePorts ==
  ASSUME CommandInv, NEW c \in ValidPorts, req.tpl # None, req.tpl.ports # <<>>
  PROVE  HostFor(MergePorts(req.tpl, req.ports), c, None) = Asked(c)
<1> DEFINE t == req.tpl.ports
           r == req.ports
           p == MergePorts(req.tpl, req.ports)
<1>1. t \in Seq(Ports) /\ r \in Seq(Pairs) /\ p \in Seq(Pairs)
  BY PayloadAssumption, MergePortsType DEF CommandInv
<1>2. p = [i \in DOMAIN t |-> <<HostFor(r, t[i], t[i]), t[i]>>]
  BY DEF MergePorts
<1> HIDE DEF p
<1>3. DOMAIN p = DOMAIN t /\ DOMAIN p = 1 .. Len(p) /\ DOMAIN r = 1 .. Len(r)
  BY <1>1, <1>2
<1>4. \A i \in DOMAIN p : p[i][2] = t[i] /\ p[i][1] = HostFor(r, t[i], t[i])
  BY <1>2
<1> DEFINE at == {i \in 1 .. Len(p) : p[i][2] = c}
<1>5. at = {} <=> c \notin ToSet(t)
  BY <1>3, <1>4 DEF ToSet
<1>6. CASE at = {}
  <2>1. HostFor(p, c, None) = None
    BY <1>1, <1>6, HostForPlace
  <2>2. Asked(c) = None
    BY <1>5, <1>6 DEF Asked
  <2> QED
    BY <2>1, <2>2 DEF p
<1>7. CASE at # {}
  <2>1. PICK m \in at : HostFor(p, c, None) = p[m][1]
    BY <1>1, <1>7, HostForPlace
  <2>2. HostFor(p, c, None) = HostFor(r, c, c)
    BY <1>3, <1>4, <2>1
  <2>3. c \in ToSet(t)
    BY <1>5, <1>7
  <2> DEFINE named == {i \in 1 .. Len(r) : r[i][2] = c}
  <2>4. CASE named = {}
    <3>1. HostFor(r, c, c) = c
      BY <1>1, <2>4, HostForPlace
    <3>2. {i \in DOMAIN req.ports : req.ports[i][2] = c} = {}
      BY <1>3, <2>4
    <3>3. Asked(c) = c
      BY <2>3, <3>2 DEF Asked
    <3> QED
      BY <2>2, <3>1, <3>3 DEF p
  <2>5. CASE named # {}
    <3>1. PICK k \in named : (\A j \in named : j <= k) /\ HostFor(r, c, c) = r[k][1]
      <4> HIDE DEF t, p, at
      <4>1. r \in Seq(Pairs)
        BY <1>1
      <4> HIDE DEF r
      <4> QED
        BY <4>1, <2>5, HostForPlace
    <3>2. Asked(c) = r[k][1]
      BY <1>3, <2>3, <3>1, AskedPlace
    <3> QED
      BY <2>2, <3>1, <3>2 DEF p
  <2> QED
    BY <2>4, <2>5
<1> QED
  BY <1>6, <1>7

\* And without such a template.
LEMMA RequestPorts ==
  ASSUME CommandInv, NEW c \in ValidPorts, ~ (req.tpl # None /\ req.tpl.ports # <<>>)
  PROVE  HostFor(MergePorts(req.tpl, req.ports), c, None) = Asked(c)
<1> DEFINE r == req.ports
           at == {i \in 1 .. Len(r) : r[i][2] = c}
<1>1. r \in Seq(Pairs) /\ DOMAIN r = 1 .. Len(r)
  BY DEF CommandInv
<1>2. MergePorts(req.tpl, req.ports) = r
  BY DEF MergePorts
<1>3. CASE at = {}
  <2>1. HostFor(r, c, None) = None
    BY <1>1, <1>3, HostForPlace
  <2>2. {i \in DOMAIN req.ports : req.ports[i][2] = c} = {}
    BY <1>1, <1>3
  <2>3. ~ (req.tpl # None /\ c \in ToSet(req.tpl.ports))
    BY DEF ToSet
  <2>4. Asked(c) = None
    BY <2>2, <2>3 DEF Asked
  <2> QED
    BY <1>2, <2>1, <2>4
<1>4. CASE at # {}
  <2>1. PICK k \in at : (\A j \in at : j <= k) /\ HostFor(r, c, None) = r[k][1]
    BY <1>1, <1>4, HostForPlace
  <2>2. Asked(c) = r[k][1]
    BY <1>1, <2>1, AskedPlace
  <2> QED
    BY <1>2, <2>1, <2>2
<1> QED
  BY <1>3, <1>4

\* A container is what was asked for, and its row tells its ports.
LEMMA AskedIsMade == CommandInv => ContainerAsAsked
<1> SUFFICES ASSUME CommandInv, cont # None
             PROVE  PortsBound /\ EnvMerged /\ MemoryKept /\ RowTellsPorts
  BY DEF ContainerAsAsked
<1> DEFINE p == MergePorts(req.tpl, req.ports)
<1>1. cont = Container(Merged) /\ row.ports = p
  BY DEF CommandInv, Merged
<1>2. \A c \in ValidPorts : cont.ports[c] = HostFor(p, c, None)
  BY <1>1 DEF Container, Merged
<1>3. PortsBound
  <2> HIDE DEF p
  <2>1. ASSUME NEW c \in ValidPorts PROVE HostFor(p, c, None) = Asked(c)
    BY TemplatePorts, RequestPorts DEF p
  <2> QED
    BY <1>2, <2>1 DEF PortsBound
<1>4. EnvMerged
  BY <1>1 DEF EnvMerged, Container, Merged, MergeEnv, NoEnv
<1>5. MemoryKept
  <2> SUFFICES ASSUME Holds(AskedMemory)
               PROVE  cont.memory = AskedMemory.num * AskedMemory.unit
    BY DEF MemoryKept
  <2> DEFINE m == AskedMemory
  <2>1. cont.memory = ParseMemory(m)
    BY <1>1 DEF Container, Merged, MergeMemory, AskedMemory
  <2> HIDE DEF m
  <2>2. m # None /\ m.num # Junk /\ InWord(m.num) /\ InWord(m.num * m.unit)
    BY DEF Holds, m
  <2>3. Wrap(m.num) = m.num /\ Wrap(m.num * m.unit) = m.num * m.unit
    BY <2>2, WrapKeeps
  <2> QED
    BY <2>1, <2>2, <2>3 DEF ParseMemory, m
<1>6. RowTellsPorts
  <2> HIDE DEF p
  <2>1. p \in Seq(Pairs) /\ DOMAIN p = 1 .. Len(p)
    <3>1. MergePorts(req.tpl, req.ports) \in Seq(Pairs)
      BY MergePortsType DEF CommandInv
    <3> QED
      BY <3>1 DEF p
  <2> SUFFICES ASSUME NEW i \in DOMAIN p, p[i][2] \in ValidPorts
               PROVE  \/ cont.ports[p[i][2]] = p[i][1]
                      \/ \E j \in DOMAIN p : j > i /\ p[j][2] = p[i][2]
    BY <1>1 DEF RowTellsPorts
  <2> DEFINE c == p[i][2]
             at == {j \in 1 .. Len(p) : p[j][2] = c}
  <2>2. i \in at
    BY <2>1
  <2>3. PICK m \in at : (\A j \in at : j <= m) /\ HostFor(p, c, None) = p[m][1]
    BY <2>1, <2>2, HostForPlace
  <2>4. m \in DOMAIN p /\ p[m][2] = p[i][2] /\ (m = i \/ m > i)
    BY <2>1, <2>2, <2>3
  <2> QED
    BY <1>2, <2>3, <2>4
<1> QED
  BY <1>3, <1>4, <1>5, <1>6

\* Every container has the ports, the environment and, as far as a word holds
\* it, the memory limit that were asked for, and the row tells its ports.
THEOREM ContainerIsAsked == Spec => []ContainerAsAsked
BY CommandInvariant, AskedIsMade, PTL

-----------------------------------------------------------------------------
(* From the row to the edit form and back.                                 *)

\* A row has finitely many entries, none of them blank.
LEMMA EntriesType ==
  ASSUME NEW env \in [Keys -> Values \union {None}]
  PROVE  IsFiniteSet(Entries(env)) /\ Entries(env) \subseteq Keys \X Values
<1> DEFINE D == {k \in Keys : env[k] # None}
           g == [k \in D |-> <<k, env[k]>>]
<1>1. IsFiniteSet(D)
  <2>1. IsFiniteSet(Keys) /\ D \in SUBSET Keys
    BY PayloadAssumption
  <2> QED
    BY <2>1, FS_Subset
<1>2. Entries(env) = {<<k, env[k]>> : k \in D}
  BY DEF Entries
<1>3. g \in Surjection(D, Entries(env))
  BY <1>2 DEF Surjection
<1>4. IsFiniteSet(Entries(env))
  <2> HIDE DEF g, D
  <2> QED
    BY <1>1, <1>3, FS_Surjection
<1>5. Entries(env) \subseteq Keys \X Values
  BY <1>2
<1> QED
  BY <1>4, <1>5

\* A list has finitely many elements.
LEMMA ToSetFinite ==
  ASSUME NEW S, NEW s \in Seq(S)
  PROVE  IsFiniteSet(ToSet(s)) /\ ToSet(s) \subseteq S
<1>1. Len(s) \in Nat /\ DOMAIN s = 1 .. Len(s) /\ s \in [1 .. Len(s) -> S]
  OBVIOUS
<1>2. IsFiniteSet(1 .. Len(s))
  BY <1>1, FS_Interval
<1>3. s \in Surjection(1 .. Len(s), ToSet(s))
  BY <1>1 DEF Surjection, ToSet
<1> QED
  BY <1>1, <1>2, <1>3, FS_Surjection DEF ToSet

\* The form shows the ports of the row, and entries that can be read.
LEMMA OpenedForm ==
  ASSUME FormInv
  PROVE  /\ Opened = [ports |-> row.ports, env |-> Joined(SetToSeq(row.env))]
         /\ SetToSeq(row.env) \in Seq((Keys \X Values) \union {Junk})
         /\ ToSet(SetToSeq(row.env)) = row.env
         /\ Opened \in [ports : Seq(PortPart), env : Seq(EnvPart)]
<1>1. Opened = [ports |-> row.ports, env |-> Joined(SetToSeq(row.env))]
  <2>1. [i \in DOMAIN row.ports |-> Shown(row.ports[i])] = row.ports
    BY ShownSame DEF FormInv
  <2> QED
    BY <2>1 DEF Opened
<1>2. SetToSeq(row.env) \in Seq(row.env) /\ ToSet(SetToSeq(row.env)) = row.env
  BY Enumerates DEF FormInv
<1>3. SetToSeq(row.env) \in Seq((Keys \X Values) \union {Junk})
  <2>1. row.env \subseteq (Keys \X Values) \union {Junk}
    BY DEF FormInv
  <2> QED
    BY <1>2, <2>1, SeqMonotonic
<1>4. Joined(SetToSeq(row.env)) \in Seq(EnvPart)
  BY <1>3, JoinedKeeps
<1>5. row.ports \in Seq(PortPart)
  <2>1. Pairs \subseteq PortPart
    BY DEF PortPart
  <2>2. row.ports \in Seq(Pairs)
    BY DEF FormInv
  <2> QED
    BY <2>1, <2>2, SeqMonotonic
<1> QED
  BY <1>1, <1>2, <1>3, <1>4, <1>5

\* Every step keeps what is known of the row and of the form.
LEMMA FormStep == CommandInv /\ FormInv /\ [Next]_vars => FormInv'
<1> SUFFICES ASSUME CommandInv, FormInv, [Next]_vars PROVE FormInv'
  OBVIOUS
<1> DEFINE RowOK == /\ row.ports \in Seq(Pairs) /\ IsFiniteSet(row.env)
                    /\ row.env \subseteq ((Keys \X Values) \union {Junk}) \ {Blank}
           EditOK == edit \in [ports : Seq(PortPart), env : Seq(EnvPart)]
<1>1. RowOK /\ EditOK
  BY DEF FormInv
<1>2. ASSUME UNCHANGED <<row, edit>>, stage' # "edit" PROVE FormInv'
  BY <1>1, <1>2 DEF FormInv
<1>3. ASSUME stage = "form", Ask PROVE FormInv'
  BY <1>2, <1>3 DEF Ask, SubmitCustom, SubmitTemplate, Post
<1>4. CASE Create
  <2> DEFINE p == MergePorts(req.tpl, req.ports)
             e == MergeEnv(IF req.tpl # None THEN req.tpl.env ELSE NoEnv, req.env)
  <2>1. p \in Seq(Pairs)
    BY MergePortsType DEF CommandInv
  <2>2. e \in [Keys -> Values \union {None}]
    <3>1. (IF req.tpl # None THEN req.tpl.env ELSE NoEnv) \in [Keys -> Values \union {None}]
      BY PayloadAssumption DEF CommandInv, NoEnv
    <3>2. req.env \in [Keys -> Values \union {None}]
      BY DEF CommandInv
    <3> QED
      BY <3>1, <3>2 DEF MergeEnv
  <2>3. row' = [ports |-> p, env |-> Entries(e)]
    BY <1>4 DEF Create, Merged
  <2> HIDE DEF p, e
  <2>4. RowOK'
    BY <2>1, <2>2, <2>3, EntriesType, PayloadAssumption
  <2> QED
    BY <1>1, <1>4, <2>4 DEF Create, FormInv
<1>5. CASE HandleCreate
  BY <1>2, <1>5 DEF HandleCreate
<1>6. CASE OpenEdit
  <2>1. edit' = Opened' /\ edit' = Opened /\ row' = row
    BY <1>6 DEF OpenEdit, Opened
  <2>2. EditOK'
    BY <2>1, OpenedForm
  <2> QED
    BY <1>1, <2>1, <2>2 DEF FormInv
<1>7. CASE Save
  <2> DEFINE p == NotBlank(edit.ports)
             e == ToSet(NotBlank(edit.env))
  <2>1. p \in Seq(Pairs)
    BY <1>1, <1>7, ReadPorts DEF Save
  <2>2. NotBlank(edit.env) \in Seq(EnvPart \ {Blank})
    BY <1>1, NotBlankKeeps
  <2>3. IsFiniteSet(e) /\ e \subseteq EnvPart \ {Blank}
    BY <2>2, ToSetFinite
  <2>4. EnvPart \ {Blank} \subseteq ((Keys \X Values) \union {Junk}) \ {Blank}
    BY DEF EnvPart, Plain
  <2>5. row' = [ports |-> IF p = <<>> THEN row.ports ELSE p,
                env   |-> IF e = {} THEN row.env ELSE e]
    BY <1>7 DEF Save
  <2> HIDE DEF p, e
  <2>6. RowOK'
    BY <1>1, <2>1, <2>3, <2>4, <2>5
  <2> QED
    BY <1>1, <1>7, <2>6 DEF Save, FormInv
<1>8. ASSUME NEW text \in Texts(PortPart), TypePorts(text) PROVE FormInv'
  <2>1. text \in Seq(PortPart)
    BY TextIsList
  <2>2. EditOK'
    BY <1>1, <1>8, <2>1 DEF TypePorts
  <2> QED
    BY <1>1, <1>8, <2>2 DEF TypePorts, FormInv
<1>9. ASSUME NEW text \in Texts(EnvPart), TypeEnv(text) PROVE FormInv'
  <2>1. text \in Seq(EnvPart)
    BY TextIsList
  <2>2. EditOK'
    BY <1>1, <1>9, <2>1 DEF TypeEnv
  <2> QED
    BY <1>1, <1>9, <2>2 DEF TypeEnv, FormInv
<1>10. CASE UNCHANGED vars
  BY <1>10 DEF vars, FormInv, Opened
<1> QED
  BY <1>3, <1>4, <1>5, <1>6, <1>7, <1>8, <1>9, <1>10 DEF Next

\* Nothing blank is ever stored, and a form nobody has touched tells the row.
THEOREM FormTellsRow == Spec => []FormInv
<1>1. Init => FormInv
  <2> SUFFICES ASSUME Init PROVE FormInv
    OBVIOUS
  <2>1. IsFiniteSet({})
    BY FS_EmptySet
  <2> QED
    BY <2>1 DEF Init, FormInv, NoRow, NoEdit
<1> QED
  BY <1>1, FormStep, CommandInvariant, PTL DEF Spec

\* Saving a form that nobody has touched writes the row it was opened from.
LEMMA UntouchedSave ==
  ASSUME FormInv, Save, ~ touched
  PROVE  /\ row'.ports = row.ports
         /\ row.env \subseteq Plain \union {Junk} => row'.env = row.env
<1> DEFINE p == NotBlank(edit.ports)
           e == ToSet(NotBlank(edit.env))
           entries == SetToSeq(row.env)
<1>1. edit = Opened
  BY DEF FormInv, Save
<1>2. edit.ports = row.ports /\ edit.env = Joined(entries)
  BY <1>1, OpenedForm
<1>3. row' = [ports |-> IF p = <<>> THEN row.ports ELSE p,
              env   |-> IF e = {} THEN row.env ELSE e]
  BY DEF Save
<1>4. p = row.ports
  <2>1. row.ports \in Seq(Pairs) /\ Blank \notin Pairs
    BY PayloadAssumption DEF FormInv
  <2>2. \A i \in 1 .. Len(row.ports) : row.ports[i] # Blank
    BY <2>1
  <2> QED
    BY <1>2, <2>1, <2>2, NotBlankKeeps
<1>5. ASSUME row.env \subseteq Plain \union {Junk} PROVE e = row.env
  <2>1. /\ entries \in Seq((Keys \X Values) \union {Junk})
        /\ ToSet(entries) = row.env
    BY OpenedForm
  <2>2. \A i \in 1 .. Len(entries) : entries[i] \in row.env
    BY <2>1 DEF ToSet
  <2>3. Joined(entries) = entries
    <3> HIDE DEF entries
    <3> QED
      BY <1>5, <2>1, <2>2, JoinedKeeps
  <2>4. Blank \notin row.env
    BY DEF FormInv
  <2>5. NotBlank(entries) = entries
    <3> HIDE DEF entries
    <3> QED
      BY <2>1, <2>2, <2>4, NotBlankKeeps
  <2> QED
    BY <1>2, <2>1, <2>3, <2>5
<1> QED
  BY <1>3, <1>4, <1>5

\* Opening the edit form and saving it keeps every row that has no value with
\* a comma, however its entries came there.
THEOREM UntouchedEdit == Spec => EditKeepsRow
<1>1. FormInv /\ [Next]_vars =>
        [stage = "edit" /\ stage' = "saved" /\ ~touched =>
           /\ row'.ports = row.ports
           /\ row.env \subseteq Plain \union {Junk} => row'.env = row.env]_vars
  <2> SUFFICES ASSUME FormInv, Next, stage = "edit", stage' = "saved", ~ touched
               PROVE  /\ row'.ports = row.ports
                      /\ row.env \subseteq Plain \union {Junk} => row'.env = row.env
    OBVIOUS
  <2>1. Save
    BY DEF Next, Create, HandleCreate, OpenEdit, TypePorts, TypeEnv
  <2> QED
    BY <2>1, UntouchedSave
<1> QED
  BY <1>1, FormTellsRow, PTL DEF Spec, EditKeepsRow
=============================================================================
