------------------------ MODULE ApplySchedulerProofs ------------------------
(***************************************************************************)
(* Proofs about the apply scheduler, for blocks of any length over any     *)
(* accounts and objects, and about the tables a scheduled block leaves, for*)
(* any effects that stay within what operations are classified by.         *)
(***************************************************************************)
EXTENDS BlockRun, WellFoundedInduction, TLAPS

\* What the variables hold in each phase of apply_scheduled.
TypeOK ==
  /\ block \in Seq(scheduled_op)
  /\ planned \in 0..Len(block)
  /\ layers \in Seq(Seq(Nat))
  /\ at \in [layer: Nat \ {0}, pos: Nat \ {0}]
  /\ applied \in Seq(Nat)
  /\ status \in {"plan", "apply", "done", "threw"}

\* The layers hold the indices placed so far, each once, and no layer is empty.
Partition ==
  /\ \A L \in DOMAIN layers : layers[L] # << >> /\ Members(L) \subseteq 1..planned
  /\ \A i \in 1..planned : \E L \in DOMAIN layers : i \in Members(L)
  /\ \A L, M \in DOMAIN layers : \A p \in DOMAIN layers[L], q \in DOMAIN layers[M] :
       layers[L][p] = layers[M][q] => L = M /\ p = q

\* First fit: an operation has, in every layer in front of its own, an earlier
\* one it conflicts with.
FirstFit ==
  \A L \in DOMAIN layers : \A i \in Members(L) : \A K \in 1..(L - 1) :
    \E m \in Members(K) : m < i /\ Conflict(m, i)

PlanInv == TypeOK /\ Partition /\ LayersIndependent /\ FirstFit

----------------------------------------------------------------------------
\* Every operation but a global one touches an account.
LEMMA TouchNonempty ==
  ASSUME TypeOK, NEW i \in DOMAIN block, ~Global(i)
  PROVE  Touch(i) # {}
<1>1. block[i] \in scheduled_op
  BY DEF TypeOK
<1>2. block[i].kind \in {"nft_transfer", "htlc_redeem", "contract_call"}
  BY <1>1 DEF scheduled_op, Global
<1>3. CASE block[i].kind = "nft_transfer"
  BY <1>3, Zenon DEF Touch, classify
<1>4. CASE block[i].kind = "htlc_redeem"
  BY <1>4, Zenon DEF Touch, classify
<1>5. CASE block[i].kind = "contract_call"
  BY <1>5, Zenon DEF Touch, classify
<1> QED
  BY <1>2, <1>3, <1>4, <1>5

\* An operation that does not fit a layer conflicts with one of its operations,
\* provided the layer has one.
LEMMA UnfitConflicts ==
  ASSUME NEW i, NEW L, ~Fits(i, L), Members(L) # {}
  PROVE  \E m \in Members(L) : Conflict(m, i)
BY DEF Fits, Conflict, layer_global, layer_accounts

\* An operation that fits a layer conflicts with none of its operations.
LEMMA FitIndependent ==
  ASSUME NEW i, NEW L, Fits(i, L), NEW m \in Members(L)
  PROVE  ~Conflict(m, i) /\ ~Conflict(i, m)
BY DEF Fits, Conflict, layer_global, layer_accounts

\* Placing n at the end of layer L of s.
LEMMA AppendToLayer ==
  ASSUME NEW s \in Seq(Seq(Nat)), NEW L \in DOMAIN s, NEW n \in Nat,
         NEW t, t = [s EXCEPT ![L] = Append(@, n)]
  PROVE  /\ t \in Seq(Seq(Nat)) /\ DOMAIN t = DOMAIN s
         /\ \A K \in DOMAIN s : K # L => t[K] = s[K]
         /\ DOMAIN t[L] = DOMAIN s[L] \cup {Len(s[L]) + 1} /\ Len(s[L]) + 1 \notin DOMAIN s[L]
         /\ \A p \in DOMAIN s[L] : t[L][p] = s[L][p]
         /\ t[L][Len(s[L]) + 1] = n
<1>1. s[L] \in Seq(Nat)
  OBVIOUS
<1>2. t \in Seq(Seq(Nat)) /\ DOMAIN t = DOMAIN s /\ t[L] = Append(s[L], n)
  BY <1>1
<1>3. \A K \in DOMAIN s : K # L => t[K] = s[K]
  OBVIOUS
<1> DEFINE a == Append(s[L], n)
<1>4. /\ DOMAIN a = DOMAIN s[L] \cup {Len(s[L]) + 1} /\ Len(s[L]) + 1 \notin DOMAIN s[L]
      /\ \A p \in DOMAIN s[L] : a[p] = s[L][p]
      /\ a[Len(s[L]) + 1] = n
  BY <1>1, SMTT(30)
<1>5. t[L] = a
  BY <1>2
<1> HIDE DEF a
<1> QED
  BY <1>2, <1>3, <1>4, <1>5

\* Opening a new layer for n behind the layers of s.
LEMMA AppendLayer ==
  ASSUME NEW s \in Seq(Seq(Nat)), NEW n \in Nat, NEW t, t = Append(s, <<n>>)
  PROVE  /\ t \in Seq(Seq(Nat)) /\ DOMAIN t = DOMAIN s \cup {Len(s) + 1}
         /\ Len(s) + 1 \notin DOMAIN s
         /\ \A K \in DOMAIN s : t[K] = s[K]
         /\ DOMAIN t[Len(s) + 1] = {1} /\ t[Len(s) + 1][1] = n
<1>1. <<n>> \in Seq(Nat) /\ DOMAIN <<n>> = {1} /\ <<n>>[1] = n
  OBVIOUS
<1> QED
  BY <1>1

\* A round of the plan puts the next index at the end of one layer H, old or
\* new: the first that it fits.
LEMMA PlaceEffect ==
  ASSUME TypeOK, Place
  PROVE  \E H \in Nat, e \in Nat :
           LET n == planned + 1
               D == IF H \in DOMAIN layers THEN DOMAIN layers[H] ELSE {}
           IN  /\ layers' \in Seq(Seq(Nat)) /\ DOMAIN layers' = DOMAIN layers \cup {H}
               /\ \A K \in DOMAIN layers : K # H => layers'[K] = layers[K]
               /\ DOMAIN layers'[H] = D \cup {e} /\ e \notin D
               /\ layers'[H][e] = n /\ \A p \in D : layers'[H][p] = layers[H][p]
               /\ H \in DOMAIN layers => Fits(n, H)
               /\ \A K \in 1..(H - 1) : K \in DOMAIN layers /\ ~Fits(n, K)
<1> DEFINE n == planned + 1
<1>0. n \in Nat /\ layers \in Seq(Seq(Nat))
  BY DEF TypeOK
<1>1. \/ \E L \in DOMAIN layers :
           /\ Fits(n, L) /\ \A K \in 1..(L - 1) : ~Fits(n, K)
           /\ layers' = [layers EXCEPT ![L] = Append(@, n)]
      \/ (\A L \in DOMAIN layers : ~Fits(n, L)) /\ layers' = Append(layers, <<n>>)
  BY DEF Place
<1> HIDE DEF n
<1>2. ASSUME NEW L \in DOMAIN layers, Fits(n, L), \A K \in 1..(L - 1) : ~Fits(n, K),
             layers' = [layers EXCEPT ![L] = Append(@, n)]
      PROVE  /\ layers' \in Seq(Seq(Nat)) /\ DOMAIN layers' = DOMAIN layers \cup {L}
             /\ \A K \in DOMAIN layers : K # L => layers'[K] = layers[K]
             /\ DOMAIN layers'[L] = DOMAIN layers[L] \cup {Len(layers[L]) + 1}
             /\ Len(layers[L]) + 1 \notin DOMAIN layers[L]
             /\ layers'[L][Len(layers[L]) + 1] = n
             /\ \A p \in DOMAIN layers[L] : layers'[L][p] = layers[L][p]
             /\ \A K \in 1..(L - 1) : K \in DOMAIN layers /\ ~Fits(n, K)
             /\ L \in Nat /\ Len(layers[L]) + 1 \in Nat
  <2>1. /\ layers' \in Seq(Seq(Nat)) /\ DOMAIN layers' = DOMAIN layers
        /\ \A K \in DOMAIN layers : K # L => layers'[K] = layers[K]
        /\ DOMAIN layers'[L] = DOMAIN layers[L] \cup {Len(layers[L]) + 1}
        /\ Len(layers[L]) + 1 \notin DOMAIN layers[L]
        /\ \A p \in DOMAIN layers[L] : layers'[L][p] = layers[L][p]
        /\ layers'[L][Len(layers[L]) + 1] = n
    BY <1>0, <1>2, AppendToLayer, SMTT(30)
  <2>2. L \in 1..Len(layers) /\ layers[L] \in Seq(Nat)
    BY <1>0
  <2>3. \A K \in 1..(L - 1) : K \in DOMAIN layers
    BY <1>0, <2>2
  <2>4. L \in Nat /\ Len(layers[L]) + 1 \in Nat
    BY <1>0, <2>2
  <2>5. DOMAIN layers = DOMAIN layers \cup {L}
    OBVIOUS
  <2> QED
    BY <1>2, <2>1, <2>3, <2>4, <2>5, Zenon
<1>3. ASSUME \A L \in DOMAIN layers : ~Fits(n, L), layers' = Append(layers, <<n>>)
      PROVE  LET H == Len(layers) + 1
             IN  /\ layers' \in Seq(Seq(Nat)) /\ DOMAIN layers' = DOMAIN layers \cup {H}
                 /\ \A K \in DOMAIN layers : layers'[K] = layers[K]
                 /\ DOMAIN layers'[H] = {1} /\ layers'[H][1] = n
                 /\ H \notin DOMAIN layers /\ H \in Nat
                 /\ \A K \in 1..(H - 1) : K \in DOMAIN layers /\ ~Fits(n, K)
  <2>1. /\ layers' \in Seq(Seq(Nat)) /\ DOMAIN layers' = DOMAIN layers \cup {Len(layers) + 1}
        /\ Len(layers) + 1 \notin DOMAIN layers
        /\ \A K \in DOMAIN layers : layers'[K] = layers[K]
        /\ DOMAIN layers'[Len(layers) + 1] = {1} /\ layers'[Len(layers) + 1][1] = n
    BY <1>0, <1>3, AppendLayer
  <2>2. Len(layers) \in Nat /\ DOMAIN layers = 1..Len(layers)
    BY <1>0
  <2>3. Len(layers) + 1 \in Nat /\ 1..((Len(layers) + 1) - 1) = DOMAIN layers
    BY <2>2
  <2> QED
    BY <1>3, <2>1, <2>3, Zenon
<1>4. CASE \E L \in DOMAIN layers :
             /\ Fits(n, L) /\ \A K \in 1..(L - 1) : ~Fits(n, K)
             /\ layers' = [layers EXCEPT ![L] = Append(@, n)]
  <2>1. PICK L \in DOMAIN layers :
             /\ Fits(n, L) /\ \A K \in 1..(L - 1) : ~Fits(n, K)
             /\ layers' = [layers EXCEPT ![L] = Append(@, n)]
    BY <1>4, Zenon
  <2> DEFINE e == Len(layers[L]) + 1
  <2>2. /\ layers' \in Seq(Seq(Nat)) /\ DOMAIN layers' = DOMAIN layers \cup {L}
        /\ \A K \in DOMAIN layers : K # L => layers'[K] = layers[K]
        /\ DOMAIN layers'[L] = DOMAIN layers[L] \cup {e}
        /\ e \notin DOMAIN layers[L]
        /\ layers'[L][e] = n
        /\ \A p \in DOMAIN layers[L] : layers'[L][p] = layers[L][p]
        /\ \A K \in 1..(L - 1) : K \in DOMAIN layers /\ ~Fits(n, K)
        /\ L \in Nat /\ e \in Nat
    BY <1>2, <2>1, Zenon
  <2> HIDE DEF e
  <2> QED
    BY <2>1, <2>2, Zenon DEF n
<1>5. CASE (\A L \in DOMAIN layers : ~Fits(n, L)) /\ layers' = Append(layers, <<n>>)
  <2> DEFINE H == Len(layers) + 1
  <2>1. /\ layers' \in Seq(Seq(Nat)) /\ DOMAIN layers' = DOMAIN layers \cup {H}
        /\ \A K \in DOMAIN layers : layers'[K] = layers[K]
        /\ DOMAIN layers'[H] = {1} /\ layers'[H][1] = n
        /\ H \notin DOMAIN layers /\ H \in Nat
        /\ \A K \in 1..(H - 1) : K \in DOMAIN layers /\ ~Fits(n, K)
    BY <1>3, <1>5
  <2>2. 1 \in Nat
    OBVIOUS
  <2> HIDE DEF H
  <2> QED
    BY <2>1, <2>2 DEF n
<1> QED
  BY <1>1, <1>4, <1>5, Zenon

\* A round of the plan keeps the layers a partition without conflicts, placed by
\* first fit.
LEMMA PlaceInv ==
  ASSUME PlanInv, Place
  PROVE  PlanInv'
<1> DEFINE n == planned + 1
<1>0. TypeOK /\ Partition /\ LayersIndependent /\ FirstFit
  BY DEF PlanInv
<1>1. PICK H \in Nat, e \in Nat :
        LET D == IF H \in DOMAIN layers THEN DOMAIN layers[H] ELSE {}
        IN  /\ layers' \in Seq(Seq(Nat)) /\ DOMAIN layers' = DOMAIN layers \cup {H}
            /\ \A K \in DOMAIN layers : K # H => layers'[K] = layers[K]
            /\ DOMAIN layers'[H] = D \cup {e} /\ e \notin D
            /\ layers'[H][e] = n /\ \A p \in D : layers'[H][p] = layers[H][p]
            /\ H \in DOMAIN layers => Fits(n, H)
            /\ \A K \in 1..(H - 1) : K \in DOMAIN layers /\ ~Fits(n, K)
  BY <1>0, PlaceEffect, Zenon
<1>2. /\ planned \in Nat /\ n \in Nat /\ n \in 1..Len(block) /\ planned' = n
      /\ UNCHANGED <<block, at, applied, status>>
      /\ 1..n = (1..planned) \cup {n} /\ n \notin 1..planned
  <2>1. planned \in 0..Len(block) /\ Len(block) \in Nat /\ planned < Len(block)
    BY <1>0 DEF Place, TypeOK
  <2>2. planned' = n /\ UNCHANGED <<block, at, applied, status>>
    BY DEF Place
  <2> QED
    BY <2>1, <2>2
<1> DEFINE D == IF H \in DOMAIN layers THEN DOMAIN layers[H] ELSE {}
           M0 == IF H \in DOMAIN layers THEN Members(H) ELSE {}
<1>3. /\ layers' \in Seq(Seq(Nat)) /\ DOMAIN layers' = DOMAIN layers \cup {H}
      /\ DOMAIN layers \subseteq Nat /\ H \in Nat
      /\ DOMAIN layers'[H] = D \cup {e} /\ e \notin D /\ layers'[H][e] = n
      /\ \A p \in D : layers'[H][p] = layers[H][p]
      /\ \A K \in DOMAIN layers : K # H => layers'[K] = layers[K]
  BY <1>0, <1>1, SMTT(30) DEF TypeOK
<1>4. /\ \A K \in DOMAIN layers : K # H => Members(K)' = Members(K)
      /\ Members(H)' = M0 \cup {n}
  BY <1>3 DEF Members
<1>5. \A i, j : /\ Touch(i)' = Touch(i) /\ Global(i)' = Global(i)
                /\ Conflict(i, j)' = Conflict(i, j)
  BY <1>2 DEF Touch, Global, Conflict
<1>6. TypeOK'
  BY <1>0, <1>2, <1>3 DEF TypeOK
<1>7. Partition'
  <2>1. ASSUME NEW L \in DOMAIN layers'
        PROVE  layers'[L] # << >> /\ Members(L)' \subseteq 1..planned'
    <3>1. CASE L = H
      <4>1. DOMAIN layers'[L] # {}
        BY <1>3, <3>1
      <4>2. M0 \subseteq 1..planned
        BY <1>0 DEF Partition
      <4> QED
        BY <1>2, <1>4, <3>1, <4>1, <4>2
    <3>2. CASE L # H
      <4>1. L \in DOMAIN layers /\ layers'[L] = layers[L] /\ Members(L)' = Members(L)
        BY <1>3, <1>4, <3>2
      <4> QED
        BY <1>0, <1>2, <4>1 DEF Partition
    <3> QED
      BY <3>1, <3>2
  <2>2. ASSUME NEW i \in 1..planned'
        PROVE  \E L \in DOMAIN layers' : i \in Members(L)'
    <3>1. CASE i = n
      BY <1>3, <1>4, <3>1, Zenon
    <3>2. CASE i # n
      <4>1. PICK L \in DOMAIN layers : i \in Members(L)
        BY <1>0, <1>2, <3>2 DEF Partition
      <4> QED
        BY <1>3, <1>4, <4>1
    <3> QED
      BY <3>1, <3>2
  <2>3. ASSUME NEW L \in DOMAIN layers', NEW M \in DOMAIN layers',
               NEW p \in DOMAIN layers'[L], NEW q \in DOMAIN layers'[M],
               layers'[L][p] = layers'[M][q]
        PROVE  L = M /\ p = q
    <3> DEFINE Fresh(K, r) == K = H /\ r = e
    <3>1. ASSUME NEW K \in DOMAIN layers', NEW r \in DOMAIN layers'[K], ~Fresh(K, r)
          PROVE  /\ K \in DOMAIN layers /\ r \in DOMAIN layers[K] /\ layers'[K][r] = layers[K][r]
                 /\ layers[K][r] # n
      <4>1. K \in DOMAIN layers /\ r \in DOMAIN layers[K] /\ layers'[K][r] = layers[K][r]
        BY <1>3, <3>1
      <4>2. layers[K][r] \in Members(K)
        BY <4>1 DEF Members
      <4>3. layers[K][r] \in 1..planned
        BY <1>0, <4>1, <4>2 DEF Partition
      <4> QED
        BY <1>2, <4>1, <4>3
    <3>2. ASSUME NEW K, NEW r, Fresh(K, r) PROVE layers'[K][r] = n
      BY <1>3, <3>2
    <3>3. CASE Fresh(L, p) /\ Fresh(M, q)
      BY <3>3
    <3>4. CASE ~Fresh(L, p) /\ ~Fresh(M, q)
      <4>1. /\ L \in DOMAIN layers /\ p \in DOMAIN layers[L] /\ layers'[L][p] = layers[L][p]
            /\ M \in DOMAIN layers /\ q \in DOMAIN layers[M] /\ layers'[M][q] = layers[M][q]
        BY <3>1, <3>4
      <4>2. layers[L][p] = layers[M][q]
        BY <2>3, <4>1, Zenon
      <4> QED
        <5>1. \A A, B \in DOMAIN layers : \A x \in DOMAIN layers[A], y \in DOMAIN layers[B] :
                layers[A][x] = layers[B][y] => A = B /\ x = y
          BY <1>0, Zenon DEF Partition
        <5> QED
          BY <4>1, <4>2, <5>1, ZenonT(30)
    <3>5. CASE Fresh(L, p) # Fresh(M, q)
      <4>1. (layers'[L][p] = n) # (layers'[M][q] = n)
        BY <3>1, <3>2, <3>5
      <4> QED
        BY <2>3, <4>1
    <3> QED
      BY <3>3, <3>4, <3>5
  <2> QED
    BY <2>1, <2>2, <2>3 DEF Partition
<1>8. LayersIndependent'
  <2> SUFFICES ASSUME NEW L \in DOMAIN layers', NEW i \in Members(L)', NEW j \in Members(L)',
                      i # j
               PROVE  ~Conflict(i, j)
    BY <1>5 DEF LayersIndependent
  <2>1. CASE L # H
    <3>1. L \in DOMAIN layers /\ Members(L)' = Members(L)
      BY <1>3, <1>4, <2>1
    <3> QED
      BY <1>0, <3>1 DEF LayersIndependent
  <2>2. CASE L = H
    <3>1. i \in M0 \cup {n} /\ j \in M0 \cup {n}
      BY <1>4, <2>2
    <3>2. CASE i \in M0 /\ j \in M0
      BY <1>0, <3>2 DEF LayersIndependent
    <3>3. CASE H \in DOMAIN layers /\ i = n /\ j \in Members(H)
      BY <1>1, <3>3, FitIndependent
    <3>4. CASE H \in DOMAIN layers /\ j = n /\ i \in Members(H)
      BY <1>1, <3>4, FitIndependent, Zenon
    <3> QED
      BY <3>1, <3>2, <3>3, <3>4
  <2> QED
    BY <2>1, <2>2
<1>9. FirstFit'
  <2> SUFFICES ASSUME NEW L \in DOMAIN layers', NEW i \in Members(L)', NEW K \in 1..(L - 1)
               PROVE  \E m \in Members(K)' : m < i /\ Conflict(m, i)
    BY <1>5 DEF FirstFit
  <2>0. \A k \in DOMAIN layers : Members(k) \subseteq Members(k)'
    BY <1>4
  <2>1. CASE L \in DOMAIN layers /\ i \in Members(L)
    <3>1. PICK m \in Members(K) : m < i /\ Conflict(m, i)
      BY <1>0, <2>1 DEF FirstFit
    <3>2. K \in DOMAIN layers
      BY <1>0, <2>1 DEF TypeOK
    <3> QED
      BY <2>0, <3>1, <3>2
  <2>2. CASE L = H /\ i = n
    <3>1. K \in DOMAIN layers /\ ~Fits(n, K)
      BY <1>1, <2>2
    <3>2. Members(K) # {} /\ Members(K) \subseteq 1..planned
      <4>1. layers[K] # << >> /\ layers[K] \in Seq(Nat) /\ Members(K) \subseteq 1..planned
        BY <1>0, <3>1 DEF Partition, TypeOK
      <4>2. 1 \in DOMAIN layers[K]
        BY <4>1
      <4> QED
        BY <4>1, <4>2, Zenon DEF Members
    <3>3. PICK m \in Members(K) : Conflict(m, n)
      BY <3>1, <3>2, UnfitConflicts
    <3>4. m < n
      BY <1>2, <3>2
    <3> QED
      BY <2>0, <2>2, <3>1, <3>3, <3>4, Zenon
  <2> QED
    BY <1>3, <1>4, <2>1, <2>2
<1> QED
  BY <1>6, <1>7, <1>8, <1>9 DEF PlanInv

----------------------------------------------------------------------------
Position(L, p) == L \in DOMAIN layers /\ p \in DOMAIN layers[L]
Passed(L, p)   == L < at.layer \/ (L = at.layer /\ p < at.pos)
IsApplied(i)   == \E k \in DOMAIN applied : applied[k] = i

\* Where apply_scheduled is in each phase.
Progress ==
  /\ status = "plan" => applied = << >> /\ at = [layer |-> 1, pos |-> 1]
  /\ status # "plan" => planned = Len(block)
  /\ status \in {"apply", "threw"} => Position(at.layer, at.pos)
  /\ status = "done" => at.layer = Len(layers) + 1 /\ at.pos = 1

\* Applied are the operations the walk over the layers has passed.
Walked ==
  /\ \A L, p : Position(L, p) => (IsApplied(layers[L][p]) <=> Passed(L, p))
  /\ \A k \in DOMAIN applied : \E L, p : Position(L, p) /\ applied[k] = layers[L][p]

\* Behind an applied operation are all the operations of the layers before its
\* own.
LayersInOrder ==
  \A k \in DOMAIN applied : \A L \in DOMAIN layers : applied[k] \in Members(L) =>
    \A K \in 1..(L - 1) : \A i \in Members(K) : AppliedBefore(k, i)

NoRepeats == \A k \in DOMAIN applied : ~AppliedBefore(k, applied[k])

SchedulerInv == PlanInv /\ Progress /\ Walked /\ LayersInOrder /\ NoRepeats

\* Before the first operation is applied.
Nothing == TypeOK /\ applied = << >> /\ at = [layer |-> 1, pos |-> 1]

\* Nothing is applied while the plan is made.
LEMMA NothingApplied == Nothing => Walked /\ LayersInOrder /\ NoRepeats
<1> SUFFICES ASSUME TypeOK, applied = << >>, at = [layer |-> 1, pos |-> 1]
             PROVE  Walked /\ LayersInOrder /\ NoRepeats
  BY DEF Nothing
<1>1. DOMAIN applied = {}
  OBVIOUS
<1>2. \A L, p : Position(L, p) => ~Passed(L, p)
  <2> SUFFICES ASSUME NEW L, NEW p, Position(L, p) PROVE ~Passed(L, p)
    OBVIOUS
  <2>1. layers \in Seq(Seq(Nat)) /\ L \in DOMAIN layers /\ p \in DOMAIN layers[L]
    BY DEF Position, TypeOK
  <2>2. L \in Nat \ {0} /\ layers[L] \in Seq(Nat)
    BY <2>1
  <2>3. p \in Nat \ {0}
    BY <2>1, <2>2
  <2> QED
    BY <2>2, <2>3 DEF Passed
<1> QED
  BY <1>1, <1>2 DEF Walked, LayersInOrder, NoRepeats, IsApplied

\* A step that leaves the block and its layers alone keeps the plan.
LEMMA PlanKept ==
  ASSUME PlanInv, UNCHANGED <<block, planned, layers>>, TypeOK'
  PROVE  PlanInv'
<1>1. \A L : Members(L)' = Members(L)
  BY DEF Members
<1>2. \A i, j : Conflict(i, j)' = Conflict(i, j)
  BY DEF Conflict, Touch, Global
<1>3. Partition'
  BY <1>1 DEF PlanInv, Partition
<1> QED
  BY <1>1, <1>2, <1>3 DEF PlanInv, LayersIndependent, FirstFit

\* A step that leaves the layers and the walk alone keeps what the walk did.
LEMMA WalkKept ==
  ASSUME Walked, LayersInOrder, NoRepeats, UNCHANGED <<layers, at, applied>>
  PROVE  Walked' /\ LayersInOrder' /\ NoRepeats'
<1>1. \A L : Members(L)' = Members(L)
  BY DEF Members
<1>2. \A k, i : AppliedBefore(k, i)' = AppliedBefore(k, i)
  BY DEF AppliedBefore
<1>3. \A i : IsApplied(i)' = IsApplied(i)
  BY DEF IsApplied
<1>4. \A L, p : Position(L, p)' = Position(L, p) /\ Passed(L, p)' = Passed(L, p)
  BY DEF Position, Passed
<1>5. Walked'
  BY <1>3, <1>4 DEF Walked
<1>6. LayersInOrder'
  BY <1>1, <1>2 DEF LayersInOrder
<1>7. NoRepeats'
  BY <1>2 DEF NoRepeats
<1> QED
  BY <1>5, <1>6, <1>7

\* An apply step passes exactly the current position.
LEMMA StepPasses ==
  ASSUME TypeOK, Position(at.layer, at.pos), ApplyOne,
         NEW L, NEW p, Position(L, p)
  PROVE  Passed(L, p)' <=> Passed(L, p) \/ (L = at.layer /\ p = at.pos)
<1>1. /\ layers \in Seq(Seq(Nat)) /\ L \in DOMAIN layers /\ p \in DOMAIN layers[L]
      /\ at.layer \in DOMAIN layers /\ at.pos \in DOMAIN layers[at.layer]
      /\ at \in [layer: Nat \ {0}, pos: Nat \ {0}]
  BY DEF Position, TypeOK
<1>2. L \in Nat \ {0} /\ layers[L] \in Seq(Nat) /\ layers[at.layer] \in Seq(Nat)
  BY <1>1, SMTT(30)
<1>3. p \in 1..Len(layers[L]) /\ Len(layers[L]) \in Nat
  BY <1>1, <1>2, SMTT(30)
<1>4. at.layer \in Nat /\ at.pos \in Nat /\ Len(layers[at.layer]) \in Nat
  BY <1>1, <1>2
<1>5. at' = IF HasMore THEN [at EXCEPT !.pos = @ + 1] ELSE [layer |-> at.layer + 1, pos |-> 1]
  BY DEF ApplyOne
<1>6. CASE HasMore
  <2>1. at'.layer = at.layer /\ at'.pos = at.pos + 1
    BY <1>1, <1>5, <1>6
  <2> QED
    BY <1>2, <1>3, <1>4, <2>1 DEF Passed
<1>7. CASE ~HasMore
  <2>1. at'.layer = at.layer + 1 /\ at'.pos = 1
    BY <1>5, <1>7
  <2>2. L = at.layer => p <= at.pos
    BY <1>3, <1>4, <1>7 DEF HasMore
  <2> QED
    BY <1>2, <1>3, <1>4, <2>1, <2>2 DEF Passed
<1> QED
  BY <1>6, <1>7

\* An apply step keeps the walk in step with what is applied.
LEMMA ApplyInv ==
  ASSUME SchedulerInv, ApplyOne
  PROVE  SchedulerInv'
<1> DEFINE c == layers[at.layer][at.pos]
<1> PICK N : N = Len(applied) + 1
  OBVIOUS
<1>0. PlanInv /\ Progress /\ Walked /\ LayersInOrder /\ NoRepeats /\ TypeOK /\ Partition
  BY DEF SchedulerInv, PlanInv
<1>1. /\ status = "apply" /\ Position(at.layer, at.pos) /\ planned = Len(block)
      /\ applied' = Append(applied, c)
      /\ UNCHANGED <<block, planned, layers>>
  BY <1>0 DEF ApplyOne, Current, Progress
<1>2. /\ applied \in Seq(Nat) /\ layers \in Seq(Seq(Nat))
      /\ at \in [layer: Nat \ {0}, pos: Nat \ {0}]
      /\ at.layer \in DOMAIN layers /\ at.pos \in DOMAIN layers[at.layer]
  BY <1>0, <1>1 DEF TypeOK, Position
<1>3. layers[at.layer] \in Seq(Nat) /\ at.layer \in 1..Len(layers) /\ Len(layers) \in Nat
  BY <1>2
<1>4. c \in Nat /\ at.pos \in 1..Len(layers[at.layer])
  BY <1>2, <1>3
<1> HIDE DEF c
<1>5. /\ applied' \in Seq(Nat) /\ DOMAIN applied' = DOMAIN applied \cup {N}
      /\ N \notin DOMAIN applied /\ N \in Nat /\ N - 1 = Len(applied)
      /\ DOMAIN applied = 1..(N - 1)
      /\ applied'[N] = c
      /\ \A k \in DOMAIN applied : applied'[k] = applied[k]
  <2>1. Len(applied) \in Nat /\ DOMAIN applied = 1..Len(applied)
    BY <1>2
  <2>2. N \in Nat /\ N - 1 = Len(applied) /\ N \notin DOMAIN applied
    BY <2>1
  <2>3. applied' \in Seq(Nat) /\ Len(applied') = N
    BY <1>1, <1>2, <1>4
  <2>4. applied'[N] = c /\ \A k \in DOMAIN applied : applied'[k] = applied[k]
    BY <1>1, <1>2, <1>4, SMTT(30)
  <2>5. DOMAIN applied' = DOMAIN applied \cup {N}
    BY <2>1, <2>2, <2>3
  <2> QED
    BY <2>1, <2>2, <2>3, <2>4, <2>5
<1>6. \A k \in DOMAIN applied : 1..(k - 1) \subseteq DOMAIN applied
  BY <1>5
<1>7. \A k \in DOMAIN applied : \A i : AppliedBefore(k, i)' = AppliedBefore(k, i)
  BY <1>5, <1>6, Zenon DEF AppliedBefore
<1>8. \A i : AppliedBefore(N, i)' = IsApplied(i)
  BY <1>5, ZenonT(30) DEF AppliedBefore, IsApplied
<1>9. \A i : IsApplied(i)' <=> IsApplied(i) \/ i = c
  BY <1>5 DEF IsApplied
<1>10. \A L : Members(L)' = Members(L)
  BY <1>1 DEF Members
<1>11. PlanInv'
  <2>1. at' \in [layer: Nat \ {0}, pos: Nat \ {0}]
    <3>0. at.layer \in Nat \ {0} /\ at.pos \in Nat \ {0}
      BY <1>2
    <3>1. CASE HasMore
      <4>1. at' = [at EXCEPT !.pos = at.pos + 1] /\ at.pos + 1 \in Nat \ {0}
        BY <3>0, <3>1 DEF ApplyOne
      <4> QED
        BY <1>2, <4>1, Zenon
    <3>2. CASE ~HasMore
      <4>1. at' = [layer |-> at.layer + 1, pos |-> 1] /\ at.layer + 1 \in Nat \ {0}
        BY <3>0, <3>2 DEF ApplyOne
      <4> QED
        BY <4>1
    <3> QED
      BY <3>1, <3>2
  <2>2. status' \in {"plan", "apply", "done", "threw"}
    BY DEF ApplyOne
  <2>3. TypeOK'
    BY <1>0, <1>1, <1>5, <2>1, <2>2 DEF TypeOK
  <2> QED
    BY <1>0, <1>1, <2>3, PlanKept
<1>12. Progress'
  <2>1. CASE HasMore
    <3>1. at'.layer = at.layer /\ at'.pos = at.pos + 1 /\ status' = "apply"
      BY <1>2, <2>1 DEF ApplyOne
    <3>2. at'.pos \in DOMAIN layers[at.layer]
      BY <1>3, <1>4, <2>1, <3>1 DEF HasMore
    <3> QED
      BY <1>1, <1>2, <3>1, <3>2 DEF Progress, Position
  <2>2. CASE ~HasMore /\ at.layer < Len(layers)
    <3>1. at'.layer = at.layer + 1 /\ at'.pos = 1 /\ status' = "apply"
      BY <2>2 DEF ApplyOne
    <3>2. at.layer + 1 \in DOMAIN layers
      BY <1>2, <1>3, <2>2
    <3>3. layers[at.layer + 1] # << >> /\ layers[at.layer + 1] \in Seq(Nat)
      BY <1>0, <1>2, <3>2 DEF Partition
    <3>4. 1 \in DOMAIN layers[at.layer + 1]
      BY <3>3
    <3> QED
      BY <1>1, <3>1, <3>2, <3>4 DEF Progress, Position
  <2>3. CASE ~HasMore /\ ~(at.layer < Len(layers))
    <3>1. at'.layer = at.layer + 1 /\ at'.pos = 1 /\ status' = "done"
      BY <2>3 DEF ApplyOne
    <3>2. at.layer = Len(layers)
      BY <1>3, <2>3
    <3> QED
      BY <1>1, <3>1, <3>2 DEF Progress
  <2> QED
    BY <2>1, <2>2, <2>3
<1>13. Walked'
  <2>1. \A L, p : Position(L, p)' = Position(L, p)
    BY <1>1 DEF Position
  <2>2. ASSUME NEW L, NEW p, Position(L, p)
        PROVE  IsApplied(layers[L][p])' <=> Passed(L, p)'
    <3>1. Passed(L, p)' <=> Passed(L, p) \/ (L = at.layer /\ p = at.pos)
      BY <1>0, <1>1, <2>2, StepPasses
    <3>2. layers[L][p] = c <=> L = at.layer /\ p = at.pos
      BY <1>0, <1>1, <2>2 DEF Partition, Position, c
    <3>3. IsApplied(layers[L][p]) <=> Passed(L, p)
      BY <1>0, <2>2 DEF Walked
    <3>4. IsApplied(layers[L][p])' <=> IsApplied(layers[L][p]) \/ layers[L][p] = c
      BY <1>1, <1>9
    <3> QED
      BY <3>1, <3>2, <3>3, <3>4
  <2>3. ASSUME NEW k \in DOMAIN applied'
        PROVE  \E L, p : Position(L, p) /\ applied'[k] = layers[L][p]
    <3>1. CASE k \in DOMAIN applied
      <4>1. applied'[k] = applied[k]
        BY <1>5, <3>1
      <4> QED
        BY <1>0, <3>1, <4>1 DEF Walked
    <3>2. CASE k = N
      <4>1. applied'[k] = layers[at.layer][at.pos]
        BY <1>5, <3>2 DEF c
      <4> QED
        BY <1>1, <4>1
    <3> QED
      BY <1>5, <3>1, <3>2
  <2> QED
    BY <1>1, <2>1, <2>2, <2>3 DEF Walked
<1>14. LayersInOrder'
  <2> SUFFICES ASSUME NEW k \in DOMAIN applied', NEW L \in DOMAIN layers,
                      applied'[k] \in Members(L), NEW K \in 1..(L - 1), NEW i \in Members(K)
               PROVE  AppliedBefore(k, i)'
    BY <1>1, <1>10 DEF LayersInOrder
  <2>1. CASE k \in DOMAIN applied
    BY <1>0, <1>5, <1>7, <2>1 DEF LayersInOrder
  <2>2. CASE k = N
    <3>1. L = at.layer
      <4>1. PICK p \in DOMAIN layers[L] : c = layers[L][p]
        BY <1>5, <2>2 DEF Members
      <4> QED
        BY <1>0, <1>2, <4>1 DEF Partition, c
    <3>2. PICK q \in DOMAIN layers[K] : i = layers[K][q]
      BY DEF Members
    <3>3. K \in DOMAIN layers /\ K < at.layer
      BY <1>2, <1>3, <3>1, SMTT(30)
    <3>4. Position(K, q) /\ Passed(K, q)
      BY <3>2, <3>3 DEF Position, Passed
    <3>5. IsApplied(i)
      BY <1>0, <3>2, <3>4 DEF Walked
    <3> QED
      BY <1>8, <2>2, <3>5
  <2> QED
    BY <1>5, <2>1, <2>2
<1>15. NoRepeats'
  <2>1. ~IsApplied(c)
    <3>1. ~Passed(at.layer, at.pos)
      BY <1>2 DEF Passed
    <3> QED
      BY <1>0, <1>1, <3>1 DEF Walked, c
  <2> QED
    BY <1>0, <1>5, <1>7, <1>8, <2>1 DEF NoRepeats
<1> QED
  BY <1>11, <1>12, <1>13, <1>14, <1>15 DEF SchedulerInv

\* A block starts unplanned.
LEMMA InitInv == Init => SchedulerInv
<1> SUFFICES ASSUME Init PROVE SchedulerInv
  OBVIOUS
<1>1. /\ planned = 0 /\ layers = << >> /\ at = [layer |-> 1, pos |-> 1] /\ applied = << >>
      /\ status = "plan"
  BY DEF Init
<1>2. block \in Seq(scheduled_op)
  BY DEF Init, Blocks
<1>3. TypeOK
  BY <1>1, <1>2 DEF TypeOK
<1>4. DOMAIN layers = {} /\ 1..planned = {}
  BY <1>1
<1>5. PlanInv
  BY <1>3, <1>4 DEF PlanInv, Partition, LayersIndependent, FirstFit
<1>6. Progress
  BY <1>1 DEF Progress
<1> QED
  BY <1>1, <1>3, <1>5, <1>6, NothingApplied DEF SchedulerInv, Nothing

\* The end of the plan starts the walk at the first operation of the first layer.
LEMMA PlannedInv ==
  ASSUME SchedulerInv, Planned
  PROVE  SchedulerInv'
<1>0. PlanInv /\ TypeOK /\ Partition /\ Progress
  BY DEF SchedulerInv, PlanInv
<1>1. /\ status = "plan" /\ planned = Len(block)
      /\ status' = IF block = << >> THEN "done" ELSE "apply"
      /\ UNCHANGED <<block, planned, layers, at, applied>>
  BY DEF Planned
<1>2. applied = << >> /\ at = [layer |-> 1, pos |-> 1]
  BY <1>0, <1>1 DEF Progress
<1>3. TypeOK'
  BY <1>0, <1>1 DEF TypeOK
<1>4. PlanInv'
  BY <1>0, <1>1, <1>3, PlanKept
<1>5. Walked' /\ LayersInOrder' /\ NoRepeats'
  BY <1>1, WalkKept DEF SchedulerInv
<1>6. Progress'
  <2>0. layers \in Seq(Seq(Nat)) /\ block \in Seq(scheduled_op)
    BY <1>0 DEF TypeOK
  <2>1. CASE block = << >>
    <3>1. DOMAIN layers = {}
      <4> SUFFICES ASSUME NEW L \in DOMAIN layers PROVE FALSE
        BY Zenon
      <4>1. layers[L] # << >> /\ layers[L] \in Seq(Nat) /\ Members(L) \subseteq 1..planned
        BY <1>0, <2>0 DEF Partition
      <4>2. layers[L][1] \in Members(L)
        BY <4>1 DEF Members
      <4> QED
        BY <1>1, <2>1, <4>1, <4>2
    <3>2. Len(layers) = 0
      BY <2>0, <3>1
    <3> QED
      BY <1>1, <1>2, <2>1, <3>2 DEF Progress
  <2>2. CASE block # << >>
    <3>1. 1 \in 1..planned
      BY <1>1, <2>0, <2>2
    <3>2. PICK L \in DOMAIN layers : 1 \in Members(L)
      BY <1>0, <3>1 DEF Partition
    <3>3. 1 \in DOMAIN layers
      BY <2>0, <3>2
    <3>4. layers[1] # << >> /\ layers[1] \in Seq(Nat)
      BY <1>0, <2>0, <3>3 DEF Partition
    <3>5. 1 \in DOMAIN layers[1]
      BY <3>4
    <3> QED
      BY <1>1, <1>2, <2>2, <3>3, <3>5 DEF Progress, Position
  <2> QED
    BY <2>1, <2>2
<1> QED
  BY <1>4, <1>5, <1>6 DEF SchedulerInv

\* Every step keeps the invariant.
LEMMA NextInv == SchedulerInv /\ [Next]_vars => SchedulerInv'
<1> SUFFICES ASSUME SchedulerInv, [Next]_vars PROVE SchedulerInv'
  OBVIOUS
<1>1. CASE Place
  <2>1. PlanInv'
    BY <1>1, PlaceInv DEF SchedulerInv
  <2>2. TypeOK' /\ UNCHANGED <<block, at, applied, status>> /\ status = "plan" /\ Progress
    BY <1>1, <2>1 DEF Place, PlanInv, SchedulerInv
  <2>3. applied' = << >> /\ at' = [layer |-> 1, pos |-> 1] /\ status' = "plan"
    BY <2>2 DEF Progress
  <2>4. Walked' /\ LayersInOrder' /\ NoRepeats'
    <3>1. Nothing'
      BY <2>2, <2>3 DEF Nothing
    <3> QED
      BY <3>1, NothingApplied, PTL
  <2>5. Progress'
    BY <2>3 DEF Progress
  <2> QED
    BY <2>1, <2>4, <2>5 DEF SchedulerInv
<1>2. CASE Planned
  BY <1>2, PlannedInv
<1>3. CASE ApplyOne
  BY <1>3, ApplyInv
<1>4. CASE Throw \/ UNCHANGED vars
  <2>1. UNCHANGED <<block, planned, layers, at, applied>>
    BY <1>4 DEF Throw, vars
  <2>2. TypeOK' /\ Progress'
    BY <1>4, <2>1, Zenon DEF Throw, vars, SchedulerInv, PlanInv, TypeOK, Progress, Position
  <2>3. PlanInv'
    BY <2>1, <2>2, PlanKept DEF SchedulerInv
  <2>4. Walked' /\ LayersInOrder' /\ NoRepeats'
    BY <2>1, WalkKept DEF SchedulerInv
  <2> QED
    BY <2>2, <2>3, <2>4 DEF SchedulerInv
<1> QED
  BY <1>1, <1>2, <1>3, <1>4 DEF Next

----------------------------------------------------------------------------
\* An operation is in a later layer than every earlier one it covers: whatever
\* kept the covered one out of a layer keeps the other out too.
LEMMA CoveredEarlier ==
  ASSUME PlanInv, NEW K \in DOMAIN layers, NEW i \in Members(K),
         NEW L \in DOMAIN layers, NEW j \in Members(L), i < j, Covers(j, i)
  PROVE  K < L
<1>0. /\ TypeOK /\ LayersIndependent /\ FirstFit
      /\ Members(K) \subseteq 1..planned /\ Members(L) \subseteq 1..planned
  BY DEF PlanInv, Partition
<1>1. K \in Nat \ {0} /\ L \in Nat \ {0} /\ i \in Nat /\ j \in Nat /\ i \in DOMAIN block
  BY <1>0, SMTT(30) DEF TypeOK
<1>2. CASE K = L
  <2>1. ~Conflict(i, j)
    BY <1>0, <1>1, <1>2 DEF LayersIndependent
  <2>2. ~Global(j) /\ ~Global(i) /\ Touch(i) \subseteq Touch(j)
    BY <2>1 DEF Covers, Conflict
  <2>3. Touch(i) # {}
    BY <1>0, <1>1, <2>2, TouchNonempty
  <2> QED
    BY <2>1, <2>2, <2>3 DEF Conflict
<1>3. CASE L < K
  <2>1. L \in 1..(K - 1)
    BY <1>1, <1>3
  <2>2. PICK m \in Members(L) : m < i /\ Conflict(m, i)
    BY <1>0, <2>1 DEF FirstFit
  <2>3. Conflict(m, j)
    BY <2>2 DEF Covers, Conflict
  <2>4. m # j
    BY <1>0, <1>1, <2>2
  <2> QED
    BY <1>0, <2>3, <2>4 DEF LayersIndependent
<1> QED
  BY <1>1, <1>2, <1>3

\* The three facts about a state of the scheduler.
LEMMA InvImplies == SchedulerInv => LayersIndependent /\ EachOpOnce /\ CoveredOrderKept
<1> SUFFICES ASSUME SchedulerInv PROVE EachOpOnce /\ CoveredOrderKept
  BY DEF SchedulerInv, PlanInv
<1>0. /\ PlanInv /\ TypeOK /\ Partition /\ Progress /\ Walked /\ LayersInOrder /\ NoRepeats
      /\ layers \in Seq(Seq(Nat))
  BY DEF SchedulerInv, PlanInv, TypeOK
<1>1. EachOpOnce
  <2> SUFFICES ASSUME status = "done", NEW i \in DOMAIN block
               PROVE  IsApplied(i)
    BY <1>0 DEF EachOpOnce, NoRepeats, IsApplied
  <2>1. i \in 1..planned
    BY <1>0 DEF Progress, TypeOK
  <2>2. PICK L \in DOMAIN layers : i \in Members(L)
    BY <1>0, <2>1 DEF Partition
  <2>3. PICK p \in DOMAIN layers[L] : layers[L][p] = i
    BY <2>2 DEF Members
  <2>4. Passed(L, p)
    BY <1>0, SMTT(30) DEF Passed, Progress
  <2> QED
    BY <1>0, <2>3, <2>4 DEF Walked, Position
<1>2. CoveredOrderKept
  <2> SUFFICES ASSUME NEW k \in DOMAIN applied, NEW i \in 1..(applied[k] - 1),
                      Covers(applied[k], i)
               PROVE  AppliedBefore(k, i)
    BY DEF CoveredOrderKept
  <2>1. PICK L \in DOMAIN layers : applied[k] \in Members(L)
    BY <1>0 DEF Walked, Position, Members
  <2>2. applied[k] \in 1..planned /\ planned \in Nat
    BY <1>0, <2>1 DEF Partition, TypeOK
  <2>3. i \in 1..planned /\ i < applied[k]
    BY <2>2
  <2>4. PICK K \in DOMAIN layers : i \in Members(K)
    BY <1>0, <2>3 DEF Partition
  <2>5. K < L
    BY <1>0, <2>1, <2>3, <2>4, CoveredEarlier, Zenon
  <2>6. K \in 1..(L - 1)
    BY <1>0, <2>5
  <2> QED
    BY <1>0, <2>1, <2>4, <2>6 DEF LayersInOrder
<1> QED
  BY <1>1, <1>2

\* No two operations of a layer conflict, whatever the block.
THEOREM LayersAreIndependent == Spec => []LayersIndependent
BY InitInv, NextInv, InvImplies, PTL DEF Spec

\* apply_scheduled applies no operation twice, and all of them if none throws.
THEOREM EveryOpOnce == Spec => []EachOpOnce
BY InitInv, NextInv, InvImplies, PTL DEF Spec

\* Reordering never moves an operation in front of an earlier one it covers, nor
\* a global operation in front of anything.
THEOREM CoveredStaysAhead == Spec => []CoveredOrderKept
BY InitInv, NextInv, InvImplies, PTL DEF Spec

(***************************************************************************)
(* Orders of operations: two runs whose operations come after the same     *)
(* operations they conflict with do the same.                              *)
(***************************************************************************)

\* A nonempty set of natural numbers has a least element.
LEMMA LeastOf ==
  ASSUME NEW S \in SUBSET Nat, S # {}
  PROVE  \E i \in S : \A j \in S : i <= j
<1>1. PICK i \in S : \A j \in S : ~(<<j, i>> \in OpToRel(<, Nat))
  BY NatLessThanWellFounded, WFMin, Zenon
<1>2. \A j \in S : ~(j < i)
  BY <1>1, Zenon DEF OpToRel
<1> QED
  BY <1>2

\* And a greatest one if it is bounded.
LEMMA GreatestOf ==
  ASSUME NEW S \in SUBSET Nat, S # {}, NEW n \in Nat, \A x \in S : x <= n
  PROVE  \E i \in S : \A j \in S : j <= i
<1> DEFINE B == {d \in Nat : n - d \in S}
<1>1. B # {}
  <2>1. PICK x \in S : x \in Nat /\ x <= n
    BY Zenon
  <2>2. n - x \in Nat /\ n - (n - x) = x
    BY <2>1
  <2> QED
    BY <2>1, <2>2, Zenon
<1>2. PICK d \in B : \A c \in B : d <= c
  BY <1>1, LeastOf, Zenon
<1>3. \A j \in S : j <= n - d
  <2> SUFFICES ASSUME NEW j \in S PROVE j <= n - d
    OBVIOUS
  <2>1. n - j \in Nat /\ n - (n - j) = j
    OBVIOUS
  <2>2. d <= n - j
    BY <1>2, <2>1
  <2> QED
    BY <2>2
<1> QED
  BY <1>2, <1>3

----------------------------------------------------------------------------
\* A run of the operations s gives, before and after each of them, a view of
\* the tables: a value for every key.  An operation leaves alone the keys it does
\* not touch.
Framed(V, s, Ks) ==
  \A k \in 1..Len(s) : \A key \in Ks : key \notin Touch(s[k]) => V[k][key] = V[k - 1][key]

\* e tells where the operations of s are in u: after the same operations they
\* conflict with.
Embeds(s, u, e) ==
  /\ Len(s) \in Nat /\ Len(u) \in Nat
  /\ \A m \in 1..Len(s) : e[m] \in 1..Len(u) /\ u[e[m]] = s[m]
  /\ \A q, m \in 1..Len(s) : q < m /\ Conflict(s[q], s[m]) => e[q] < e[m]
  /\ \A m \in 1..Len(s) : \A r \in 1..Len(u) :
       r < e[m] /\ Conflict(u[r], s[m]) => \E q \in 1..(m - 1) : e[q] = r

\* The m-th operation of s finds, in both runs, the same under the keys it touches.
SameBefore(V, W, s, e, Ks, m) ==
  \A key \in Ks : key \in Touch(s[m]) => V[m - 1][key] = W[e[m] - 1][key]

\* Then it leaves the same there.
Local(V, W, s, e, Ks) ==
  \A m \in 1..Len(s) : SameBefore(V, W, s, e, Ks, m) =>
    \A key \in Ks : key \in Touch(s[m]) => V[m][key] = W[e[m]][key]

\* No operation after a, up to b, touches the key.
Idle(s, key, a, b) == \A k \in (a + 1)..b : key \notin Touch(s[k])

\* What no operation from a to b touches is the same at b as at a.
LEMMA Untouched ==
  ASSUME NEW s, Len(s) \in Nat, NEW V, NEW Ks, Framed(V, s, Ks), NEW key \in Ks,
         NEW a \in Nat, NEW b \in Nat, a <= b, b <= Len(s), Idle(s, key, a, b)
  PROVE  V[b][key] = V[a][key]
<1> DEFINE Bad == {j \in Nat : a + j <= b /\ V[a + j][key] # V[a][key]}
<1>1. Bad = {}
  <2> SUFFICES ASSUME Bad # {} PROVE FALSE
    OBVIOUS
  <2>1. PICK j \in Bad : \A i \in Bad : j <= i
    <3>1. Bad \in SUBSET Nat
      OBVIOUS
    <3> QED
      BY <3>1, LeastOf, Zenon
  <2>2. j \in Nat /\ a + j <= b /\ V[a + j][key] # V[a][key] /\ j # 0
    BY a + 0 = a
  <2>3. j - 1 \in Nat /\ ~(j <= j - 1) /\ a + (j - 1) <= b
    BY <2>2
  <2>4. V[a + (j - 1)][key] = V[a][key]
    BY <2>1, <2>3, Zenon
  <2>5. a + j \in (a + 1)..b /\ a + j \in 1..Len(s) /\ (a + j) - 1 = a + (j - 1)
    BY <2>2
  <2>6. V[a + j][key] = V[(a + j) - 1][key]
    BY <2>5 DEF Framed, Idle
  <2> QED
    BY <2>2, <2>4, <2>5, <2>6
<1>2. b - a \in Nat /\ a + (b - a) = b
  OBVIOUS
<1>3. b - a \notin Bad
  BY <1>1, Zenon
<1> QED
  BY <1>2, <1>3

\* Before position m of s and position w of u a key has the same value, if the
\* same operations touched it.
LEMMA KeySame ==
  ASSUME NEW s, NEW u, NEW e, Embeds(s, u, e), NEW V, NEW W, NEW Ks,
         Framed(V, s, Ks), Framed(W, u, Ks), Local(V, W, s, e, Ks),
         NEW key \in Ks, V[0][key] = W[0][key],
         NEW m \in 1..(Len(s) + 1), NEW w \in 1..(Len(u) + 1),
         \A q \in 1..(m - 1) : SameBefore(V, W, s, e, Ks, q),
         \A q \in 1..(m - 1) : key \in Touch(s[q]) => e[q] < w,
         \A r \in 1..(w - 1) : key \in Touch(u[r]) => \E q \in 1..(m - 1) : e[q] = r
  PROVE  V[m - 1][key] = W[w - 1][key]
<1>0. Len(s) \in Nat /\ Len(u) \in Nat /\ m \in Nat /\ w \in Nat
  BY DEF Embeds
<1> DEFINE P == {q \in 1..(m - 1) : key \in Touch(s[q])}
<1>1. CASE P = {}
  <2>1. \A k \in 1..(m - 1) : key \notin Touch(s[k])
    BY <1>1
  <2>2. \A r \in 1..(w - 1) : key \notin Touch(u[r])
    <3> SUFFICES ASSUME NEW r \in 1..(w - 1), key \in Touch(u[r]) PROVE FALSE
      OBVIOUS
    <3>1. PICK q \in 1..(m - 1) : e[q] = r
      OBVIOUS
    <3>2. q \in 1..Len(s)
      BY <1>0
    <3>3. u[r] = s[q]
      BY <3>1, <3>2 DEF Embeds
    <3> QED
      BY <2>1, <3>3
  <2>3. V[m - 1][key] = V[0][key]
    <3>1. m - 1 \in Nat /\ 0 <= m - 1 /\ m - 1 <= Len(s) /\ 0 \in Nat
      BY <1>0
    <3>2. Idle(s, key, 0, m - 1)
      BY <2>1 DEF Idle
    <3> QED
      BY <1>0, <3>1, <3>2, Untouched
  <2>4. W[w - 1][key] = W[0][key]
    <3>1. w - 1 \in Nat /\ 0 <= w - 1 /\ w - 1 <= Len(u) /\ 0 \in Nat
      BY <1>0
    <3>2. Idle(u, key, 0, w - 1)
      BY <2>2 DEF Idle
    <3> QED
      BY <1>0, <3>1, <3>2, Untouched
  <2> QED
    BY <2>3, <2>4
<1>2. CASE P # {}
  <2>1. PICK p \in P : \A q \in P : q <= p
    <3>1. P \in SUBSET Nat /\ \A q \in P : q <= m
      BY <1>0
    <3> HIDE DEF P
    <3> QED
      BY <1>0, <1>2, <3>1, GreatestOf, Zenon
  <2>2. p \in 1..(m - 1) /\ key \in Touch(s[p]) /\ p \in 1..Len(s) /\ p \in Nat /\ p <= m - 1
    BY <1>0, <2>1
  <2>3. e[p] \in 1..Len(u) /\ e[p] \in Nat /\ e[p] < w /\ u[e[p]] = s[p]
    BY <1>0, <2>2 DEF Embeds
  <2>4. V[p][key] = W[e[p]][key]
    BY <2>2 DEF Local
  <2>5. V[m - 1][key] = V[p][key]
    <3>1. m - 1 \in Nat /\ p <= m - 1 /\ m - 1 <= Len(s)
      BY <1>0, <2>2
    <3>2. Idle(s, key, p, m - 1)
      BY <1>0, <2>1, <2>2 DEF Idle
    <3> QED
      BY <1>0, <2>2, <3>1, <3>2, Untouched
  <2>6. W[w - 1][key] = W[e[p]][key]
    <3>1. w - 1 \in Nat /\ e[p] <= w - 1 /\ w - 1 <= Len(u)
      BY <1>0, <2>3, SMTT(30)
    <3>2. Idle(u, key, e[p], w - 1)
      <4> SUFFICES ASSUME NEW r \in (e[p] + 1)..(w - 1), key \in Touch(u[r]) PROVE FALSE
        BY DEF Idle
      <4>1. r \in 1..(w - 1) /\ r \in Nat /\ e[p] < r
        BY <1>0, <2>3, SMTT(30)
      <4>2. PICK q \in 1..(m - 1) : e[q] = r
        BY <4>1
      <4>3. q \in 1..Len(s) /\ q \in Nat /\ u[r] = s[q]
        BY <1>0, <4>2, SMTT(30) DEF Embeds
      <4>4. q \in P
        BY <4>3
      <4>5. q <= p /\ q # p
        BY <2>1, <2>3, <4>1, <4>2, <4>4
      <4>6. Conflict(s[q], s[p])
        BY <2>2, <4>3, Zenon DEF Conflict
      <4>7. e[q] < e[p]
        BY <2>2, <4>3, <4>5, <4>6 DEF Embeds
      <4> QED
        BY <2>3, <4>1, <4>2, <4>7
    <3> QED
      BY <1>0, <2>3, <3>1, <3>2, Untouched, SMTT(30)
  <2> QED
    BY <2>4, <2>5, <2>6
<1> QED
  BY <1>1, <1>2

\* Two runs from the same tables, of which one has the operations of the other
\* after the same conflicting ones: an operation finds the same in both.
LEMMA SameInBoth ==
  ASSUME NEW s, NEW u, NEW e, Embeds(s, u, e), NEW V, NEW W, NEW Ks,
         Framed(V, s, Ks), Framed(W, u, Ks), Local(V, W, s, e, Ks),
         \A key \in Ks : V[0][key] = W[0][key]
  PROVE  \A m \in 1..Len(s) : SameBefore(V, W, s, e, Ks, m)
<1>0. Len(s) \in Nat /\ Len(u) \in Nat
  BY DEF Embeds
<1> DEFINE Bad == {m \in 1..Len(s) : ~SameBefore(V, W, s, e, Ks, m)}
<1> SUFFICES ASSUME Bad # {} PROVE FALSE
  OBVIOUS
<1>1. PICK m \in Bad : \A q \in Bad : m <= q
  <2>1. Bad \in SUBSET Nat
    BY <1>0
  <2> HIDE DEF Bad
  <2> QED
    BY <2>1, LeastOf
<1>2. m \in 1..Len(s) /\ m \in Nat /\ m \in 1..(Len(s) + 1) /\ ~SameBefore(V, W, s, e, Ks, m)
  BY <1>0
<1>3. \A q \in 1..(m - 1) : SameBefore(V, W, s, e, Ks, q)
  BY <1>0, <1>1, <1>2
<1>4. PICK w : w = e[m]
  OBVIOUS
<1>5. w \in 1..Len(u) /\ w \in 1..(Len(u) + 1)
  BY <1>0, <1>2, <1>4, SMTT(30) DEF Embeds
<1>6. ASSUME NEW key \in Ks, key \in Touch(s[m])
      PROVE  V[m - 1][key] = W[w - 1][key]
  <2>1. \A q \in 1..(m - 1) : key \in Touch(s[q]) => e[q] < w
    <3> SUFFICES ASSUME NEW q \in 1..(m - 1), key \in Touch(s[q]) PROVE e[q] < w
      OBVIOUS
    <3>1. q \in 1..Len(s) /\ q < m
      BY <1>0, <1>2
    <3>2. Conflict(s[q], s[m])
      BY <1>6, Zenon DEF Conflict
    <3> QED
      BY <1>2, <1>4, <3>1, <3>2 DEF Embeds
  <2>2. \A r \in 1..(w - 1) : key \in Touch(u[r]) => \E q \in 1..(m - 1) : e[q] = r
    <3> SUFFICES ASSUME NEW r \in 1..(w - 1), key \in Touch(u[r])
                 PROVE  \E q \in 1..(m - 1) : e[q] = r
      OBVIOUS
    <3>1. r \in 1..Len(u) /\ r < e[m]
      BY <1>0, <1>4, <1>5
    <3>2. Conflict(u[r], s[m])
      BY <1>6 DEF Conflict
    <3> QED
      BY <1>2, <3>1, <3>2 DEF Embeds
  <2> QED
    BY <1>2, <1>3, <1>5, <1>6, <2>1, <2>2, KeySame, SMTT(30)
<1> QED
  BY <1>2, <1>4, <1>6 DEF SameBefore

\* All of u is in s.
Onto(s, u, e) == \A r \in 1..Len(u) : \E q \in 1..Len(s) : e[q] = r

\* Then both end the same.
LEMMA SameAtEnd ==
  ASSUME NEW s, NEW u, NEW e, Embeds(s, u, e), NEW V, NEW W, NEW Ks,
         Framed(V, s, Ks), Framed(W, u, Ks), Local(V, W, s, e, Ks),
         \A key \in Ks : V[0][key] = W[0][key], Onto(s, u, e)
  PROVE  \A key \in Ks : V[Len(s)][key] = W[Len(u)][key]
<1>0. Len(s) \in Nat /\ Len(u) \in Nat
  BY DEF Embeds
<1>1. PICK m, w : m = Len(s) + 1 /\ w = Len(u) + 1
  OBVIOUS
<1>2. m - 1 = Len(s) /\ w - 1 = Len(u)
  BY <1>0, <1>1
<1>7. m \in 1..(Len(s) + 1) /\ w \in 1..(Len(u) + 1)
  BY <1>0, <1>1
<1>3. \A q \in 1..(m - 1) : SameBefore(V, W, s, e, Ks, q)
  BY <1>2, SameInBoth, Zenon
<1>4. \A q \in 1..(m - 1) : e[q] < w
  BY <1>0, <1>1, <1>2 DEF Embeds
<1>5. \A r \in 1..(w - 1) : \E q \in 1..(m - 1) : e[q] = r
  BY <1>2, Zenon DEF Onto
<1>6. ASSUME NEW key \in Ks PROVE V[m - 1][key] = W[w - 1][key]
  <2>1. V[0][key] = W[0][key]
    OBVIOUS
  <2>2. \A q \in 1..(m - 1) : key \in Touch(s[q]) => e[q] < w
    BY <1>4
  <2>3. \A r \in 1..(w - 1) : key \in Touch(u[r]) => \E q \in 1..(m - 1) : e[q] = r
    BY <1>5
  <2> QED
    BY <1>7, <1>3, <2>1, <2>2, <2>3, KeySame
<1> QED
  BY <1>2, <1>6

----------------------------------------------------------------------------
\* An order in which indices of the block come, each once and after all of the
\* layers in front of its own.
Orderly(s) ==
  /\ Len(s) \in Nat
  /\ \A m \in 1..Len(s) : \E L \in DOMAIN layers :
       /\ s[m] \in Members(L)
       /\ \A K \in 1..(L - 1) : \A i \in Members(K) : \E q \in 1..(m - 1) : s[q] = i
  /\ \A m \in 1..Len(s) : \A q \in 1..(m - 1) : s[q] # s[m]

\* The block order, as a sequence of indices.
BlockOrder == [i \in DOMAIN block |-> i]

\* The block order applies the first operation first, and so on.
LEMMA BlockOrderIs ==
  ASSUME TypeOK
  PROVE  /\ Len(block) \in Nat /\ DOMAIN block = 1..Len(block) /\ Len(BlockOrder) = Len(block)
         /\ \A i \in 1..Len(block) : BlockOrder[i] = i
<1>1. block \in Seq(scheduled_op)
  BY DEF TypeOK
<1>2. Len(block) \in Nat /\ DOMAIN block = 1..Len(block)
  BY <1>1
<1> QED
  BY <1>2 DEF BlockOrder

\* Two operations conflict in both directions.
LEMMA ConflictSymmetric ==
  ASSUME NEW i, NEW j, Conflict(i, j)
  PROVE  Conflict(j, i)
BY DEF Conflict

\* If the layers keep conflicting operations in block order, then such an order
\* has each operation after the same conflicting ones as the block.
LEMMA OrderlyEmbeds ==
  ASSUME SchedulerInv, status # "plan", ConflictsInOrder, NEW s, Orderly(s)
  PROVE  Embeds(s, BlockOrder, s)
<1>0. /\ TypeOK /\ Partition /\ LayersIndependent /\ planned = Len(block)
  BY DEF SchedulerInv, PlanInv, Progress
<1>1. /\ Len(block) \in Nat /\ Len(BlockOrder) = Len(block)
      /\ \A i \in 1..Len(block) : BlockOrder[i] = i
  BY <1>0, BlockOrderIs
<1>2. Len(s) \in Nat /\ DOMAIN layers \subseteq Nat \ {0}
  BY <1>0 DEF Orderly, TypeOK
<1>3. \A L \in DOMAIN layers : Members(L) \subseteq 1..Len(block)
  BY <1>0 DEF Partition
<1>4. \A m \in 1..Len(s) : s[m] \in 1..Len(block)
  BY <1>3 DEF Orderly
<1>5. ASSUME NEW q \in 1..Len(s), NEW m \in 1..Len(s), q < m, Conflict(s[q], s[m])
      PROVE  s[q] < s[m]
  <2>1. PICK K \in DOMAIN layers :
          /\ s[q] \in Members(K)
          /\ \A J \in 1..(K - 1) : \A i \in Members(J) : \E p \in 1..(q - 1) : s[p] = i
    BY DEF Orderly
  <2>2. PICK L \in DOMAIN layers : s[m] \in Members(L)
    BY DEF Orderly
  <2>3. K \in Nat \ {0} /\ L \in Nat \ {0}
    BY <1>2
  <2>4. K # L
    <3>1. q \in 1..(m - 1)
      BY <1>2, <1>5
    <3>2. s[q] # s[m]
      BY <3>1 DEF Orderly
    <3> QED
      BY <1>0, <1>5, <2>1, <2>2, <3>2 DEF LayersIndependent
  <2>5. ~(L < K)
    <3> SUFFICES ASSUME L < K PROVE FALSE
      OBVIOUS
    <3>1. L \in 1..(K - 1)
      BY <2>3
    <3>2. PICK p \in 1..(q - 1) : s[p] = s[m]
      BY <2>1, <2>2, <3>1
    <3>3. p \in 1..(m - 1)
      BY <1>2, <1>5
    <3> QED
      BY <3>2, <3>3 DEF Orderly
  <2>6. K < L
    BY <2>3, <2>4, <2>5
  <2> QED
    BY <1>5, <2>1, <2>2, <2>6 DEF ConflictsInOrder
<1>6. ASSUME NEW m \in 1..Len(s), NEW r \in 1..Len(block), r < s[m], Conflict(r, s[m])
      PROVE  \E q \in 1..(m - 1) : s[q] = r
  <2>1. PICK L \in DOMAIN layers :
          /\ s[m] \in Members(L)
          /\ \A K \in 1..(L - 1) : \A i \in Members(K) : \E q \in 1..(m - 1) : s[q] = i
    BY DEF Orderly
  <2>2. PICK K \in DOMAIN layers : r \in Members(K)
    BY <1>0 DEF Partition
  <2>3. K \in Nat \ {0} /\ L \in Nat \ {0} /\ s[m] \in Nat
    BY <1>1, <1>2, <1>4
  <2>4. K # L
    BY <1>0, <1>6, <2>1, <2>2, <2>3 DEF LayersIndependent
  <2>5. ~(L < K)
    <3> SUFFICES ASSUME L < K PROVE FALSE
      OBVIOUS
    <3>1. Conflict(s[m], r)
      BY <1>6, ConflictSymmetric
    <3>2. s[m] < r
      BY <2>1, <2>2, <3>1, Zenon DEF ConflictsInOrder
    <3> QED
      BY <1>6, <2>3, <3>2
  <2>6. K \in 1..(L - 1)
    BY <2>3, <2>4, <2>5
  <2> QED
    BY <2>1, <2>2, <2>6
<1> QED
  BY <1>1, <1>2, <1>4, <1>5, <1>6 DEF Embeds

\* What is applied is in order.
LEMMA AppliedOrderly == SchedulerInv => Orderly(applied)
<1> SUFFICES ASSUME SchedulerInv PROVE Orderly(applied)
  OBVIOUS
<1>1. applied \in Seq(Nat) /\ Walked /\ LayersInOrder /\ NoRepeats
  BY DEF SchedulerInv, PlanInv, TypeOK
<1>2. Len(applied) \in Nat /\ DOMAIN applied = 1..Len(applied)
  BY <1>1
<1>3. ASSUME NEW m \in 1..Len(applied)
      PROVE  \E L \in DOMAIN layers :
               /\ applied[m] \in Members(L)
               /\ \A K \in 1..(L - 1) : \A i \in Members(K) : \E q \in 1..(m - 1) : applied[q] = i
  <2>1. PICK L, p : Position(L, p) /\ applied[m] = layers[L][p]
    BY <1>1, <1>2 DEF Walked
  <2>2. L \in DOMAIN layers /\ applied[m] \in Members(L)
    BY <2>1 DEF Position, Members
  <2> QED
    BY <1>1, <1>2, <2>2 DEF LayersInOrder, AppliedBefore
<1> QED
  BY <1>1, <1>2, <1>3 DEF Orderly, NoRepeats, AppliedBefore

\* And so is the operation that is due.
LEMMA CurrentOrderly ==
  ASSUME SchedulerInv, status \in {"apply", "threw"}
  PROVE  Orderly(Append(applied, Current))
<1>1. /\ applied \in Seq(Nat) /\ layers \in Seq(Seq(Nat)) /\ at \in [layer: Nat \ {0}, pos: Nat \ {0}]
      /\ Walked /\ Position(at.layer, at.pos) /\ Orderly(applied)
  BY AppliedOrderly DEF SchedulerInv, PlanInv, TypeOK, Progress
<1>2. PICK n, s, c : n = Len(applied) /\ s = Append(applied, Current) /\ c = Current
  BY Zenon
<1>3. at.layer \in DOMAIN layers /\ c = layers[at.layer][at.pos] /\ c \in Members(at.layer)
  BY <1>1, <1>2, Zenon DEF Position, Current, Members
<1>4. c \in Nat
  BY <1>1, <1>3 DEF Position
<1>5. /\ n \in Nat /\ Len(s) = n + 1 /\ s[n + 1] = c /\ \A k \in 1..n : s[k] = applied[k]
      /\ DOMAIN applied = 1..n
  BY <1>1, <1>2, <1>4, SMTT(30)
<1>6. \A K \in 1..(at.layer - 1) : \A i \in Members(K) : \E q \in 1..n : applied[q] = i
  <2> SUFFICES ASSUME NEW K \in 1..(at.layer - 1), NEW i \in Members(K)
               PROVE  \E q \in 1..n : applied[q] = i
    OBVIOUS
  <2>1. K \in DOMAIN layers /\ K < at.layer
    BY <1>1, <1>3, SMTT(30)
  <2>2. PICK p \in DOMAIN layers[K] : i = layers[K][p]
    BY DEF Members
  <2>3. IsApplied(i)
    BY <1>1, <2>1, <2>2 DEF Walked, Position, Passed
  <2> QED
    BY <1>5, <2>3 DEF IsApplied
<1>7. \A q \in 1..n : applied[q] # c
  <2>1. ~Passed(at.layer, at.pos)
    BY <1>1, SMTT(30) DEF Passed
  <2>2. ~IsApplied(c)
    BY <1>1, <1>3, <2>1, Zenon DEF Walked
  <2> QED
    BY <1>5, <2>2 DEF IsApplied
<1>8. ASSUME NEW m \in 1..Len(s)
      PROVE  \E L \in DOMAIN layers :
               /\ s[m] \in Members(L)
               /\ \A K \in 1..(L - 1) : \A i \in Members(K) : \E q \in 1..(m - 1) : s[q] = i
  <2>1. CASE m = n + 1
    <3>1. \A q \in 1..n : s[q] = applied[q]
      BY <1>5
    <3>2. s[m] \in Members(at.layer) /\ m - 1 = n
      BY <1>3, <1>5, <2>1
    <3> QED
      BY <1>3, <1>6, <3>1, <3>2
  <2>2. CASE m # n + 1
    <3>1. m \in 1..Len(applied) /\ s[m] = applied[m] /\ \A q \in 1..(m - 1) : s[q] = applied[q]
      BY <1>2, <1>5, <2>2
    <3>2. PICK L \in DOMAIN layers :
            /\ applied[m] \in Members(L)
            /\ \A K \in 1..(L - 1) : \A i \in Members(K) : \E q \in 1..(m - 1) : applied[q] = i
      BY <1>1, <3>1, Zenon DEF Orderly
    <3> QED
      BY <3>1, <3>2
  <2> QED
    BY <2>1, <2>2, Zenon
<1>9. \A m \in 1..Len(s) : \A q \in 1..(m - 1) : s[q] # s[m]
  <2> SUFFICES ASSUME NEW m \in 1..Len(s), NEW q \in 1..(m - 1) PROVE s[q] # s[m]
    OBVIOUS
  <2>1. CASE m = n + 1
    BY <1>5, <1>7, <2>1
  <2>2. CASE m # n + 1
    <3>1. m \in 1..Len(applied) /\ s[m] = applied[m] /\ s[q] = applied[q]
      BY <1>2, <1>5, <2>2
    <3> QED
      BY <1>1, <3>1, Zenon DEF Orderly
  <2> QED
    BY <2>1, <2>2
<1>10. Len(s) \in Nat
  BY <1>5
<1> QED
  BY <1>2, <1>8, <1>9, <1>10 DEF Orderly

\* A bijection of two initial segments of the natural numbers is one of the same.
LEMMA SameSize ==
  ASSUME NEW a \in Nat, NEW b \in Nat, NEW f \in Bijection(1..a, 1..b)
  PROVE  a = b
<1> DEFINE Bad == {n \in Nat : \E m \in Nat : n # m /\ \E g : g \in Bijection(1..n, 1..m)}
<1> SUFFICES ASSUME Bad # {} PROVE FALSE
  OBVIOUS
<1>1. PICK n \in Bad : \A j \in Bad : n <= j
  <2>1. Bad \in SUBSET Nat
    OBVIOUS
  <2> HIDE DEF Bad
  <2> QED
    BY <2>1, LeastOf, Zenon
<1>2. PICK m \in Nat : n # m /\ \E g : g \in Bijection(1..n, 1..m)
  OBVIOUS
<1>3. PICK g : g \in Bijection(1..n, 1..m)
  BY <1>2
<1>4. /\ \A k \in 1..n : g[k] \in 1..m
      /\ \A j, k \in 1..n : g[j] = g[k] => j = k
      /\ \A r \in 1..m : \E k \in 1..n : g[k] = r
  BY <1>3, Zenon DEF Bijection, Injection, Surjection, IsInjective
<1>5. n \in Nat /\ n # 0 /\ m # 0
  <2>1. n \in Nat
    OBVIOUS
  <2>2. (m # 0 => 1 \in 1..m) /\ (n # 0 => 1 \in 1..n) /\ (n = 0 => 1..n = {}) /\ (m = 0 => 1..m = {})
    BY <2>1
  <2> QED
    BY <1>2, <1>4, <2>1, <2>2
<1>6. PICK h : h = [k \in 1..(n - 1) |-> IF g[k] = m THEN g[n] ELSE g[k]]
  BY Zenon
<1>7. \A k \in 1..(n - 1) : k \in 1..n /\ k # n
  BY <1>5
<1>8. n \in 1..n /\ m \in 1..m /\ \A k \in 1..n : k \in 1..(n - 1) \/ k = n
  BY <1>5
<1>9. \A r \in 1..m : r \in 1..(m - 1) \/ r = m
  BY <1>5
<1>10. ASSUME NEW k \in 1..(n - 1) PROVE h[k] \in 1..(m - 1)
  <2>1. g[k] \in 1..m /\ g[n] \in 1..m /\ g[k] # g[n]
    BY <1>4, <1>7, <1>8
  <2>2. h[k] = IF g[k] = m THEN g[n] ELSE g[k]
    BY <1>6
  <2>3. h[k] \in 1..m /\ h[k] # m
    BY <2>1, <2>2
  <2> QED
    BY <1>9, <2>3
<1>11. \A j, k \in 1..(n - 1) : h[j] = h[k] => j = k
  BY <1>4, <1>6, <1>7, <1>8, Zenon
<1>12. ASSUME NEW r \in 1..(m - 1) PROVE \E k \in 1..(n - 1) : h[k] = r
  <2>1. r \in 1..m /\ r # m
    BY <1>5
  <2>2. PICK k \in 1..n : g[k] = r
    BY <1>4, <2>1, Zenon
  <2>3. CASE k # n
    BY <1>6, <1>8, <2>1, <2>2, <2>3, Zenon
  <2>4. CASE k = n
    <3>1. PICK j \in 1..n : g[j] = m
      BY <1>4, <1>8, Zenon
    <3>2. j \in 1..(n - 1)
      BY <1>8, <2>1, <2>2, <2>4, <3>1
    <3> QED
      BY <1>6, <2>2, <2>4, <3>1, <3>2, Zenon
  <2> QED
    BY <2>3, <2>4
<1>13. h \in Bijection(1..(n - 1), 1..(m - 1))
  <2>1. h \in [1..(n - 1) -> 1..(m - 1)]
    BY <1>6, <1>10
  <2> QED
    BY <1>11, <1>12, <2>1, Zenon DEF Bijection, Injection, Surjection, IsInjective
<1>14. n - 1 \in Bad
  <2>1. n - 1 \in Nat /\ m - 1 \in Nat /\ n - 1 # m - 1
    BY <1>2, <1>5
  <2> QED
    BY <1>13, <2>1
<1>15. ~(n <= n - 1)
  BY <1>5
<1> QED
  BY <1>1, <1>14, <1>15

\* In the end everything is applied.
LEMMA DoneInOrder ==
  ASSUME SchedulerInv, status = "done"
  PROVE  /\ Len(BlockOrder) = Len(applied)
         /\ applied \in Bijection(1..Len(applied), 1..Len(applied))
<1>1. applied \in Seq(Nat) /\ TypeOK /\ EachOpOnce
  BY InvImplies DEF SchedulerInv, PlanInv, TypeOK
<1>2. /\ Len(block) \in Nat /\ DOMAIN block = 1..Len(block)
      /\ Len(applied) \in Nat /\ DOMAIN applied = 1..Len(applied)
  BY <1>1, BlockOrderIs
<1>3. \A r \in 1..Len(block) : \E q \in 1..Len(applied) : applied[q] = r
  BY <1>1, <1>2 DEF EachOpOnce
<1>4. PICK a, b : a = Len(applied) /\ b = Len(block)
  BY Zenon
<1>5. \A m \in 1..a : applied[m] \in 1..b
  <2>1. Partition /\ planned = b /\ Orderly(applied)
    BY <1>4, AppliedOrderly DEF SchedulerInv, PlanInv, Progress
  <2> QED
    BY <1>4, <2>1, Zenon DEF Orderly, Partition
<1>6. applied = [m \in 1..a |-> applied[m]]
  BY <1>1, <1>2, <1>4
<1>7. applied \in Bijection(1..a, 1..b)
  <2>1. applied \in [1..a -> 1..b]
    BY <1>5, <1>6
  <2>2. \A m, q \in 1..a : applied[m] = applied[q] => m = q
    <3>1. \A m \in 1..a : \A q \in 1..(m - 1) : applied[q] # applied[m]
      BY <1>4, AppliedOrderly DEF Orderly
    <3> QED
      BY <1>2, <1>4, <3>1
  <2>3. \A r \in 1..b : \E q \in 1..a : applied[q] = r
    BY <1>3, <1>4
  <2> QED
    BY <2>1, <2>2, <2>3 DEF Bijection, Injection, Surjection, IsInjective
<1>8. a \in Nat /\ b \in Nat
  BY <1>2, <1>4
<1>9. a = b
  BY <1>7, <1>8, SameSize
<1>10. Len(BlockOrder) = b
  BY <1>1, <1>4, BlockOrderIs
<1> QED
  BY <1>4, <1>7, <1>9, <1>10

\* A bijection between positions has an inverse.
LEMMA InverseOf ==
  ASSUME NEW D, NEW e \in Bijection(D, D)
  PROVE  \E d \in Bijection(D, D) : \A r \in D : e[d[r]] = r /\ d[e[r]] = r
<1>1. /\ \A m \in D : e[m] \in D
      /\ \A m, k \in D : e[m] = e[k] => m = k
      /\ \A r \in D : \E m \in D : e[m] = r
  BY DEF Bijection, Injection, Surjection, IsInjective
<1>2. PICK d : d = [r \in D |-> CHOOSE m \in D : e[m] = r]
  BY Zenon
<1>3. \A r \in D : d[r] \in D /\ e[d[r]] = r
  BY <1>1, <1>2
<1>4. \A r \in D : d[e[r]] = r
  BY <1>1, <1>3
<1>5. d \in [D -> D]
  BY <1>2, <1>3
<1>6. \A m, k \in D : d[m] = d[k] => m = k
  BY <1>3
<1>7. \A r \in D : \E m \in D : d[m] = r
  BY <1>1, <1>4
<1>8. d \in Bijection(D, D)
  BY <1>5, <1>6, <1>7 DEF Bijection, Injection, Surjection, IsInjective
<1> QED
  BY <1>3, <1>4, <1>8

\* Queues that hold the same apart from the order of what came after the first l.
Shuffled(p, q, l, n, d) ==
  /\ l \in Nat /\ n \in Nat /\ d \in Bijection(1..n, 1..n)
  /\ DOMAIN p = 1..(l + n) /\ q = [k \in 1..(l + n) |-> q[k]]
  /\ \A k \in 1..l : q[k] = p[k]
  /\ \A r \in 1..n : q[l + r] = p[l + d[r]]

\* A queue whose new part is shuffled by a bijection is a permutation.
LEMMA Rearranged ==
  ASSUME NEW p, NEW q, NEW l, NEW n, NEW d, Shuffled(p, q, l, n, d)
  PROVE  \E f \in Bijection(DOMAIN p, DOMAIN p) : q = [k \in DOMAIN p |-> p[f[k]]]
<1>0. l \in Nat /\ n \in Nat /\ DOMAIN p = 1..(l + n)
  BY DEF Shuffled
<1> USE <1>0
<1>1. /\ \A r \in 1..n : d[r] \in 1..n
      /\ \A m, k \in 1..n : d[m] = d[k] => m = k
      /\ \A r \in 1..n : \E m \in 1..n : d[m] = r
  BY Zenon DEF Shuffled, Bijection, Injection, Surjection, IsInjective
<1>2. PICK f : f = [k \in 1..(l + n) |-> IF k <= l THEN k ELSE l + d[k - l]]
  BY Zenon
<1>3. \A k \in 1..l : k \in 1..(l + n) /\ f[k] = k
  BY <1>2
<1>4. \A r \in 1..n : l + r \in 1..(l + n) /\ f[l + r] = l + d[r]
  <2> SUFFICES ASSUME NEW r \in 1..n PROVE l + r \in 1..(l + n) /\ f[l + r] = l + d[r]
    OBVIOUS
  <2>1. l + r \in 1..(l + n) /\ ~(l + r <= l) /\ (l + r) - l = r
    OBVIOUS
  <2> QED
    BY <1>2, <2>1
<1>5. ASSUME NEW k \in 1..(l + n)
      PROVE  k \in 1..l \/ \E r \in 1..n : k = l + r
  <2>1. ~(k \in 1..l) => k - l \in 1..n /\ k = l + (k - l)
    OBVIOUS
  <2> QED
    BY <2>1
<1>6. f \in [1..(l + n) -> 1..(l + n)]
  <2>1. ASSUME NEW k \in 1..(l + n) PROVE f[k] \in 1..(l + n)
    <3>1. CASE k \in 1..l
      BY <1>3, <3>1
    <3>2. ASSUME NEW r \in 1..n, k = l + r PROVE f[k] \in 1..(l + n)
      <4>1. PICK a \in 1..n : a = d[r]
        BY <1>1, Zenon
      <4> QED
        BY <1>4, <3>2, <4>1, Zenon
    <3> QED
      BY <1>5, <3>1, <3>2
  <2> QED
    BY <1>2, <2>1, Zenon
<1>7. ASSUME NEW j \in 1..(l + n), NEW k \in 1..(l + n), f[j] = f[k]
      PROVE  j = k
  <2>1. ASSUME NEW r \in 1..n PROVE ~(l + d[r] \in 1..l)
    <3>1. PICK a \in 1..n : a = d[r]
      BY <1>1, Zenon
    <3> QED
      BY <3>1
  <2>2. ASSUME NEW r \in 1..n, NEW m \in 1..n, l + d[r] = l + d[m] PROVE r = m
    <3>1. PICK a \in 1..n, b \in 1..n : a = d[r] /\ b = d[m]
      BY <1>1, Zenon
    <3>2. a = b
      BY <2>2, <3>1, SMTT(30)
    <3> QED
      BY <1>1, <3>1, <3>2, Zenon
  <2>3. CASE j \in 1..l /\ k \in 1..l
    BY <1>3, <1>7, <2>3
  <2>4. ASSUME NEW r \in 1..n, j = l + r PROVE j = k
    <3>1. CASE k \in 1..l
      <4>1. f[k] = k /\ f[j] = l + d[r]
        BY <1>3, <1>4, <2>4, <3>1, Zenon
      <4> QED
        BY <1>7, <2>1, <3>1, <4>1, Zenon
    <3>2. ASSUME NEW m \in 1..n, k = l + m PROVE j = k
      <4>1. l + d[r] = l + d[m]
        BY <1>4, <1>7, <2>4, <3>2, Zenon
      <4> QED
        BY <2>2, <2>4, <3>2, <4>1, Zenon
    <3> QED
      BY <1>5, <3>1, <3>2, Zenon
  <2>5. ASSUME NEW r \in 1..n, k = l + r, j \in 1..l PROVE j = k
    <3>1. f[j] = j /\ f[k] = l + d[r]
      BY <1>3, <1>4, <2>5
    <3> QED
      BY <1>7, <2>1, <2>5, <3>1, Zenon
  <2> QED
    BY <1>5, <2>3, <2>4, <2>5
<1>8. ASSUME NEW k \in 1..(l + n)
      PROVE  \E j \in 1..(l + n) : f[j] = k
  <2>1. CASE k \in 1..l
    BY <1>3, <2>1
  <2>2. ASSUME NEW r \in 1..n, k = l + r PROVE \E j \in 1..(l + n) : f[j] = k
    <3>1. PICK m \in 1..n : d[m] = r
      BY <1>1
    <3> QED
      BY <1>4, <2>2, <3>1, Zenon
  <2> QED
    BY <1>5, <2>1, <2>2
<1>9. f \in Bijection(DOMAIN p, DOMAIN p)
  BY <1>6, <1>7, <1>8, Zenon DEF Bijection, Injection, Surjection, IsInjective
<1>10. ASSUME NEW k \in 1..(l + n) PROVE q[k] = p[f[k]]
  <2>1. CASE k \in 1..l
    BY <1>3, <2>1, Zenon DEF Shuffled
  <2>2. ASSUME NEW r \in 1..n, k = l + r PROVE q[k] = p[f[k]]
    BY <1>4, <2>2, Zenon DEF Shuffled
  <2> QED
    BY <1>5, <2>1, <2>2, Zenon
<1>11. q = [k \in DOMAIN p |-> p[f[k]]]
  BY <1>10 DEF Shuffled
<1> QED
  BY <1>9, <1>11

----------------------------------------------------------------------------

\* What appending to a queue gives.
LEMMA AppendIs ==
  ASSUME NEW p, Queue(p), NEW v
  PROVE  /\ Queue(Append(p, v)) /\ Len(p) \in Nat /\ Len(Append(p, v)) = Len(p) + 1
         /\ Append(p, v)[Len(p) + 1] = v
         /\ \A k \in 1..Len(p) : Append(p, v)[k] = p[k]
         /\ p = [k \in 1..Len(p) |-> p[k]]
<1>1. PICK S : p \in Seq(S)
  BY DEF Queue
<1>2. p \in Seq(S \cup {v}) /\ v \in S \cup {v}
  BY <1>1
<1>3. Append(p, v) \in Seq(S \cup {v})
  BY <1>2
<1>4. Queue(Append(p, v))
  BY <1>3, Zenon DEF Queue
<1> QED
  BY <1>2, <1>4

\* A queue that each of n steps appends to.
Growing(P, n) == Queue(P[0]) /\ \A k \in 1..n : \E v : P[k] = Append(P[k - 1], v)

\* After k steps it is l + k long, begins with what it held, and has at l + j what
\* the j-th step appended.
GrownTo(P, l, k) ==
  /\ Queue(P[k]) /\ Len(P[k]) = l + k
  /\ \A j \in 1..l : P[k][j] = P[0][j]
  /\ \A j \in 1..k : P[k][l + j] = P[j][l + j]

\* A queue that one element is appended to at each step keeps what it has.
LEMMA Grows ==
  ASSUME NEW n \in Nat, NEW P, Growing(P, n), NEW l, l = Len(P[0])
  PROVE  l \in Nat /\ \A k \in 0..n : GrownTo(P, l, k)
<1>0. l \in Nat
  BY AppendIs DEF Growing
<1> DEFINE Bad == {k \in 0..n : ~GrownTo(P, l, k)}
<1> SUFFICES ASSUME Bad # {} PROVE FALSE
  BY <1>0
<1>1. PICK m \in Bad : \A j \in Bad : m <= j
  <2>1. Bad \in SUBSET Nat
    OBVIOUS
  <2> HIDE DEF Bad
  <2> QED
    BY <2>1, LeastOf, Zenon
<1>2. m \in 0..n /\ m \in Nat /\ ~GrownTo(P, l, m)
  OBVIOUS
<1>3. m # 0
  <2>1. GrownTo(P, l, 0)
    BY <1>0 DEF GrownTo, Growing
  <2> QED
    BY <1>2, <2>1, Zenon
<1>4. m - 1 \in 0..n /\ ~(m <= m - 1) /\ m \in 1..n
  BY <1>2, <1>3
<1>5. GrownTo(P, l, m - 1)
  BY <1>1, <1>4
<1>6. PICK v : P[m] = Append(P[m - 1], v)
  BY <1>4, Zenon DEF Growing
<1>7. PICK p, q, c : p = P[m - 1] /\ q = P[m] /\ c = l + (m - 1)
  OBVIOUS
<1>8. /\ Queue(q) /\ Len(q) = c + 1 /\ c \in Nat /\ c + 1 = l + m
      /\ \A k \in 1..c : q[k] = p[k]
  <2>1. Queue(p) /\ Len(p) = c /\ q = Append(p, v)
    BY <1>5, <1>6, <1>7 DEF GrownTo
  <2>2. c + 1 = l + m
    BY <1>0, <1>2, <1>7, SMTT(30)
  <2> QED
    BY <2>1, <2>2, AppendIs, SMTT(30)
<1>9. \A j \in 1..l : q[j] = P[0][j]
  <2>1. \A j \in 1..l : j \in 1..c
    BY <1>0, <1>4, <1>7
  <2> QED
    BY <1>5, <1>7, <1>8, <2>1, Zenon DEF GrownTo
<1>10. \A j \in 1..m : q[l + j] = P[j][l + j]
  <2> SUFFICES ASSUME NEW j \in 1..m, j # m PROVE q[l + j] = P[j][l + j]
    BY <1>7, Zenon
  <2>1. j \in 1..(m - 1) /\ l + j \in 1..c
    BY <1>0, <1>4, <1>7
  <2> QED
    BY <1>5, <1>7, <1>8, <2>1, Zenon DEF GrownTo
<1> QED
  BY <1>2, <1>7, <1>8, <1>9, <1>10 DEF GrownTo

\* What the m-th step of one run and the e[m]-th of another append is the same.
SameAppend(P, Q, e, m) == \E v : P[m] = Append(P[m - 1], v) /\ Q[e[m]] = Append(Q[e[m] - 1], v)

\* q is p in some order.
Permuted(p, q) == \E f \in Bijection(DOMAIN p, DOMAIN p) : q = [k \in DOMAIN p |-> p[f[k]]]

\* Two runs that append the same in different orders end with permuted queues.
LEMMA SameQueues ==
  ASSUME NEW n \in Nat, NEW P, Growing(P, n), NEW Q, Growing(Q, n), P[0] = Q[0],
         NEW e \in Bijection(1..n, 1..n), \A m \in 1..n : SameAppend(P, Q, e, m)
  PROVE  Permuted(P[n], Q[n])
<1>1. PICK l : l = Len(P[0])
  BY Zenon
<1>2. l \in Nat /\ \A k \in 0..n : GrownTo(P, l, k) /\ GrownTo(Q, l, k)
  <2>1. l \in Nat /\ \A k \in 0..n : GrownTo(P, l, k)
    BY <1>1, Grows
  <2>2. \A k \in 0..n : GrownTo(Q, l, k)
    BY <1>1, Grows, Zenon
  <2> QED
    BY <2>1, <2>2
<1>3. PICK d \in Bijection(1..n, 1..n) : \A r \in 1..n : e[d[r]] = r
  BY InverseOf
<1>4. \A r \in 1..n : d[r] \in 1..n
  BY DEF Bijection, Injection
<1>5. PICK p, q : p = P[n] /\ q = Q[n]
  BY Zenon
<1>6. /\ Queue(p) /\ Len(p) = l + n /\ Queue(q) /\ Len(q) = l + n
      /\ \A j \in 1..l : q[j] = p[j]
      /\ \A j \in 1..n : p[l + j] = P[j][l + j] /\ q[l + j] = Q[j][l + j]
  <2>1. GrownTo(P, l, n) /\ GrownTo(Q, l, n)
    BY <1>2, SMTT(30)
  <2> QED
    BY <1>5, <2>1, Zenon DEF GrownTo
<1>7. \A r \in 1..n : q[l + r] = p[l + d[r]]
  <2> SUFFICES ASSUME NEW r \in 1..n PROVE q[l + r] = p[l + d[r]]
    BY Zenon
  <2>1. PICK m \in 1..n : m = d[r] /\ e[m] = r
    BY <1>3, <1>4
  <2>2. PICK v : P[m] = Append(P[m - 1], v) /\ Q[r] = Append(Q[r - 1], v)
    <3>1. PICK v : P[m] = Append(P[m - 1], v) /\ Q[e[m]] = Append(Q[e[m] - 1], v)
      BY Zenon DEF SameAppend
    <3> QED
      BY <2>1, <3>1, Zenon
  <2>3. m - 1 \in 0..n /\ r - 1 \in 0..n
    OBVIOUS
  <2>4. GrownTo(P, l, m - 1) /\ GrownTo(Q, l, r - 1)
    BY <1>2, <2>3
  <2>5. PICK x, y, a, b : x = P[m - 1] /\ y = Q[r - 1] /\ a = l + (m - 1) /\ b = l + (r - 1)
    BY Zenon
  <2>6. Queue(x) /\ Len(x) = a /\ Queue(y) /\ Len(y) = b /\ a + 1 = l + m /\ b + 1 = l + r
    BY <1>2, <2>4, <2>5 DEF GrownTo
  <2>7. Append(x, v)[a + 1] = v /\ Append(y, v)[b + 1] = v
    BY <2>6, AppendIs, Zenon
  <2>8. P[m][l + m] = v /\ Q[r][l + r] = v
    BY <2>2, <2>5, <2>6, <2>7, Zenon
  <2> QED
    BY <1>6, <2>1, <2>8, Zenon
<1>8. DOMAIN p = 1..(l + n) /\ q = [k \in 1..(l + n) |-> q[k]]
  <2>1. p = [k \in 1..(l + n) |-> p[k]] /\ q = [k \in 1..(l + n) |-> q[k]]
    BY <1>6, AppendIs
  <2> QED
    BY <2>1
<1>9. Permuted(p, q)
  <2>1. Shuffled(p, q, l, n, d)
    BY <1>2, <1>6, <1>7, <1>8, Zenon DEF Shuffled
  <2> QED
    BY <2>1, Rearranged DEF Permuted
<1> QED
  BY <1>5, <1>9

\* The operations of a layer, in any order, come after no other they conflict with.
LEMMA LayerEmbeds ==
  ASSUME SchedulerInv, NEW L \in DOMAIN layers,
         NEW f \in Bijection(DOMAIN layers[L], DOMAIN layers[L])
  PROVE  LET s == layers[L]
         IN  /\ Len(s) \in Nat /\ DOMAIN s = 1..Len(s)
             /\ \A m \in 1..Len(s) : s[m] \in DOMAIN block
             /\ \E e \in Bijection(1..Len(s), 1..Len(s)) : Embeds(s, [k \in DOMAIN s |-> s[f[k]]], e)
<1>1. PICK s, n, u : s = layers[L] /\ n = Len(layers[L]) /\ u = [k \in DOMAIN s |-> s[f[k]]]
  BY Zenon
<1>2. TypeOK /\ Partition /\ LayersIndependent
  BY Zenon DEF SchedulerInv, PlanInv
<1>3. s \in Seq(Nat)
  BY <1>1, <1>2 DEF TypeOK
<1>4. n \in Nat /\ DOMAIN s = 1..n
  BY <1>1, <1>3
<1>5. \A m \in 1..n : s[m] \in Members(L)
  BY <1>1, <1>4 DEF Members
<1>6. \A m \in 1..n : s[m] \in DOMAIN block
  <2>1. Members(L) \subseteq 1..planned /\ planned \in 0..Len(block)
    BY <1>2 DEF Partition, TypeOK
  <2>2. Len(block) \in Nat /\ DOMAIN block = 1..Len(block)
    BY <1>2, BlockOrderIs, Zenon
  <2> QED
    BY <1>5, <2>1, <2>2, SMTT(30)
<1>7. \A q, m \in 1..n : Conflict(s[q], s[m]) => q = m
  <2> SUFFICES ASSUME NEW q \in 1..n, NEW m \in 1..n, Conflict(s[q], s[m]) PROVE q = m
    OBVIOUS
  <2>1. s[q] = s[m]
    BY <1>2, <1>5, Zenon DEF LayersIndependent
  <2> QED
    BY <1>1, <1>2, <1>4, <2>1 DEF Partition
<1>8. f \in Bijection(1..n, 1..n)
  BY <1>1, <1>4
<1>9. PICK e \in Bijection(1..n, 1..n) : \A r \in 1..n : f[e[r]] = r /\ e[f[r]] = r
  BY <1>8, InverseOf, Zenon
<1>10. \A m \in 1..n : e[m] \in 1..n /\ f[m] \in 1..n
  BY <1>8, Zenon DEF Bijection, Injection
<1>11. \A m \in 1..n : u[m] = s[f[m]]
  BY <1>1, <1>4, Zenon
<1>12. Len(u) = n
  BY <1>1, <1>4, SMTT(30)
<1>13. Embeds(s, u, e)
  <2>1. \A m \in 1..n : e[m] \in 1..n /\ u[e[m]] = s[m]
    BY <1>9, <1>10, <1>11, Zenon
  <2>2. \A q, m \in 1..n : ~(q < m /\ Conflict(s[q], s[m]))
    BY <1>4, <1>7, SMTT(30)
  <2>3. ASSUME NEW m \in 1..n, NEW r \in 1..n, r < e[m], Conflict(u[r], s[m])
        PROVE  FALSE
    <3>1. f[r] = m
      BY <1>7, <1>10, <1>11, <2>3, Zenon
    <3>2. r = e[m]
      BY <1>9, <3>1
    <3>3. e[m] \in Nat
      BY <1>10
    <3> QED
      BY <2>3, <3>2, <3>3
  <2> QED
    BY <1>1, <1>4, <1>12, <2>1, <2>2, <2>3, Zenon DEF Embeds
<1> QED
  BY <1>1, <1>4, <1>6, <1>13, ZenonT(30)

----------------------------------------------------------------------------
\* The tables a block finds have the shape of tables.
LEMMA StartShape == Shape(Start)
<1>1. DOMAIN Start = Fields
  BY StartAssumption, Zenon DEF Fields, TableNames
<1>2. Queue(Start.pending_virtual_ops)
  BY StartAssumption DEF Queue
<1> QED
  BY <1>1, <1>2, StartAssumption DEF Shape

\* Tables that hold the same under all keys are the same.
LEMMA SameOnAll ==
  ASSUME LocalEffects, NEW t, Shape(t), NEW u, Shape(u), SameOn(t, u, Keys)
  PROVE  \A f \in TableNames : t[f] = u[f]
BY Zenon DEF LocalEffects

\* A local effect leaves alone what the operation is not classified by.
LEMMA EffectFrame ==
  ASSUME LocalEffects, NEW t, Shape(t), NEW op \in scheduled_op
  PROVE  effect(t, op).throws \in BOOLEAN /\ Frames(t, effect(t, op).tables, op)
BY Zenon DEF LocalEffects

\* A local effect is the same where the operation reads the same.
LEMMA EffectLocal ==
  ASSUME LocalEffects, NEW t, Shape(t), NEW u, Shape(u), NEW op \in scheduled_op,
         SameOn(t, u, classify(op))
  PROVE  Answers(t, u, op, effect(t, op), effect(u, op))
BY Zenon DEF LocalEffects

----------------------------------------------------------------------------

\* One more operation on a result; with stop an exception ends the sequence.
Turn(x, i, stop) == IF stop /\ x.throws THEN x ELSE effect(x.tables, block[i])

\* The results g of the first m turns.
Turns(g, t, s, stop, m) ==
  g = [k \in 0..m |-> IF k = 0 THEN [throws |-> FALSE, tables |-> t]
                      ELSE Turn(g[k - 1], s[k], stop)]

\* The results of applying operations one after the other are a function.
LEMMA TurnsExist ==
  ASSUME NEW t, NEW s, NEW stop, NEW n \in Nat
  PROVE  \E g : Turns(g, t, s, stop, n)
<1> DEFINE Bad == {m \in Nat : ~\E g : Turns(g, t, s, stop, m)}
<1> SUFFICES ASSUME Bad # {} PROVE FALSE
  OBVIOUS
<1>1. PICK m \in Bad : \A j \in Bad : m <= j
  <2>1. Bad \in SUBSET Nat
    OBVIOUS
  <2> QED
    BY <2>1, LeastOf, Zenon
<1>2. m \in Nat /\ ~\E g : Turns(g, t, s, stop, m)
  OBVIOUS
<1>3. PICK a : a = [throws |-> FALSE, tables |-> t]
  BY Zenon
<1>4. CASE m = 0
  <2>1. PICK g : g = [k \in 0..0 |-> a]
    BY Zenon
  <2>2. g = [k \in 0..0 |-> IF k = 0 THEN a ELSE Turn(g[k - 1], s[k], stop)]
    BY <2>1
  <2> QED
    BY <1>2, <1>3, <1>4, <2>2, Zenon DEF Turns
<1>5. CASE m # 0
  <2>1. m - 1 \in Nat /\ ~(m <= m - 1)
    BY <1>2, <1>5
  <2>2. PICK h : Turns(h, t, s, stop, m - 1)
    BY <1>1, <2>1
  <2>3. h = [k \in 0..(m - 1) |-> IF k = 0 THEN a ELSE Turn(h[k - 1], s[k], stop)]
    BY <1>3, <2>2, Zenon DEF Turns
  <2>4. PICK g : g = [k \in 0..m |-> IF k = m THEN Turn(h[m - 1], s[m], stop) ELSE h[k]]
    BY Zenon
  <2>5. \A k \in 0..m : g[k] = IF k = 0 THEN a ELSE Turn(g[k - 1], s[k], stop)
    <3> SUFFICES ASSUME NEW k \in 0..m
                 PROVE  g[k] = IF k = 0 THEN a ELSE Turn(g[k - 1], s[k], stop)
      OBVIOUS
    <3>1. CASE k = 0
      BY <1>2, <1>5, <2>3, <2>4, <3>1
    <3>2. CASE k # 0
      <4>1. k - 1 \in 0..(m - 1) /\ k - 1 # m /\ k - 1 \in 0..m
        BY <1>2, <3>2
      <4>2. g[k - 1] = h[k - 1]
        BY <2>4, <4>1, Zenon
      <4>3. CASE k = m
        BY <2>4, <3>2, <4>2, <4>3, Zenon
      <4>4. CASE k # m
        <5>1. k \in 0..(m - 1)
          BY <1>2, <4>4
        <5>2. h[k] = Turn(h[k - 1], s[k], stop)
          BY <2>3, <3>2, <5>1
        <5>3. g[k] = h[k]
          BY <2>4, <4>4, Zenon
        <5> QED
          BY <3>2, <4>2, <5>2, <5>3, Zenon
      <4> QED
        BY <4>3, <4>4
    <3> QED
      BY <3>1, <3>2
  <2>6. g = [k \in 0..m |-> g[k]]
    BY <2>4
  <2>7. g = [k \in 0..m |-> IF k = 0 THEN a ELSE Turn(g[k - 1], s[k], stop)]
    BY <2>5, <2>6, Zenon
  <2> QED
    BY <1>2, <1>3, <2>7, Zenon DEF Turns
<1> QED
  BY <1>4, <1>5

\* The run of s from t that goes on after exceptions.
Run(F, t, s) ==
  /\ F[0] = [throws |-> FALSE, tables |-> t]
  /\ \A k \in 1..Len(s) : F[k] = effect(F[k - 1].tables, block[s[k]])

\* Every sequence of operations has a run that no exception stops.
LEMMA RunExists ==
  ASSUME NEW t, NEW s, Len(s) \in Nat
  PROVE  \E F : Run(F, t, s)
<1>1. PICK F : Turns(F, t, s, FALSE, Len(s))
  BY TurnsExist, Zenon
<1>2. PICK a : a = [throws |-> FALSE, tables |-> t]
  BY Zenon
<1>3. F = [k \in 0..Len(s) |-> IF k = 0 THEN a ELSE Turn(F[k - 1], s[k], FALSE)]
  BY <1>1, <1>2, Zenon DEF Turns
<1>4. F[0] = a /\ \A k \in 1..Len(s) : F[k] = Turn(F[k - 1], s[k], FALSE)
  BY <1>3
<1>5. \A x, i : Turn(x, i, FALSE) = effect(x.tables, block[i])
  BY DEF Turn
<1>6. \A k \in 1..Len(s) : F[k] = effect(F[k - 1].tables, block[s[k]])
  BY <1>4, <1>5, Zenon
<1>7. Run(F, t, s)
  BY <1>2, <1>4, <1>6, Zenon DEF Run
<1> QED
  BY <1>7

\* Outcome is the run that ends with an exception.
StoppedRun(g, t, s) ==
  /\ g[0] = [throws |-> FALSE, tables |-> t]
  /\ \A k \in 1..Len(s) : g[k] = Turn(g[k - 1], s[k], TRUE)

\* Outcome is the end of a run that the first exception stops.
LEMMA OutcomeIs ==
  ASSUME NEW t, NEW s, Len(s) \in Nat
  PROVE  \E g : StoppedRun(g, t, s) /\ Outcome(t, s) = g[Len(s)]
<1>1. PICK n : n = Len(s)
  OBVIOUS
<1>2. \E g : Turns(g, t, s, TRUE, n)
  BY <1>1, TurnsExist, Zenon
<1>3. PICK g : g = CHOOSE h : h = [k \in 0..Len(s) |->
                                    IF k = 0 THEN [throws |-> FALSE, tables |-> t]
                                    ELSE IF h[k - 1].throws THEN h[k - 1]
                                    ELSE effect(h[k - 1].tables, block[s[k]])]
  OBVIOUS
<1>4. g = [k \in 0..Len(s) |-> IF k = 0 THEN [throws |-> FALSE, tables |-> t]
                               ELSE IF g[k - 1].throws THEN g[k - 1]
                               ELSE effect(g[k - 1].tables, block[s[k]])]
  BY <1>1, <1>2, <1>3, ZenonT(30) DEF Turns, Turn
<1>5. Outcome(t, s) = g[Len(s)]
  BY <1>3, Zenon DEF Outcome
<1>6. PICK a : a = [throws |-> FALSE, tables |-> t]
  BY Zenon
<1>7. g = [k \in 0..n |-> IF k = 0 THEN a ELSE Turn(g[k - 1], s[k], TRUE)]
  BY <1>1, <1>4, <1>6, Zenon DEF Turn
<1>8. n \in Nat
  BY <1>1
<1>9. g[0] = a /\ \A k \in 1..n : g[k] = Turn(g[k - 1], s[k], TRUE)
  BY <1>7, <1>8
<1>10. StoppedRun(g, t, s)
  BY <1>1, <1>6, <1>9, Zenon DEF StoppedRun
<1> QED
  BY <1>5, <1>10

----------------------------------------------------------------------------

\* s is a sequence of operations of the block.
Ops(s) == Len(s) \in Nat /\ \A k \in 1..Len(s) : block[s[k]] \in scheduled_op

\* A run keeps the shape of the tables.
LEMMA RunShape ==
  ASSUME LocalEffects, NEW F, NEW t, NEW s, Ops(s), Shape(t), Run(F, t, s)
  PROVE  \A k \in 0..Len(s) : Shape(F[k].tables) /\ F[k].throws \in BOOLEAN
<1> DEFINE Bad == {k \in 0..Len(s) : ~(Shape(F[k].tables) /\ F[k].throws \in BOOLEAN)}
<1>0. Len(s) \in Nat
  BY DEF Ops
<1> SUFFICES ASSUME Bad # {} PROVE FALSE
  OBVIOUS
<1>1. PICK m \in Bad : \A j \in Bad : m <= j
  <2>1. Bad \in SUBSET Nat
    BY <1>0
  <2> HIDE DEF Bad
  <2> QED
    BY <2>1, LeastOf, Zenon
<1>2. m \in 0..Len(s) /\ m \in Nat /\ ~(Shape(F[m].tables) /\ F[m].throws \in BOOLEAN)
  BY <1>0, SMTT(30)
<1>3. m # 0
  <2>1. F[0] = [throws |-> FALSE, tables |-> t]
    BY Zenon DEF Run
  <2>2. F[0].tables = t /\ F[0].throws = FALSE
    BY <2>1
  <2>3. F[0].throws \in BOOLEAN
    BY <2>2, Zenon
  <2> QED
    BY <1>2, <2>2, <2>3, Zenon
<1>4. m - 1 \in 0..Len(s) /\ ~(m <= m - 1) /\ m \in 1..Len(s)
  BY <1>0, <1>2, <1>3, SMTT(30)
<1>5. Shape(F[m - 1].tables)
  BY <1>1, <1>4, Zenon
<1>6. block[s[m]] \in scheduled_op /\ F[m] = effect(F[m - 1].tables, block[s[m]])
  BY <1>4 DEF Ops, Run
<1>7. Shape(F[m].tables) /\ F[m].throws \in BOOLEAN
  BY <1>5, <1>6, EffectFrame, Zenon DEF Frames
<1> QED
  BY <1>2, <1>7

\* The views of a run.
Views(F, s) == [k \in 0..Len(s) |-> View(F[k].tables)]

\* An operation of a run leaves alone the keys it does not touch.
LEMMA ViewsFramed ==
  ASSUME LocalEffects, NEW F, NEW t, NEW s, Ops(s), Shape(t), Run(F, t, s)
  PROVE  Framed(Views(F, s), s, Keys)
<1> SUFFICES ASSUME NEW k \in 1..Len(s), NEW key \in Keys, key \notin Touch(s[k])
             PROVE  Views(F, s)[k][key] = Views(F, s)[k - 1][key]
  BY Zenon DEF Framed
<1>1. Len(s) \in Nat /\ k \in 0..Len(s) /\ k - 1 \in 0..Len(s)
  BY SMTT(30) DEF Ops
<1>2. Shape(F[k - 1].tables)
  BY <1>1, RunShape, Zenon
<1>3. block[s[k]] \in scheduled_op /\ F[k] = effect(F[k - 1].tables, block[s[k]])
  BY DEF Ops, Run
<1>4. SameOn(F[k].tables, F[k - 1].tables, Keys \ classify(block[s[k]]))
  BY <1>2, <1>3, EffectFrame, ZenonT(30) DEF Frames
<1>5. View(F[k].tables)[key] = View(F[k - 1].tables)[key]
  BY <1>4, SMTT(30) DEF SameOn, Touch
<1> QED
  BY <1>1, <1>5, Zenon DEF Views

\* What the m-th operation of s does in both runs.
Matches(F, G, s, e, m) ==
  Answers(F[m - 1].tables, G[e[m] - 1].tables, block[s[m]], F[m], G[e[m]])

\* F and G are runs of s and of u, which e embeds s in.
Runs(F, G, t, s, u, e) ==
  /\ Ops(s) /\ Ops(u) /\ Embeds(s, u, e) /\ Shape(t) /\ Run(F, t, s) /\ Run(G, t, u)

\* Two runs do the same at an operation before which they agree on its keys.
LEMMA MatchIf ==
  ASSUME LocalEffects, NEW F, NEW G, NEW t, NEW s, NEW u, NEW e, Runs(F, G, t, s, u, e), NEW m \in 1..Len(s),
         SameBefore(Views(F, s), Views(G, u), s, e, Keys, m)
  PROVE  Matches(F, G, s, e, m)
<1>1. Len(s) \in Nat /\ Len(u) \in Nat /\ e[m] \in 1..Len(u) /\ u[e[m]] = s[m]
  BY DEF Runs, Embeds
<1>2. m - 1 \in 0..Len(s) /\ e[m] - 1 \in 0..Len(u)
  BY <1>1, SMTT(30)
<1>3. Shape(F[m - 1].tables) /\ Shape(G[e[m] - 1].tables)
  BY <1>2, RunShape, Zenon DEF Runs
<1>4. block[s[m]] \in scheduled_op
  BY SMTT(30) DEF Runs, Ops
<1>5. /\ F[m] = effect(F[m - 1].tables, block[s[m]])
      /\ G[e[m]] = effect(G[e[m] - 1].tables, block[s[m]])
  BY <1>1, ZenonT(30) DEF Runs, Run
<1>6. SameOn(F[m - 1].tables, G[e[m] - 1].tables, classify(block[s[m]]))
  BY <1>2, ZenonT(30) DEF SameOn, SameBefore, Views, Touch
<1> QED
  BY <1>3, <1>4, <1>5, <1>6, EffectLocal, ZenonT(30) DEF Matches

\* So the views of two runs are local.
LEMMA ViewsLocal ==
  ASSUME LocalEffects, NEW F, NEW G, NEW t, NEW s, NEW u, NEW e, Runs(F, G, t, s, u, e)
  PROVE  Local(Views(F, s), Views(G, u), s, e, Keys)
<1> SUFFICES ASSUME NEW m \in 1..Len(s), SameBefore(Views(F, s), Views(G, u), s, e, Keys, m),
                    NEW key \in Keys, key \in Touch(s[m])
             PROVE  Views(F, s)[m][key] = Views(G, u)[e[m]][key]
  BY SMTT(30) DEF Local
<1>1. SameOn(F[m].tables, G[e[m]].tables, classify(block[s[m]]))
  BY MatchIf, ZenonT(30) DEF Matches, Answers
<1>2. m \in 0..Len(s) /\ e[m] \in 0..Len(u)
  BY SMTT(30) DEF Runs, Embeds
<1>3. View(F[m].tables)[key] = View(G[e[m]].tables)[key]
  BY <1>1, Zenon DEF SameOn, Touch
<1> QED
  BY <1>2, <1>3, ZenonT(30) DEF Views

\* An operation does the same in both runs.
LEMMA BothRuns ==
  ASSUME LocalEffects, NEW F, NEW G, NEW t, NEW s, NEW u, NEW e, Runs(F, G, t, s, u, e)
  PROVE  /\ \A m \in 1..Len(s) : Matches(F, G, s, e, m)
         /\ Onto(s, u, e) =>
              \A f \in TableNames : F[Len(s)].tables[f] = G[Len(u)].tables[f]
<1>1. PICK V, W : V = Views(F, s) /\ W = Views(G, u)
  BY Zenon
<1>2. Embeds(s, u, e) /\ Framed(V, s, Keys) /\ Framed(W, u, Keys) /\ Local(V, W, s, e, Keys)
  BY <1>1, ViewsFramed, ViewsLocal, Zenon DEF Runs
<1>3. Len(s) \in Nat /\ Len(u) \in Nat
  BY Zenon DEF Runs, Ops
<1>4. \A key \in Keys : V[0][key] = W[0][key]
  <2>1. F[0].tables = t /\ G[0].tables = t
    BY DEF Runs, Run
  <2>2. V[0] = View(t) /\ W[0] = View(t)
    BY <1>1, <1>3, <2>1 DEF Views
  <2> QED
    BY <2>2, Zenon
<1>5. \A m \in 1..Len(s) : SameBefore(V, W, s, e, Keys, m)
  BY <1>2, <1>4, SameInBoth, Zenon
<1>6. \A m \in 1..Len(s) : Matches(F, G, s, e, m)
  BY <1>1, <1>5, MatchIf, Zenon
<1>7. ASSUME Onto(s, u, e)
      PROVE  \A f \in TableNames : F[Len(s)].tables[f] = G[Len(u)].tables[f]
  <2>1. \A key \in Keys : V[Len(s)][key] = W[Len(u)][key]
    BY <1>2, <1>4, <1>7, SameAtEnd
  <2>2. PICK x, y : x = F[Len(s)].tables /\ y = G[Len(u)].tables
    BY Zenon
  <2>3. V[Len(s)] = View(x) /\ W[Len(u)] = View(y)
    BY <1>1, <1>3, <2>2, SMTT(30) DEF Views
  <2>4. SameOn(x, y, Keys)
    BY <2>1, <2>3, Zenon DEF SameOn
  <2>5. Shape(x) /\ Shape(y)
    BY <1>3, <2>2, RunShape DEF Runs
  <2>6. \A f \in TableNames : x[f] = y[f]
    BY <2>4, <2>5, SameOnAll
  <2> QED
    BY <2>2, <2>6, Zenon
<1> QED
  BY <1>6, <1>7

----------------------------------------------------------------------------

\* A turn after an exception does nothing.
LEMMA TurnStops ==
  ASSUME NEW x, NEW i
  PROVE  /\ x.throws => Turn(x, i, TRUE) = x
         /\ ~x.throws => Turn(x, i, TRUE) = effect(x.tables, block[i])
BY Zenon DEF Turn

\* Up to its first exception a run is the run that ends with it.
LEMMA OutcomeOfRun ==
  ASSUME LocalEffects, NEW F, NEW t, NEW s, Ops(s), Shape(t), Run(F, t, s)
  PROVE  /\ (\A k \in 1..Len(s) : ~F[k].throws) =>
              Outcome(t, s) = F[Len(s)] /\ Outcome(t, s).throws = FALSE
         /\ (\E k \in 1..Len(s) : F[k].throws) => Outcome(t, s).throws = TRUE
<1>1. PICK n : n = Len(s) /\ n \in Nat
  BY DEF Ops
<1>2. PICK g : StoppedRun(g, t, s) /\ Outcome(t, s) = g[n]
  BY <1>1, OutcomeIs, Zenon
<1>3. /\ F[0] = [throws |-> FALSE, tables |-> t]
      /\ \A k \in 1..n : F[k] = effect(F[k - 1].tables, block[s[k]])
  BY <1>1, Zenon DEF Run
<1>4. F[0].throws = FALSE
  BY <1>3
<1>5. \A k \in 0..n : F[k].throws = TRUE \/ F[k].throws = FALSE
  BY <1>1, RunShape, Zenon
<1> DEFINE Calm(k) == \A j \in 1..(k - 1) : F[j].throws = FALSE
<1>6. \A k \in 0..n : Calm(k) => g[k] = F[k]
  <2> DEFINE Bad == {k \in 0..n : Calm(k) /\ g[k] # F[k]}
  <2> SUFFICES ASSUME Bad # {} PROVE FALSE
    BY ZenonT(30)
  <2>1. PICK m \in Bad : \A j \in Bad : m <= j
    <3>1. Bad \in SUBSET Nat
      BY <1>1, SMTT(30)
    <3> HIDE DEF Bad
    <3> QED
      BY <3>1, LeastOf, Zenon
  <2>2. m \in 0..n /\ m \in Nat /\ Calm(m) /\ g[m] # F[m]
    BY <1>1, SMTT(30)
  <2>3. m # 0
    BY <1>2, <1>3, <2>2, Zenon DEF StoppedRun
  <2>4. m - 1 \in 0..n /\ ~(m <= m - 1) /\ m \in 1..n
    BY <1>1, <2>2, <2>3, SMTT(30)
  <2>5. Calm(m - 1)
    BY <1>1, <2>2, SMTT(30)
  <2>6. g[m - 1] = F[m - 1]
    BY <2>1, <2>4, <2>5, Zenon
  <2>7. F[m - 1].throws = FALSE
    <3>1. m - 1 = 0 \/ m - 1 \in 1..(m - 1)
      BY <2>2, <2>3
    <3> QED
      BY <1>4, <2>2, <3>1, Zenon
  <2>8. PICK x : x = F[m - 1]
    OBVIOUS
  <2>9. Turn(x, s[m], TRUE) = effect(x.tables, block[s[m]])
    BY <2>7, <2>8, TurnStops, Zenon
  <2>10. g[m] = Turn(x, s[m], TRUE) /\ F[m] = effect(x.tables, block[s[m]])
    BY <1>1, <1>2, <1>3, <2>4, <2>6, <2>8, ZenonT(30) DEF StoppedRun
  <2> QED
    BY <2>2, <2>9, <2>10, Zenon
<1>7. ASSUME \A k \in 1..n : ~F[k].throws
      PROVE  Outcome(t, s) = F[n] /\ Outcome(t, s).throws = FALSE
  <2>1. \A k \in 0..n : F[k].throws = FALSE
    <3>1. \A k \in 0..n : k = 0 \/ k \in 1..n
      BY <1>1
    <3> QED
      BY <1>4, <1>5, <1>7, <3>1, Zenon
  <2>2. n \in 0..n /\ \A j \in 1..(n - 1) : j \in 0..n
    BY <1>1
  <2> QED
    BY <1>2, <1>6, <2>1, <2>2, Zenon
<1>8. ASSUME \E k \in 1..n : F[k].throws
      PROVE  Outcome(t, s).throws = TRUE
  <2> DEFINE T == {k \in 1..n : F[k].throws}
  <2>1. PICK j \in T : \A k \in T : j <= k
    <3>1. T \in SUBSET Nat /\ T # {}
      BY <1>1, <1>8
    <3> HIDE DEF T
    <3> QED
      BY <3>1, LeastOf, Zenon
  <2>2. j \in 1..n /\ F[j].throws = TRUE
    <3>1. j \in 1..n /\ j \in 0..n /\ F[j].throws
      BY <1>1
    <3> QED
      BY <1>5, <3>1, Zenon
  <2>3. Calm(j)
    <3> SUFFICES ASSUME NEW i \in 1..(j - 1) PROVE F[i].throws = FALSE
      BY Zenon
    <3>1. i \in 1..n /\ i \in 0..n /\ ~(j <= i)
      BY <1>1, <2>2, SMTT(30)
    <3> QED
      BY <1>5, <2>1, <3>1
  <2>4. g[j].throws = TRUE
    BY <1>1, <1>6, <2>2, <2>3
  <2> DEFINE Bad == {k \in 0..n : j <= k /\ g[k].throws # TRUE}
  <2>5. Bad = {}
    <3> SUFFICES ASSUME Bad # {} PROVE FALSE
      BY Zenon
    <3>1. PICK m \in Bad : \A k \in Bad : m <= k
      <4>0. 0..n \subseteq Nat
        BY <1>1
      <4>1. Bad \in SUBSET Nat
        BY <4>0, Zenon
      <4> HIDE DEF Bad
      <4> QED
        BY <4>1, LeastOf, Zenon
    <3>2. m \in 0..n /\ j <= m /\ g[m].throws # TRUE
      BY Zenon
    <3>3. m # j
      BY <2>4, <3>2, Zenon
    <3>4. m \in 1..n /\ m - 1 \in 0..n /\ j <= m - 1 /\ ~(m <= m - 1)
      BY <1>1, <2>2, <3>2, <3>3
    <3>5. g[m - 1].throws = TRUE
      BY <3>1, <3>4, Zenon
    <3>6. g[m] = g[m - 1]
      <4>1. g[m] = Turn(g[m - 1], s[m], TRUE)
        BY <1>1, <1>2, <3>4, Zenon DEF StoppedRun
      <4> QED
        BY <3>5, <4>1, TurnStops, Zenon
    <3> QED
      BY <3>2, <3>5, <3>6, Zenon
  <2>6. n \in 0..n /\ j <= n
    BY <1>1, <2>2
  <2> QED
    BY <1>2, <2>5, <2>6, Zenon
<1> QED
  BY <1>1, <1>7, <1>8, Zenon

\* The virtual operations of a run.
Queues(F, n) == [k \in 0..n |-> F[k].tables.pending_virtual_ops]

\* A run in which nothing throws appends one virtual operation at each step.
LEMMA RunQueues ==
  ASSUME LocalEffects, NEW F, NEW t, NEW s, Ops(s), Shape(t), Run(F, t, s),
         \A k \in 1..Len(s) : ~F[k].throws
  PROVE  Growing(Queues(F, Len(s)), Len(s))
<1>1. PICK n, P : n = Len(s) /\ P = Queues(F, n) /\ n \in Nat
  BY Zenon DEF Ops
<1>2. \A k \in 0..n : P[k] = F[k].tables.pending_virtual_ops
  BY <1>1, Zenon DEF Queues
<1>3. Queue(P[0])
  <2>1. 0 \in 0..n
    BY <1>1, SMTT(30)
  <2>2. Shape(F[0].tables)
    BY <1>1, <2>1, RunShape
  <2> QED
    BY <1>2, <2>1, <2>2, Zenon DEF Shape
<1>4. ASSUME NEW k \in 1..n
      PROVE  \E v : P[k] = Append(P[k - 1], v)
  <2>1. k \in 0..n /\ k - 1 \in 0..n
    BY <1>1, SMTT(30)
  <2>2. Shape(F[k - 1].tables) /\ block[s[k]] \in scheduled_op
    BY <1>1, <2>1, RunShape, Zenon DEF Ops
  <2>3. F[k] = effect(F[k - 1].tables, block[s[k]]) /\ ~F[k].throws
    BY <1>1, Zenon DEF Run
  <2>4. PICK x, op : x = F[k - 1].tables /\ op = block[s[k]]
    OBVIOUS
  <2>5. SameOn(x, x, classify(op))
    BY SMTT(30) DEF SameOn
  <2>6. Answers(x, x, op, effect(x, op), effect(x, op))
    BY <2>2, <2>4, <2>5, EffectLocal, ZenonT(30)
  <2>7. PICK v : F[k].tables.pending_virtual_ops = Append(x.pending_virtual_ops, v)
    BY <2>3, <2>4, <2>6, Zenon DEF Answers, Reported
  <2> QED
    BY <1>2, <2>1, <2>4, <2>7, Zenon
<1> QED
  BY <1>1, <1>3, <1>4, Zenon DEF Growing

\* Operations in two orders that keep those that conflict.
LEMMA AgreeRuns ==
  ASSUME LocalEffects, NEW F, NEW G, NEW t, NEW s, NEW u, NEW e, Runs(F, G, t, s, u, e), Len(u) = Len(s),
         e \in Bijection(1..Len(s), 1..Len(s))
  PROVE  Agree(Outcome(t, s), Outcome(t, u))
<1>1. PICK n : n = Len(s) /\ n = Len(u) /\ n \in Nat
  BY DEF Runs, Ops
<1>2. Ops(s) /\ Ops(u) /\ Shape(t) /\ Run(F, t, s) /\ Run(G, t, u)
  BY DEF Runs
<1>3. e \in Bijection(1..n, 1..n)
  BY <1>1
<1>4. (\A m \in 1..n : e[m] \in 1..n) /\ \A r \in 1..n : \E m \in 1..n : e[m] = r
  BY <1>3, ZenonT(30) DEF Bijection, Injection, Surjection
<1>5. \A m \in 1..n : Matches(F, G, s, e, m)
  BY <1>1, BothRuns
<1>6. \A f \in TableNames : F[n].tables[f] = G[n].tables[f]
  <2>1. Onto(s, u, e)
    BY <1>1, <1>4, ZenonT(30) DEF Onto
  <2>2. Onto(s, u, e) => \A f \in TableNames : F[Len(s)].tables[f] = G[Len(u)].tables[f]
    BY BothRuns
  <2> QED
    BY <1>1, <2>1, <2>2, Zenon
<1>7. \A m \in 1..n : F[m].throws = G[e[m]].throws
  BY <1>5 DEF Matches, Answers
<1>8. CASE \A k \in 1..n : ~F[k].throws
  <2>1. \A r \in 1..n : ~G[r].throws
    <3> SUFFICES ASSUME NEW r \in 1..n PROVE ~G[r].throws
      OBVIOUS
    <3>1. PICK m \in 1..n : e[m] = r
      BY <1>4, Zenon
    <3>2. F[m].throws = G[r].throws
      BY <1>7, <3>1
    <3> QED
      BY <1>8, <3>2, Zenon
  <2>2. /\ Outcome(t, s) = F[n] /\ Outcome(t, s).throws = FALSE
        /\ Outcome(t, u) = G[n] /\ Outcome(t, u).throws = FALSE
    BY <1>1, <1>2, <1>8, <2>1, OutcomeOfRun, Zenon
  <2>3. PICK P, Q : P = Queues(F, n) /\ Q = Queues(G, n)
    BY Zenon
  <2>4. Growing(P, n) /\ Growing(Q, n)
    BY <1>1, <1>2, <1>8, <2>1, <2>3, RunQueues, Zenon
  <2>5. \A k \in 0..n : /\ P[k] = F[k].tables.pending_virtual_ops
                        /\ Q[k] = G[k].tables.pending_virtual_ops
    BY <2>3, Zenon DEF Queues
  <2>6. P[0] = Q[0]
    <3>1. F[0] = G[0]
      BY <1>2, Zenon DEF Run
    <3>2. 0 \in 0..n
      BY <1>1
    <3> QED
      BY <2>5, <3>1, <3>2, SMTT(30)
  <2>7. ASSUME NEW m \in 1..n PROVE SameAppend(P, Q, e, m)
    <3>1. m \in 0..n /\ m - 1 \in 0..n /\ e[m] \in 0..n /\ e[m] - 1 \in 0..n
      <4>1. PICK r \in 1..n : r = e[m]
        BY <1>4, Zenon
      <4> QED
        BY <1>1, <4>1
    <3>2. Matches(F, G, s, e, m) /\ ~F[m].throws
      BY <1>5, <1>8
    <3>3. Reported(F[m - 1].tables, G[e[m] - 1].tables, F[m], G[e[m]])
      BY <3>2, Zenon DEF Matches, Answers
    <3> QED
      BY <2>5, <3>1, <3>3, Zenon DEF Reported, SameAppend
  <2>8. Permuted(P[n], Q[n])
    BY <1>1, <1>3, <2>4, <2>6, <2>7, SameQueues, Zenon
  <2>9. P[n] = F[n].tables.pending_virtual_ops /\ Q[n] = G[n].tables.pending_virtual_ops
    BY <1>1, <2>5, SMTT(30)
  <2>10. PICK x, y : x = F[n].tables /\ y = G[n].tables
    BY Zenon
  <2>11. Permuted(x.pending_virtual_ops, y.pending_virtual_ops)
    BY <2>8, <2>9, <2>10, Zenon
  <2>12. \A f \in TableNames : x[f] = y[f]
    BY <1>6, <2>10, Zenon
  <2>13. Outcome(t, s).tables = x /\ Outcome(t, u).tables = y
    BY <2>2, <2>10
  <2> QED
    BY <2>2, <2>11, <2>12, <2>13, ZenonT(30) DEF Agree, Permuted
<1>9. CASE \E k \in 1..n : F[k].throws
  <2>1. PICK k \in 1..n : F[k].throws
    BY <1>9
  <2>2. e[k] \in 1..n /\ G[e[k]].throws
    BY <1>4, <1>7, <2>1, Zenon
  <2>3. \E r \in 1..n : G[r].throws
    BY <2>2
  <2>4. Outcome(t, s).throws = TRUE /\ Outcome(t, u).throws = TRUE
    <3>1. (\E r \in 1..Len(s) : F[r].throws) /\ \E r \in 1..Len(u) : G[r].throws
      BY <1>1, <1>9, <2>3, Zenon
    <3> QED
      BY <1>2, <3>1, OutcomeOfRun, Zenon
  <2> QED
    BY <2>4, Zenon DEF Agree
<1> QED
  BY <1>8, <1>9, Zenon

----------------------------------------------------------------------------

\* What is applied ran without an exception and made the tables, and the operation
\* that threw throws on what the run left.
RunSoFar(F) ==
  /\ Run(F, Start, applied)
  /\ \A k \in 1..Len(applied) : ~F[k].throws
  /\ status # "threw" => tables = F[Len(applied)].tables
  /\ status = "threw" => effect(F[Len(applied)].tables, block[Current]).throws

\* Some run led to the tables.
HasRun == \E F : RunSoFar(F)

\* The inductive invariant of a block that is applied to tables.
BlockInv == SchedulerInv /\ HasRun

\* The invariant holds before anything is placed.
LEMMA BlockInitInv == BlockInit => BlockInv
<1> SUFFICES ASSUME BlockInit PROVE BlockInv
  OBVIOUS
<1>1. SchedulerInv
  BY InitInv DEF BlockInit
<1>2. applied = << >> /\ status = "plan" /\ tables = Start
  BY DEF BlockInit, Init
<1>3. Len(applied) = 0
  BY <1>2
<1>4. PICK F : F = [k \in {0} |-> [throws |-> FALSE, tables |-> Start]]
  BY Zenon
<1>5. F[0] = [throws |-> FALSE, tables |-> Start] /\ F[0].tables = Start
  BY <1>4
<1>6. \A k \in 1..Len(applied) : FALSE
  BY <1>3, SMTT(30)
<1>7. RunSoFar(F)
  BY <1>2, <1>3, <1>5, <1>6, Zenon DEF RunSoFar, Run
<1> QED
  BY <1>1, <1>7 DEF BlockInv, HasRun

\* A run of s with one more operation is a run.
LEMMA RunOn ==
  ASSUME NEW F, NEW t, NEW s, Ops(s), NEW i, s \in Seq(Nat), i \in Nat, Run(F, t, s)
  PROVE  \E E : /\ Run(E, t, Append(s, i))
                /\ \A k \in 0..Len(s) : E[k] = F[k]
                /\ E[Len(s) + 1] = effect(F[Len(s)].tables, block[i])
<1>1. PICK n, u : n = Len(s) /\ n \in Nat /\ u = Append(s, i)
  BY Zenon DEF Ops
<1>2. Len(u) = n + 1 /\ u[n + 1] = i /\ \A k \in 1..n : u[k] = s[k]
  BY <1>1
<1>3. PICK x : x = effect(F[n].tables, block[i])
  OBVIOUS
<1>4. PICK E : E = [k \in 0..(n + 1) |-> IF k = n + 1 THEN x ELSE F[k]]
  BY Zenon
<1>5. E[n + 1] = x /\ \A k \in 0..n : E[k] = F[k]
  BY <1>1, <1>4, SMTT(30)
<1>6. E[0] = [throws |-> FALSE, tables |-> t]
  <2>1. 0 \in 0..n
    BY <1>1, SMTT(30)
  <2> QED
    BY <1>5, <2>1 DEF Run
<1>7. ASSUME NEW k \in 1..(n + 1) PROVE E[k] = effect(E[k - 1].tables, block[u[k]])
  <2>1. k - 1 \in 0..n /\ (k = n + 1 \/ (k \in 1..n /\ k \in 0..n))
    BY <1>1
  <2>2. E[k - 1] = F[k - 1]
    BY <1>5, <2>1, Zenon
  <2>3. CASE k = n + 1
    <3>1. k - 1 = n
      BY <1>1, <2>3, SMTT(30)
    <3> QED
      BY <1>2, <1>3, <1>5, <2>2, <2>3, <3>1, Zenon
  <2>4. CASE k \in 1..n /\ k \in 0..n
    <3>1. F[k] = effect(F[k - 1].tables, block[s[k]])
      BY <1>1, <2>4, Zenon DEF Run
    <3> QED
      BY <1>2, <1>5, <2>2, <2>4, <3>1, Zenon
  <2> QED
    BY <2>1, <2>3, <2>4, Zenon
<1>8. Run(E, t, u)
  BY <1>2, <1>6, <1>7, Zenon DEF Run
<1> QED
  BY <1>1, <1>3, <1>5, <1>8

\* The indices of an order are operations of the block.
LEMMA OrderlyOps ==
  ASSUME SchedulerInv, NEW s, Orderly(s)
  PROVE  Ops(s)
<1>1. TypeOK /\ Partition /\ planned \in 0..Len(block)
  BY Zenon DEF SchedulerInv, PlanInv, TypeOK
<1>2. Len(block) \in Nat /\ DOMAIN block = 1..Len(block) /\ block \in Seq(scheduled_op)
  BY <1>1, BlockOrderIs, Zenon DEF TypeOK
<1>3. \A m \in 1..Len(s) : s[m] \in 1..planned
  BY <1>1 DEF Orderly, Partition
<1>4. \A i \in 1..planned : block[i] \in scheduled_op
  BY <1>1, <1>2, SMTT(30)
<1> QED
  BY <1>3, <1>4, Zenon DEF Ops, Orderly

\* And every step of the block keeps it.
LEMMA BlockNextInv == BlockInv /\ [BlockNext]_allVars => BlockInv'
<1> SUFFICES ASSUME BlockInv, [BlockNext]_allVars PROVE BlockInv'
  OBVIOUS
<1>1. SchedulerInv
  BY DEF BlockInv
<1>2. SchedulerInv'
  <2>1. [Next]_vars
    BY DEF BlockNext, allVars, ApplyOrThrow, Next, vars
  <2> QED
    BY <1>1, <2>1, NextInv, Zenon
<1>3. PICK F : RunSoFar(F)
  BY Zenon DEF BlockInv, HasRun
<1>4. ASSUME UNCHANGED <<block, applied, tables>>, status # "threw", status' # "threw"
      PROVE  RunSoFar(F)'
  BY <1>3, <1>4 DEF RunSoFar, Run
<1>5. CASE UNCHANGED allVars
  <2>1. UNCHANGED <<block, applied, tables, status, layers, at>>
    BY <1>5, Zenon DEF allVars, vars
  <2>2. RunSoFar(F)'
    BY <1>3, <2>1, Zenon DEF RunSoFar, Run, Current
  <2> QED
    BY <1>2, <2>2, Zenon DEF BlockInv, HasRun
<1>6. CASE (Place \/ Planned) /\ UNCHANGED tables
  <2>1. UNCHANGED <<block, applied, tables>> /\ status = "plan" /\ status' # "threw"
    BY <1>6 DEF Place, Planned
  <2>2. RunSoFar(F)'
    BY <1>4, <2>1
  <2> QED
    BY <1>2, <2>2 DEF BlockInv, HasRun
<1>7. CASE ApplyOrThrow /\ ApplyOne
  <2>1. PICK x : x = effect(tables, block[Current])
    OBVIOUS
  <2>2. /\ status = "apply" /\ status' # "threw" /\ applied' = Append(applied, Current)
        /\ UNCHANGED block /\ tables' = x.tables
    BY <1>7, <2>1 DEF ApplyOrThrow, ApplyOne
  <2>3. ~x.throws
    BY <1>7, <2>1, <2>2, Zenon DEF ApplyOrThrow, ApplyOne, Throw
  <2>4. Ops(applied) /\ applied \in Seq(Nat) /\ Current \in Nat
    <3>1. Orderly(applied) /\ Position(at.layer, at.pos) /\ TypeOK
      BY <1>1, <2>2, AppliedOrderly, Zenon DEF SchedulerInv, PlanInv, Progress
    <3>2. layers \in Seq(Seq(Nat)) /\ applied \in Seq(Nat)
      BY <3>1, Zenon DEF TypeOK
    <3> QED
      BY <1>1, <3>1, <3>2, OrderlyOps, SMTT(30) DEF Position, Current
  <2>5. PICK n : n = Len(applied) /\ n \in Nat
    BY <2>4, Zenon DEF Ops
  <2>6. Run(F, Start, applied) /\ tables = F[n].tables /\ \A k \in 1..n : ~F[k].throws
    BY <1>3, <2>2, <2>5, Zenon DEF RunSoFar
  <2>7. PICK E : /\ Run(E, Start, Append(applied, Current))
                 /\ \A k \in 0..n : E[k] = F[k]
                 /\ E[n + 1] = x
    BY <2>1, <2>4, <2>5, <2>6, RunOn
  <2>8. Len(applied') = n + 1
    BY <2>2, <2>4, <2>5, SMTT(30)
  <2>9. \A k \in 1..(n + 1) : ~E[k].throws
    <3>1. \A k \in 1..(n + 1) : k = n + 1 \/ (k \in 1..n /\ k \in 0..n)
      BY <2>5, SMTT(30)
    <3> QED
      BY <2>3, <2>6, <2>7, <3>1, Zenon
  <2>10. Run(E, Start, applied)'
    BY <2>2, <2>7, Zenon DEF Run
  <2>11. RunSoFar(E)'
    BY <2>2, <2>7, <2>8, <2>9, <2>10, Zenon DEF RunSoFar
  <2> QED
    BY <1>2, <2>11 DEF BlockInv, HasRun
<1>8. CASE ApplyOrThrow /\ Throw
  <2>1. PICK x : x = effect(tables, block[Current])
    OBVIOUS
  <2>2. status = "apply" /\ status' = "threw" /\ UNCHANGED <<block, applied, layers, at>>
    BY <1>8 DEF ApplyOrThrow, Throw
  <2>3. x.throws
    BY <1>8, <2>1, <2>2, Zenon DEF ApplyOrThrow, ApplyOne, Throw
  <2>4. tables = F[Len(applied)].tables
    BY <1>3, <2>2, Zenon DEF RunSoFar
  <2>5. (effect(F[Len(applied)].tables, block[Current]).throws)'
    BY <2>1, <2>2, <2>3, <2>4, Zenon DEF Current
  <2>6. Run(F, Start, applied)' /\ \A k \in 1..Len(applied') : ~F[k].throws
    BY <1>3, <2>2, Zenon DEF RunSoFar, Run
  <2>7. RunSoFar(F)'
    BY <2>2, <2>5, <2>6 DEF RunSoFar
  <2> QED
    BY <1>2, <2>7 DEF BlockInv, HasRun
<1> QED
  BY <1>5, <1>6, <1>7, <1>8 DEF BlockNext, ApplyOrThrow

----------------------------------------------------------------------------

\* The block order consists of operations of the block.
LEMMA BlockOrderOps ==
  ASSUME SchedulerInv
  PROVE  Ops(BlockOrder)
<1>1. TypeOK
  BY DEF SchedulerInv, PlanInv
<1>2. /\ Len(block) \in Nat /\ Len(BlockOrder) = Len(block) /\ block \in Seq(scheduled_op)
      /\ \A i \in 1..Len(block) : BlockOrder[i] = i
  BY <1>1, BlockOrderIs DEF TypeOK
<1>3. \A i \in 1..Len(block) : block[i] \in scheduled_op
  BY <1>2
<1> QED
  BY <1>2, <1>3 DEF Ops

\* An operation that throws in an order that keeps conflicts throws in block order.
LEMMA ThrowsSerially ==
  ASSUME LocalEffects, BlockInv, status = "threw", ConflictsInOrder
  PROVE  Outcome(Start, BlockOrder).throws = TRUE
<1>1. SchedulerInv /\ status # "plan"
  BY DEF BlockInv
<1>2. PICK F : RunSoFar(F)
  BY DEF BlockInv, HasRun
<1>3. PICK s, n : s = Append(applied, Current) /\ n = Len(applied)
  BY Zenon
<1>4. Orderly(s) /\ Orderly(applied)
  BY <1>1, <1>3, CurrentOrderly, AppliedOrderly, Zenon
<1>5. Ops(s) /\ Ops(applied) /\ Ops(BlockOrder)
  BY <1>1, <1>4, OrderlyOps, BlockOrderOps, Zenon
<1>6. Embeds(s, BlockOrder, s)
  BY <1>1, <1>4, OrderlyEmbeds, Zenon
<1>7. applied \in Seq(Nat) /\ Current \in Nat
  <2>1. Position(at.layer, at.pos) /\ TypeOK
    BY <1>1 DEF SchedulerInv, PlanInv, Progress
  <2>2. layers \in Seq(Seq(Nat)) /\ applied \in Seq(Nat)
    BY <2>1, Zenon DEF TypeOK
  <2> QED
    BY <2>1, <2>2, SMTT(30) DEF Position, Current
<1>8. PICK E : /\ Run(E, Start, s)
               /\ E[n + 1] = effect(F[n].tables, block[Current])
  <2>1. Run(F, Start, applied)
    BY <1>2, Zenon DEF RunSoFar
  <2> QED
    BY <1>3, <1>5, <1>7, <2>1, RunOn
<1>9. E[n + 1].throws
  BY <1>2, <1>3, <1>8 DEF RunSoFar
<1>10. PICK G : Run(G, Start, BlockOrder)
  BY <1>5, RunExists, Zenon DEF Ops
<1>11. Runs(E, G, Start, s, BlockOrder, s)
  BY <1>5, <1>6, <1>8, <1>10, StartShape, Zenon DEF Runs
<1>12. n + 1 \in 1..Len(s) /\ n \in Nat
  BY <1>3, <1>7
<1>13. s[n + 1] \in 1..Len(BlockOrder)
  BY <1>6, <1>12, Zenon DEF Embeds
<1>14. Matches(E, G, s, s, n + 1)
  BY <1>11, <1>12, BothRuns, Zenon
<1>15. G[s[n + 1]].throws
  BY <1>9, <1>14, Zenon DEF Matches, Answers
<1>16. \E k \in 1..Len(BlockOrder) : G[k].throws
  BY <1>13, <1>15, SMTT(30)
<1> QED
  BY <1>5, <1>10, <1>16, StartShape, OutcomeOfRun, Zenon

\* A block that is applied to the end agrees with its block order.
LEMMA EndsSerially ==
  ASSUME LocalEffects, BlockInv, status = "done", ConflictsInOrder
  PROVE  Agree([throws |-> FALSE, tables |-> tables], Outcome(Start, BlockOrder))
<1>1. SchedulerInv /\ status # "plan" /\ status # "threw"
  BY DEF BlockInv
<1>2. PICK F : RunSoFar(F)
  BY Zenon DEF BlockInv, HasRun
<1>3. /\ Run(F, Start, applied) /\ tables = F[Len(applied)].tables
      /\ \A k \in 1..Len(applied) : ~F[k].throws
  BY <1>1, <1>2 DEF RunSoFar
<1>4. Orderly(applied)
  BY <1>1, AppliedOrderly
<1>5. Ops(applied) /\ Ops(BlockOrder)
  BY <1>1, <1>4, OrderlyOps, BlockOrderOps, Zenon
<1>6. Embeds(applied, BlockOrder, applied)
  BY <1>1, <1>4, OrderlyEmbeds, Zenon
<1>7. PICK G : Run(G, Start, BlockOrder)
  BY <1>5, RunExists, Zenon DEF Ops
<1>8. Runs(F, G, Start, applied, BlockOrder, applied)
  BY <1>3, <1>5, <1>6, <1>7, StartShape DEF Runs
<1>9. Len(BlockOrder) = Len(applied) /\ applied \in Bijection(1..Len(applied), 1..Len(applied))
  BY <1>1, DoneInOrder
<1>10. Agree(Outcome(Start, applied), Outcome(Start, BlockOrder))
  BY <1>8, <1>9, AgreeRuns
<1>11. Outcome(Start, applied).throws = FALSE /\ Outcome(Start, applied).tables = tables
  BY <1>3, <1>5, StartShape, OutcomeOfRun, Zenon
<1>12. PICK x, y, z : /\ x = Outcome(Start, applied) /\ y = [throws |-> FALSE, tables |-> tables]
                      /\ z = Outcome(Start, BlockOrder)
  BY Zenon
<1>13. x.throws = y.throws /\ x.tables = y.tables
  BY <1>11, <1>12, ZenonT(30)
<1>14. Agree(x, z)
  BY <1>10, <1>12, Zenon
<1>15. Agree(y, z)
  BY <1>13, <1>14, ZenonT(30) DEF Agree
<1> QED
  BY <1>12, <1>15, Zenon

\* The invariant implies that a block ends as its block order does.
LEMMA InvScheduledAsSerial == LocalEffects /\ BlockInv => ScheduledAsSerial
<1> SUFFICES ASSUME LocalEffects, BlockInv, status \in {"done", "threw"}, ConflictsInOrder
             PROVE  Agree([throws |-> status = "threw", tables |-> tables], Outcome(Start, BlockOrder))
  BY Zenon DEF ScheduledAsSerial, BlockOrder
<1>1. CASE status = "threw"
  <2>1. Outcome(Start, BlockOrder).throws = TRUE
    BY <1>1, ThrowsSerially, Zenon
  <2>2. (status = "threw") = TRUE
    BY <1>1
  <2>3. PICK x : x = [throws |-> status = "threw", tables |-> tables]
    BY Zenon
  <2>4. x.throws = TRUE
    BY <2>2, <2>3, Zenon
  <2>5. Agree(x, Outcome(Start, BlockOrder))
    BY <2>1, <2>4, Zenon DEF Agree
  <2> QED
    BY <2>3, <2>5
<1>2. CASE status = "done"
  <2>1. Agree([throws |-> FALSE, tables |-> tables], Outcome(Start, BlockOrder))
    BY <1>2, EndsSerially
  <2>2. (status = "threw") = FALSE
    BY <1>2, Zenon
  <2> QED
    BY <2>1, <2>2, Zenon
<1> QED
  BY <1>1, <1>2, Zenon

\* The invariant implies that a layer that is due may be applied in any order.
LEMMA InvLayerOrderFree == LocalEffects /\ BlockInv => LayerOrderFree
<1> SUFFICES ASSUME LocalEffects, BlockInv, status = "apply",
                    NEW f \in Bijection(DOMAIN layers[at.layer], DOMAIN layers[at.layer])
             PROVE  Agree(Outcome(tables, layers[at.layer]),
                          Outcome(tables, [k \in DOMAIN layers[at.layer] |-> layers[at.layer][f[k]]]))
  BY Zenon DEF LayerOrderFree
<1>1. SchedulerInv
  BY DEF BlockInv
<1>2. PICK s, u : s = layers[at.layer] /\ u = [k \in DOMAIN s |-> s[f[k]]]
  BY Zenon
<1>3. Shape(tables)
  <2>1. PICK F : RunSoFar(F)
    BY Zenon DEF BlockInv, HasRun
  <2>2. Run(F, Start, applied) /\ tables = F[Len(applied)].tables
    BY <2>1, Zenon DEF RunSoFar
  <2>3. Ops(applied)
    BY <1>1, AppliedOrderly, OrderlyOps, Zenon
  <2>4. Len(applied) \in 0..Len(applied)
    BY <2>3, SMTT(30) DEF Ops
  <2> QED
    BY <2>2, <2>3, <2>4, StartShape, RunShape, Zenon
<1>4. at.layer \in DOMAIN layers /\ block \in Seq(scheduled_op)
  BY <1>1, SMTT(30) DEF SchedulerInv, PlanInv, TypeOK, Progress, Position
<1>5. /\ Len(s) \in Nat /\ DOMAIN s = 1..Len(s)
      /\ \A m \in 1..Len(s) : s[m] \in DOMAIN block
  BY <1>1, <1>2, <1>4, LayerEmbeds, ZenonT(30)
<1>6. PICK e \in Bijection(1..Len(s), 1..Len(s)) : Embeds(s, u, e)
  BY <1>1, <1>2, <1>4, LayerEmbeds, ZenonT(30)
<1>7. \A i \in DOMAIN block : block[i] \in scheduled_op
  BY <1>4, SMTT(30)
<1>8. Len(u) = Len(s) /\ \A k \in 1..Len(s) : \E m \in 1..Len(s) : u[k] = s[m]
  <2>1. \A k \in DOMAIN s : f[k] \in DOMAIN s
    BY <1>2, Zenon DEF Bijection, Injection
  <2>2. PICK n : n = Len(s) /\ n \in Nat /\ DOMAIN s = 1..n
    BY <1>5, Zenon
  <2>3. u = [k \in 1..n |-> s[f[k]]]
    BY <1>2, <2>2, Zenon
  <2>4. Len(u) = n /\ \A k \in 1..n : u[k] = s[f[k]] /\ f[k] \in 1..n
    BY <2>1, <2>2, <2>3, SMTT(30)
  <2> QED
    BY <2>2, <2>4, Zenon
<1>9. Ops(s) /\ Ops(u)
  BY <1>5, <1>7, <1>8, Zenon DEF Ops
<1>10. PICK F, G : Run(F, tables, s) /\ Run(G, tables, u)
  BY <1>9, RunExists, Zenon DEF Ops
<1>11. Runs(F, G, tables, s, u, e)
  BY <1>3, <1>6, <1>9, <1>10, ZenonT(30) DEF Runs
<1>12. Agree(Outcome(tables, s), Outcome(tables, u))
  BY <1>8, <1>11, AgreeRuns, ZenonT(30)
<1> QED
  BY <1>2, <1>12, Zenon

\* A block with its evaluators is scheduled as any block is: what is proved of the
\* scheduler holds of it.
THEOREM BlockRefines == BlockSpec => Spec
<1>1. BlockInit => Init
  BY DEF BlockInit
<1>2. [BlockNext]_allVars => [Next]_vars
  BY DEF BlockNext, allVars, ApplyOrThrow, Next, vars
<1> QED
  BY <1>1, <1>2, PTL DEF BlockSpec, Spec

\* With effects that stay within what operations are classified by, the operations
\* of a layer of build_parallel_schedule give one and the same result in every order,
\* whatever the tables hold when the layer is due.
THEOREM LayersOrderFree == LocalEffects => (BlockSpec => []LayerOrderFree)
<1> SUFFICES ASSUME LocalEffects PROVE BlockSpec => []LayerOrderFree
  OBVIOUS
<1>1. BlockInv => LayerOrderFree
  BY InvLayerOrderFree, Zenon
<1> QED
  BY <1>1, BlockInitInv, BlockNextInv, PTL DEF BlockSpec

\* With such effects apply_scheduled ends a block as the block order does, unless
\* the schedule lets an operation overtake one it conflicts with.
THEOREM BlockAsSerial == LocalEffects => (BlockSpec => []ScheduledAsSerial)
<1> SUFFICES ASSUME LocalEffects PROVE BlockSpec => []ScheduledAsSerial
  OBVIOUS
<1>1. BlockInv => ScheduledAsSerial
  BY InvScheduledAsSerial
<1> QED
  BY <1>1, BlockInitInv, BlockNextInv, PTL DEF BlockSpec
=============================================================================
