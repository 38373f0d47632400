--------------------------- MODULE EstimatesProofs ---------------------------
(***************************************************************************)
(* The properties of Estimates, for every cluster and every reading.       *)
(***************************************************************************)
EXTENDS Estimates, CapacityProofs

-----------------------------------------------------------------------------
(* What the Pods of a set need.                                            *)

LEMMA PodsAreFinite ==
    ASSUME NEW mode, IsMode(mode), NEW n \in Nat
    PROVE  /\ IsFiniteSet(Pods(mode, n))
           /\ \A p \in Pods(mode, n) :
                  /\ p[2] \in DOMAIN mode /\ mode[p[2]] \in Component
                  /\ \A res \in {"cpu", "mem", "disk"} : mode[p[2]][res] \in Nat
<1>1. DOMAIN mode = 1..Len(mode) /\ Len(mode) \in Nat
      /\ \A k \in 1..Len(mode) : mode[k] \in Component
  BY ModeHasComponents
<1>2. IsFiniteSet(1..n) /\ IsFiniteSet(1..Len(mode))
  BY <1>1, FS_Interval
<1>3. IsFiniteSet(Pods(mode, n))
  BY <1>1, <1>2, FS_Product DEF Pods
<1>4. ASSUME NEW p \in Pods(mode, n)
      PROVE  p[2] \in DOMAIN mode /\ mode[p[2]] \in Component
             /\ \A res \in {"cpu", "mem", "disk"} : mode[p[2]][res] \in Nat
  <2>1. p[2] \in DOMAIN mode
    BY DEF Pods
  <2>2. mode[p[2]] \in Component
    BY <1>1, <2>1
  <2>3. QED
    BY <2>1, <2>2 DEF Component
<1>5. QED
  BY <1>3, <1>4

LEMMA NeedAdds ==
    ASSUME NEW mode, IsMode(mode), NEW n \in Nat,
           NEW S \in SUBSET Pods(mode, n), NEW res \in {"cpu", "mem", "disk"}
    PROVE  /\ Need(mode, n, res, S) \in Nat
           /\ Need(mode, n, res, {}) = 0
           /\ \A p \in Pods(mode, n) \ S :
                  Need(mode, n, res, S \cup {p})
                      = Need(mode, n, res, S) + mode[p[2]][res]
<1> DEFINE f == [p \in Pods(mode, n) |-> mode[p[2]][res]]
<1>1. IsFiniteSet(S) /\ \A p \in Pods(mode, n) : f[p] \in Nat
                        /\ f[p] = mode[p[2]][res]
  BY PodsAreFinite, FS_Subset
<1> HIDE DEF f
<1>2. SumFunctionOnSet(f, S) \in Nat
  BY <1>1, SumType
<1>3. SumFunctionOnSet(f, {}) = 0
  BY FS_EmptySet, SumUnfolds
<1>4. ASSUME NEW p \in Pods(mode, n) \ S
      PROVE  SumFunctionOnSet(f, S \cup {p})
                 = SumFunctionOnSet(f, S) + mode[p[2]][res]
  <2>1. p \notin S /\ \A q \in S \cup {p} : f[q] \in Nat
    BY <1>1
  <2>2. SumFunctionOnSet(f, S \cup {p}) = SumFunctionOnSet(f, S) + f[p]
    BY <1>1, <2>1, SumAdds
  <2>3. QED
    BY <1>1, <2>2
<1>5. \A T : Need(mode, n, res, T) = SumFunctionOnSet(f, T)
  BY DEF Need, f
<1>6. QED
  BY <1>2, <1>3, <1>4, <1>5

-----------------------------------------------------------------------------
(* What is placed is hosted.                                               *)

\* The Pods of U, at the nodes and on the disks they were placed on, take what
\* the cluster e has less than c.
Hosted(at, on, c, e, mode, n, U, r, known, N, D) ==
    /\ at \in [U -> N] /\ on \in [U -> SUBSET D]
    /\ \A i \in N :
           /\ c.nodes[i].cpu = e.nodes[i].cpu
                  + Need(mode, n, "cpu", {p \in U : at[p] = i})
           /\ c.nodes[i].mem = e.nodes[i].mem
                  + Need(mode, n, "mem", {p \in U : at[p] = i})
    /\ known =>
           /\ \A p \in U : mode[p[2]].disk > 0 => Cardinality(on[p]) = r
           /\ \A i \in D :
                  c.disks[i] = e.disks[i]
                      + Need(mode, n, "disk",
                             {p \in U : mode[p[2]].disk > 0 /\ i \in on[p]})

IsHosted(c, e, mode, n, U, r, known, N, D) ==
    \E at, on : Hosted(at, on, c, e, mode, n, U, r, known, N, D)

LEMMA HostedAdds ==
    ASSUME NEW N, NEW D, NEW c, NEW e, NEW f,
           IsLeft(c, N, D), IsLeft(e, N, D),
           NEW mode, IsMode(mode), NEW n \in Nat, NEW r \in Nat,
           NEW known \in BOOLEAN,
           NEW U \in SUBSET Pods(mode, n), NEW p \in Pods(mode, n) \ U,
           IsHosted(c, e, mode, n, U, r, known, N, D),
           Placed(f, e, mode[p[2]], r, known, N, D), f.ok
    PROVE  IsHosted(c, f, mode, n, U \cup {p}, r, known, N, D)
<1> DEFINE comp == mode[p[2]]
<1>1. /\ comp \in Component /\ comp.cpu \in Nat /\ comp.mem \in Nat
      /\ comp.disk \in Nat
  BY PodsAreFinite DEF Component
<1>2. PICK at, on : Hosted(at, on, c, e, mode, n, U, r, known, N, D)
  BY DEF IsHosted
<1>3. PICK b \in N :
          /\ HasRoom(e, b, comp) /\ f.nodes = Taken(e, b, comp)
          /\ IF known /\ comp.disk > 0
             THEN \E C : /\ IsWorstFit(C, e, comp.disk, r, D)
                         /\ f.disks = Spread(e, C, comp.disk)
             ELSE f.disks = e.disks
  BY DEF Placed
<1> HIDE DEF comp
<1>4. PICK C \in SUBSET D :
          IF known /\ comp.disk > 0
          THEN /\ Cardinality(C) = r /\ \A i \in C : e.disks[i] >= comp.disk
               /\ f.disks = Spread(e, C, comp.disk)
          ELSE f.disks = e.disks
  BY <1>3 DEF IsWorstFit
<1> DEFINE W == U \cup {p}
           at2 == [q \in W |-> IF q = p THEN b ELSE at[q]]
           on2 == [q \in W |-> IF q = p THEN C ELSE on[q]]
<1>5. at \in [U -> N] /\ on \in [U -> SUBSET D]
  BY <1>2 DEF Hosted
<1>6. /\ at2 \in [W -> N] /\ on2 \in [W -> SUBSET D]
      /\ at2[p] = b /\ on2[p] = C
      /\ \A q \in U : at2[q] = at[q] /\ on2[q] = on[q]
  BY <1>5
<1>7. p \in Pods(mode, n) /\ p \notin U /\ W \in SUBSET Pods(mode, n)
  OBVIOUS
<1> HIDE DEF at2, on2
<1>8. ASSUME NEW i \in N
      PROVE  /\ c.nodes[i].cpu = f.nodes[i].cpu
                    + Need(mode, n, "cpu", {q \in W : at2[q] = i})
             /\ c.nodes[i].mem = f.nodes[i].mem
                    + Need(mode, n, "mem", {q \in W : at2[q] = i})
  <2> DEFINE S == {q \in U : at[q] = i}
  <2>1. S \in SUBSET Pods(mode, n) /\ p \in Pods(mode, n) \ S
    BY <1>7
  <2>2. /\ c.nodes[i].cpu = e.nodes[i].cpu + Need(mode, n, "cpu", S)
        /\ c.nodes[i].mem = e.nodes[i].mem + Need(mode, n, "mem", S)
    BY <1>2 DEF Hosted
  <2>3. i = b => {q \in W : at2[q] = i} = S \cup {p}
    BY <1>6
  <2>4. i # b => {q \in W : at2[q] = i} = S
    BY <1>6
  <2> HIDE DEF S
  <2>5. /\ Need(mode, n, "cpu", S) \in Nat /\ Need(mode, n, "mem", S) \in Nat
        /\ Need(mode, n, "cpu", S \cup {p}) = Need(mode, n, "cpu", S) + comp.cpu
        /\ Need(mode, n, "mem", S \cup {p}) = Need(mode, n, "mem", S) + comp.mem
    BY <2>1, NeedAdds DEF comp
  <2>6. /\ e.nodes[i].cpu \in Nat /\ e.nodes[i].mem \in Nat
        /\ DOMAIN e.nodes = N
    BY DEF IsLeft
  <2>7. CASE i = b
    <3>1. f.nodes[i].cpu = e.nodes[i].cpu - comp.cpu
          /\ f.nodes[i].mem = e.nodes[i].mem - comp.mem
      BY <1>3, <2>6, <2>7 DEF Taken
    <3>2. c.nodes[i].cpu = f.nodes[i].cpu + (Need(mode, n, "cpu", S) + comp.cpu)
          /\ c.nodes[i].mem = f.nodes[i].mem + (Need(mode, n, "mem", S) + comp.mem)
      BY <1>1, <2>2, <2>5, <2>6, <3>1
    <3>3. QED
      BY <2>3, <2>5, <2>7, <3>2
  <2>8. CASE i # b
    <3>1. f.nodes[i] = e.nodes[i]
      BY <1>3, <2>6, <2>8 DEF Taken
    <3>2. QED
      BY <2>2, <2>4, <2>8, <3>1
  <2>9. QED
    BY <2>7, <2>8
<1>9. ASSUME known
      PROVE  /\ \A q \in W : mode[q[2]].disk > 0 => Cardinality(on2[q]) = r
             /\ \A i \in D :
                    c.disks[i] = f.disks[i]
                        + Need(mode, n, "disk",
                               {q \in W : mode[q[2]].disk > 0 /\ i \in on2[q]})
  <2>1. \A q \in U : mode[q[2]].disk > 0 => Cardinality(on2[q]) = r
    BY <1>2, <1>6, <1>9 DEF Hosted
  <2>2. mode[p[2]].disk > 0 => Cardinality(on2[p]) = r
    BY <1>4, <1>6, <1>9 DEF comp
  <2>3. ASSUME NEW i \in D
        PROVE  c.disks[i] = f.disks[i]
                   + Need(mode, n, "disk",
                          {q \in W : mode[q[2]].disk > 0 /\ i \in on2[q]})
    <3> DEFINE S == {q \in U : mode[q[2]].disk > 0 /\ i \in on[q]}
               T == {q \in W : mode[q[2]].disk > 0 /\ i \in on2[q]}
    <3>1. S \in SUBSET Pods(mode, n) /\ p \in Pods(mode, n) \ S
      BY <1>7
    <3>2. c.disks[i] = e.disks[i] + Need(mode, n, "disk", S)
      BY <1>2, <1>9 DEF Hosted
    <3>3. (comp.disk > 0 /\ i \in C) => T = S \cup {p}
      BY <1>6 DEF comp
    <3>4. ~(comp.disk > 0 /\ i \in C) => T = S
      BY <1>6 DEF comp
    <3> HIDE DEF S, T
    <3>5. /\ Need(mode, n, "disk", S) \in Nat
          /\ Need(mode, n, "disk", S \cup {p}) = Need(mode, n, "disk", S) + comp.disk
      BY <3>1, NeedAdds DEF comp
    <3>6. e.disks[i] \in Nat /\ DOMAIN e.disks = D
      BY DEF IsLeft
    <3>7. CASE comp.disk > 0 /\ i \in C
      <4>1. f.disks[i] = e.disks[i] - comp.disk
        BY <1>4, <1>9, <3>6, <3>7 DEF Spread
      <4>2. c.disks[i] = f.disks[i] + (Need(mode, n, "disk", S) + comp.disk)
        BY <1>1, <3>2, <3>5, <3>6, <4>1
      <4>3. QED
        BY <3>3, <3>5, <3>7, <4>2 DEF T
    <3>8. CASE ~(comp.disk > 0 /\ i \in C)
      <4>1. f.disks[i] = e.disks[i]
        BY <1>4, <1>9, <3>6, <3>8 DEF Spread
      <4>2. QED
        BY <3>2, <3>4, <3>8, <4>1 DEF T
    <3>9. QED
      BY <3>7, <3>8
  <2>4. QED
    BY <2>1, <2>2, <2>3
<1>10. Hosted(at2, on2, c, f, mode, n, W, r, known, N, D)
  BY <1>6, <1>8, <1>9 DEF Hosted
<1>11. QED
  BY <1>10 DEF IsHosted

LEMMA HostedBegins ==
    ASSUME NEW N, NEW D, NEW c, IsLeft(c, N, D),
           NEW mode, IsMode(mode), NEW n \in Nat, NEW r, NEW known
    PROVE  IsHosted(c, c, mode, n, Pods(mode, 0), r, known, N, D)
<1>1. Pods(mode, 0) = {} /\ {} \in SUBSET Pods(mode, n)
  BY DEF Pods
<1> DEFINE z == [p \in {} |-> {}]
<1>2. z \in [{} -> N] /\ z \in [{} -> SUBSET D]
  OBVIOUS
<1>3. \A res \in {"cpu", "mem", "disk"} : Need(mode, n, res, {}) = 0
  BY <1>1, NeedAdds
<1>4. /\ \A i \in N : c.nodes[i].cpu \in Nat /\ c.nodes[i].mem \in Nat
      /\ \A i \in D : c.disks[i] \in Nat
  BY DEF IsLeft
<1>5. \A i : /\ {p \in {} : z[p] = i} = {}
             /\ {p \in {} : mode[p[2]].disk > 0 /\ i \in z[p]} = {}
  OBVIOUS
<1> HIDE DEF z
<1>6. Hosted(z, z, c, c, mode, n, {}, r, known, N, D)
  BY <1>2, <1>3, <1>4, <1>5 DEF Hosted
<1>7. QED
  BY <1>1, <1>6 DEF IsHosted

\* The Pods of j sessions and of the first k components of one more.
Begun(mode, j, k) == Pods(mode, j) \cup {<<j + 1, m>> : m \in 1..k}

LEMMA BegunGrows ==
    ASSUME NEW mode, IsMode(mode), NEW j \in Nat
    PROVE  /\ Begun(mode, j, 0) = Pods(mode, j)
           /\ Begun(mode, j, Len(mode)) = Pods(mode, j + 1)
           /\ \A k \in 1..Len(mode) :
                  /\ <<j + 1, k>> \notin Begun(mode, j, k - 1)
                  /\ Begun(mode, j, k) = Begun(mode, j, k - 1) \cup {<<j + 1, k>>}
           /\ \A k \in 0..Len(mode) : \A n \in Nat :
                  j + 1 <= n => Begun(mode, j, k) \in SUBSET Pods(mode, n)
<1>1. DOMAIN mode = 1..Len(mode) /\ Len(mode) \in Nat
  BY ModeHasComponents
<1>2. Begun(mode, j, 0) = Pods(mode, j)
  BY DEF Begun
<1>3. Begun(mode, j, Len(mode)) = Pods(mode, j + 1)
  <2>1. 1..(j + 1) = (1..j) \cup {j + 1}
    OBVIOUS
  <2>2. {<<j + 1, m>> : m \in 1..Len(mode)} = {j + 1} \X (1..Len(mode))
    OBVIOUS
  <2>3. ((1..j) \cup {j + 1}) \X (1..Len(mode))
            = ((1..j) \X (1..Len(mode))) \cup ({j + 1} \X (1..Len(mode)))
    OBVIOUS
  <2>4. QED
    BY <1>1, <2>1, <2>2, <2>3, Zenon DEF Begun, Pods
<1>4. ASSUME NEW k \in 1..Len(mode)
      PROVE  /\ <<j + 1, k>> \notin Begun(mode, j, k - 1)
             /\ Begun(mode, j, k) = Begun(mode, j, k - 1) \cup {<<j + 1, k>>}
  <2>1. 1..k = (1..(k - 1)) \cup {k} /\ k \notin 1..(k - 1) /\ j + 1 \notin 1..j
    BY <1>1
  <2>2. {<<j + 1, m>> : m \in 1..k}
            = {<<j + 1, m>> : m \in 1..(k - 1)} \cup {<<j + 1, k>>}
    BY <2>1
  <2>3. <<j + 1, k>> \notin {<<j + 1, m>> : m \in 1..(k - 1)}
    BY <2>1
  <2>4. <<j + 1, k>> \notin Pods(mode, j)
    BY <2>1 DEF Pods
  <2>5. QED
    BY <2>2, <2>3, <2>4 DEF Begun
<1>5. ASSUME NEW k \in 0..Len(mode), NEW n \in Nat, j + 1 <= n
      PROVE  Begun(mode, j, k) \in SUBSET Pods(mode, n)
  <2>1. 1..j \subseteq 1..n /\ j + 1 \in 1..n /\ 1..k \subseteq DOMAIN mode
    BY <1>1, <1>5
  <2>2. QED
    BY <2>1 DEF Begun, Pods
<1>6. QED
  BY <1>2, <1>3, <1>4, <1>5

\* A session that is placed completely is hosted beside the earlier ones.
LEMMA SessionHosted ==
    ASSUME NEW N, Numbers(N), NEW D, Numbers(D), NEW c, NEW e,
           IsLeft(c, N, D), IsLeft(e, N, D),
           NEW mode, IsMode(mode), NEW r \in Nat, NEW known \in BOOLEAN,
           NEW n \in Nat, NEW j \in Nat, j + 1 <= n,
           IsHosted(c, e, mode, n, Pods(mode, j), r, known, N, D),
           PlaceSession(mode, e, r, known).ok
    PROVE  IsHosted(c, PlaceSession(mode, e, r, known), mode, n,
                    Pods(mode, j + 1), r, known, N, D)
<1>0. /\ Begun(mode, j, 0) = Pods(mode, j)
      /\ \A k \in 1..Len(mode) :
             /\ <<j + 1, k>> \notin Begun(mode, j, k - 1)
             /\ Begun(mode, j, k) = Begun(mode, j, k - 1) \cup {<<j + 1, k>>}
  BY BegunGrows
<1>1. /\ Len(mode) \in Nat /\ DOMAIN mode = 1..Len(mode)
      /\ \A k \in 1..Len(mode) : mode[k] \in Component
  BY ModeHasComponents
<1>2. PICK g : /\ g[0] = e
               /\ \A k \in 1..Len(mode) :
                      g[k] = PlaceComponent(g[k - 1], mode[k], r, known)
               /\ PlaceSession(mode, e, r, known) = g[Len(mode)]
  BY <1>1, SessionUnfolds
<1> DEFINE Good == {k \in Nat : k <= Len(mode) =>
                /\ IsLeft(g[k], N, D)
                /\ g[k].ok => IsHosted(c, g[k], mode, n, Begun(mode, j, k),
                                       r, known, N, D)}
<1>3. 0 \in Good
  BY <1>2, BegunGrows
<1>4. ASSUME NEW k \in Good PROVE k + 1 \in Good
  <2>1. SUFFICES ASSUME k + 1 <= Len(mode)
                 PROVE  /\ IsLeft(g[k + 1], N, D)
                        /\ g[k + 1].ok =>
                               IsHosted(c, g[k + 1], mode, n,
                                        Begun(mode, j, k + 1), r, known, N, D)
    OBVIOUS
  <2>2. /\ k \in Nat /\ k + 1 \in 1..Len(mode) /\ (k + 1) - 1 = k
        /\ k \in 0..Len(mode) /\ k + 1 \in 0..Len(mode)
        /\ IsLeft(g[k], N, D)
        /\ g[k].ok => IsHosted(c, g[k], mode, n, Begun(mode, j, k),
                               r, known, N, D)
    BY <1>1, <2>1
  <2> HIDE DEF Good
  <2>3. g[k + 1] = PlaceComponent(g[k], mode[k + 1], r, known)
    BY <1>2, <2>2
  <2>4. mode[k + 1] \in Component
    BY <1>1, <2>2
  <2>5. Placed(g[k + 1], g[k], mode[k + 1], r, known, N, D)
    BY <2>2, <2>3, <2>4, ComponentPlaced
  <2>6. IsLeft(g[k + 1], N, D) /\ (g[k + 1].ok => g[k].ok)
    BY <2>5 DEF Placed
  <2>7. ASSUME g[k + 1].ok
        PROVE  IsHosted(c, g[k + 1], mode, n, Begun(mode, j, k + 1),
                        r, known, N, D)
    <3> DEFINE p == <<j + 1, k + 1>>
    <3>1. p[2] = k + 1
      OBVIOUS
    <3>2. /\ p \notin Begun(mode, j, k)
          /\ Begun(mode, j, k + 1) = Begun(mode, j, k) \cup {p}
      <4>2. /\ p \notin Begun(mode, j, (k + 1) - 1)
            /\ Begun(mode, j, k + 1)
                   = Begun(mode, j, (k + 1) - 1) \cup {p}
        BY <1>0, <2>2
      <4>3. QED
        BY <2>2, <4>2
    <3>3. /\ Begun(mode, j, k) \in SUBSET Pods(mode, n)
          /\ Begun(mode, j, k + 1) \in SUBSET Pods(mode, n)
      BY <2>2, BegunGrows
    <3> HIDE DEF p
    <3>4. p \in Pods(mode, n) \ Begun(mode, j, k)
      BY <3>2, <3>3
    <3>5. Placed(g[k + 1], g[k], mode[p[2]], r, known, N, D)
      BY <2>5, <3>1
    <3>6. IsHosted(c, g[k], mode, n, Begun(mode, j, k), r, known, N, D)
      BY <2>2, <2>6, <2>7
    <3>7. IsHosted(c, g[k + 1], mode, n, Begun(mode, j, k) \cup {p},
                   r, known, N, D)
      BY <2>2, <2>7, <3>3, <3>4, <3>5, <3>6, HostedAdds
    <3>8. QED
      BY <3>2, <3>7
  <2>8. QED
    BY <2>6, <2>7
<1>5. Good = Nat
  <2>1. Good \in SUBSET Nat
    OBVIOUS
  <2> HIDE DEF Good
  <2>2. QED
    BY <1>3, <1>4, <2>1, Induction
<1>6. g[Len(mode)].ok => IsHosted(c, g[Len(mode)], mode, n,
                                  Begun(mode, j, Len(mode)), r, known, N, D)
  BY <1>1, <1>5
<1>7. QED
  BY <1>2, <1>6, BegunGrows

LEMMA PlacingIsHosted ==
    ASSUME NEW N, Numbers(N), NEW D, Numbers(D), NEW c, IsLeft(c, N, D),
           NEW mode, IsMode(mode), NEW r \in Nat, NEW known \in BOOLEAN,
           NEW n \in Nat, Placing(mode, c, r, known)[n].ok
    PROVE  IsHosted(c, Placing(mode, c, r, known)[n], mode, n, Pods(mode, n),
                    r, known, N, D)
<1> DEFINE left == Placing(mode, c, r, known)
           Good == {j \in Nat : j <= n =>
                       IsHosted(c, left[j], mode, n, Pods(mode, j),
                                r, known, N, D)}
<1>1. left[0] = c /\ \A k \in Nat : left[k + 1] = PlaceSession(mode, left[k], r, known)
  BY PlacingUnfolds
<1>2. /\ \A k \in Nat : IsLeft(left[k], N, D)
      /\ \A k \in Nat : k <= n => left[k].ok
  BY PlacingLasts DEF Lasts
<1> HIDE DEF left
<1>3. 0 \in Good
  BY <1>1, HostedBegins
<1>4. ASSUME NEW j \in Good PROVE j + 1 \in Good
  <2>1. SUFFICES ASSUME j + 1 <= n
                 PROVE  IsHosted(c, left[j + 1], mode, n, Pods(mode, j + 1),
                                 r, known, N, D)
    OBVIOUS
  <2>2. /\ j \in Nat /\ IsLeft(left[j], N, D) /\ left[j + 1].ok
        /\ IsHosted(c, left[j], mode, n, Pods(mode, j), r, known, N, D)
        /\ left[j + 1] = PlaceSession(mode, left[j], r, known)
    BY <1>1, <1>2, <2>1
  <2> HIDE DEF Good
  <2>3. QED
    BY <2>1, <2>2, SessionHosted
<1>5. Good = Nat
  <2>1. Good \in SUBSET Nat
    OBVIOUS
  <2> HIDE DEF Good
  <2>2. QED
    BY <1>3, <1>4, <2>1, Induction
<1>6. IsHosted(c, left[n], mode, n, Pods(mode, n), r, known, N, D)
  BY <1>5
<1>7. QED
  BY <1>6 DEF left

\* What is hosted respects every node and every disk.
LEMMA HostedFits ==
    ASSUME NEW c, IsCluster(c), NEW e, IsLeft(e, DOMAIN c.nodes, DOMAIN c.disks),
           NEW mode, IsMode(mode), NEW n \in Nat,
           NEW replicas \in Nat, NEW known \in BOOLEAN,
           IsHosted(c, e, mode, n, Pods(mode, n), AtLeastOne(replicas), known,
                    DOMAIN c.nodes, DOMAIN c.disks)
    PROVE  CanHost(mode, c, n, replicas, known)
<1> DEFINE N == DOMAIN c.nodes
           D == DOMAIN c.disks
           U == Pods(mode, n)
           r == AtLeastOne(replicas)
<1>1. PICK at, on : Hosted(at, on, c, e, mode, n, U, r, known, N, D)
  BY DEF IsHosted
<1>2. /\ \A i \in N : e.nodes[i].cpu \in Nat /\ e.nodes[i].mem \in Nat
      /\ \A i \in D : e.disks[i] \in Nat
  BY DEF IsLeft
<1>3. PodsFit(mode, c, n)
  <2>1. at \in [U -> N]
    BY <1>1 DEF Hosted
  <2>2. ASSUME NEW i \in N, NEW res \in {"cpu", "mem"}
        PROVE  Need(mode, n, res, {p \in U : at[p] = i}) <= c.nodes[i][res]
    <3> DEFINE S == {p \in U : at[p] = i}
    <3>1. S \in SUBSET U
      OBVIOUS
    <3>2. c.nodes[i].cpu = e.nodes[i].cpu + Need(mode, n, "cpu", S)
          /\ c.nodes[i].mem = e.nodes[i].mem + Need(mode, n, "mem", S)
      BY <1>1 DEF Hosted
    <3> HIDE DEF S
    <3>3. Need(mode, n, "cpu", S) \in Nat /\ Need(mode, n, "mem", S) \in Nat
      BY <3>1, NeedAdds
    <3>4. Need(mode, n, "cpu", S) <= c.nodes[i].cpu
          /\ Need(mode, n, "mem", S) <= c.nodes[i].mem
      BY <1>2, <3>2, <3>3
    <3>5. Need(mode, n, res, S) <= c.nodes[i][res]
      BY <3>4
    <3>6. QED
      BY <3>5 DEF S
  <2>3. QED
    BY <2>1, <2>2, Zenon DEF PodsFit
<1>4. ASSUME known PROVE VolumesFit(mode, c, n, r)
  <2> DEFINE volumes == {p \in U : mode[p[2]].disk > 0}
             spreads == {T \in SUBSET D : Cardinality(T) = r}
             o == [p \in volumes |-> on[p]]
  <2>1. /\ on \in [U -> SUBSET D]
        /\ \A p \in U : mode[p[2]].disk > 0 => Cardinality(on[p]) = r
        /\ \A i \in D : c.disks[i] = e.disks[i]
              + Need(mode, n, "disk", {p \in U : mode[p[2]].disk > 0 /\ i \in on[p]})
    BY <1>1, <1>4 DEF Hosted
  <2>2. o \in [volumes -> spreads]
    BY <2>1
  <2>3. ASSUME NEW i \in D
        PROVE  Need(mode, n, "disk", {p \in volumes : i \in o[p]}) <= c.disks[i]
    <3> DEFINE S == {p \in volumes : i \in o[p]}
    <3>1. S \in SUBSET U
      OBVIOUS
    <3>2. S = {p \in U : mode[p[2]].disk > 0 /\ i \in on[p]}
      OBVIOUS
    <3>3. c.disks[i] = e.disks[i] + Need(mode, n, "disk", S)
      BY <2>1, <3>2
    <3> HIDE DEF S
    <3>4. Need(mode, n, "disk", S) \in Nat
      BY <3>1, NeedAdds
    <3>5. Need(mode, n, "disk", S) <= c.disks[i]
      BY <1>2, <3>3, <3>4
    <3>6. QED
      BY <3>5 DEF S
  <2> HIDE DEF o
  <2>4. QED
    BY <2>2, <2>3, Zenon DEF VolumesFit
<1>5. QED
  BY <1>3, <1>4, Zenon DEF CanHost

LEMMA ReplicasAreNumbers ==
    ASSUME NEW replicas \in Nat
    PROVE  AtLeastOne(replicas) \in Nat /\ AtLeastOne(replicas) >= 1
           /\ AtLeastOne(AtLeastOne(replicas)) = AtLeastOne(replicas)
BY DEF AtLeastOne, Larger

\* The greedy placement never counts a session the cluster cannot hold.
LEMMA SimulateIsHosted ==
    ASSUME NEW c, IsCluster(c), NEW mode, IsMode(mode),
           NEW replicas \in Nat, NEW known \in BOOLEAN
    PROVE  CanHost(mode, c, Simulate(mode, c, AtLeastOne(replicas), known),
                   replicas, known)
<1> DEFINE r == AtLeastOne(replicas)
           N == DOMAIN c.nodes
           D == DOMAIN c.disks
           n == Simulate(mode, c, r, known)
<1>1. IsLeft(c, N, D) /\ c.ok /\ Numbers(N) /\ Numbers(D)
  BY ClusterIsLeft
<1>2. r \in Nat
  BY ReplicasAreNumbers
<1> HIDE DEF r, N, D
<1>3. n \in 0..MaxSessions /\ (n \in 0..MaxSessions =>
          (Placing(mode, c, r, known)[n].ok <=> n <= n))
  BY <1>1, <1>2, SimulateIsPrefix
<1>4. n \in Nat /\ Placing(mode, c, r, known)[n].ok
  BY <1>3, CapacityAssumption
<1> HIDE DEF n
<1>5. IsHosted(c, Placing(mode, c, r, known)[n], mode, n, Pods(mode, n),
               r, known, N, D)
  BY <1>1, <1>2, <1>4, PlacingIsHosted
<1>6. IsLeft(Placing(mode, c, r, known)[n], N, D)
  BY <1>1, <1>2, <1>4, PlacingLasts DEF Lasts
<1>7. CanHost(mode, c, n, replicas, known)
  BY <1>4, <1>5, <1>6, HostedFits DEF r, N, D
<1>8. QED
  BY <1>7 DEF n, r

-----------------------------------------------------------------------------
(* What still fits is counted: one component.                              *)

\* k times x and k times y fit into a and b.
Fits(k, a, x, b, y) == k * x <= a /\ k * y <= b

\* How often x and y fit into a and b, at most m times.
Cap(a, x, b, y, m) ==
    CHOOSE q \in 0..m : \A k \in 0..m : Fits(k, a, x, b, y) <=> k <= q

LEMMA FewerFit ==
    ASSUME NEW a \in Nat, NEW x \in Nat, NEW b \in Nat, NEW y \in Nat
    PROVE  /\ Fits(0, a, x, b, y)
           /\ \A k, j \in Nat : j <= k /\ Fits(k, a, x, b, y)
                                => Fits(j, a, x, b, y)
           /\ Fits(1, a, x, b, y) <=> x <= a /\ y <= b
           /\ \A k \in Nat : (x <= a /\ y <= b)
                  => (Fits(k, a - x, x, b - y, y) <=> Fits(k + 1, a, x, b, y))
<1>1. \A k \in Nat :
          /\ k * x \in Nat /\ (k + 1) * x = k * x + x
          /\ k * y \in Nat /\ (k + 1) * y = k * y + y
  BY Times
<1>2. 0 * x = 0 /\ 0 * y = 0 /\ 1 * x = x /\ 1 * y = y
  BY Times
<1>3. Fits(0, a, x, b, y)
  BY <1>2 DEF Fits
<1>4. ASSUME NEW k \in Nat, NEW j \in Nat, j <= k, Fits(k, a, x, b, y)
      PROVE  Fits(j, a, x, b, y)
  <2>1. j * x <= k * x /\ j * y <= k * y
    BY <1>4, Times
  <2>2. QED
    BY <1>1, <1>4, <2>1 DEF Fits
<1>5. Fits(1, a, x, b, y) <=> x <= a /\ y <= b
  BY <1>2 DEF Fits
<1>6. ASSUME NEW k \in Nat, x <= a, y <= b
      PROVE  Fits(k, a - x, x, b - y, y) <=> Fits(k + 1, a, x, b, y)
  <2>1. /\ k * x \in Nat /\ (k + 1) * x = k * x + x
        /\ k * y \in Nat /\ (k + 1) * y = k * y + y
    BY <1>1
  <2>2. (k * x <= a - x <=> (k + 1) * x <= a) /\ (k * y <= b - y <=> (k + 1) * y <= b)
    BY <2>1
  <2>3. QED
    BY <2>2 DEF Fits
<1>7. QED
  BY <1>3, <1>4, <1>5, <1>6

LEMMA CapExists ==
    ASSUME NEW a \in Nat, NEW x \in Nat, NEW b \in Nat, NEW y \in Nat
    PROVE  \A m \in Nat : \E q \in 0..m :
               \A k \in 0..m : Fits(k, a, x, b, y) <=> k <= q
<1> DEFINE F(k) == Fits(k, a, x, b, y)
           Good == {m \in Nat : \E q \in 0..m : \A k \in 0..m : F(k) <=> k <= q}
<1>1. F(0) /\ \A k, j \in Nat : j <= k /\ F(k) => F(j)
  BY FewerFit
<1> HIDE DEF F
<1>2. 0 \in Good
  BY <1>1
<1>3. ASSUME NEW m \in Good PROVE m + 1 \in Good
  <2>1. m \in Nat /\ m + 1 \in Nat /\ m + 1 \in 0..(m + 1)
    OBVIOUS
  <2>2. PICK q \in 0..m : \A k \in 0..m : F(k) <=> k <= q
    OBVIOUS
  <2>3. CASE F(m + 1)
    <3>1. \A k \in 0..(m + 1) : F(k) /\ k <= m + 1
      BY <1>1, <2>1, <2>3
    <3>2. QED
      BY <2>1, <3>1
  <2>4. CASE ~F(m + 1)
    <3>1. \A k \in 0..(m + 1) : F(k) <=> k <= q
      BY <2>1, <2>2, <2>4
    <3>2. q \in 0..(m + 1)
      BY <2>1
    <3>3. QED
      BY <2>1, <3>1, <3>2
  <2>5. QED
    BY <2>3, <2>4
<1>4. Good = Nat
  <2>1. Good \in SUBSET Nat
    OBVIOUS
  <2> HIDE DEF Good
  <2>2. QED
    BY <1>2, <1>3, <2>1, Induction
<1>5. \A m \in Nat : \E q \in 0..m : \A k \in 0..m : F(k) <=> k <= q
  BY <1>4
<1>6. QED
  BY <1>5 DEF F

LEMMA CapIs ==
    ASSUME NEW a \in Nat, NEW x \in Nat, NEW b \in Nat, NEW y \in Nat,
           NEW m \in Nat
    PROVE  /\ Cap(a, x, b, y, m) \in 0..m
           /\ \A k \in 0..m : Fits(k, a, x, b, y) <=> k <= Cap(a, x, b, y, m)
<1>1. \E q \in 0..m : \A k \in 0..m : Fits(k, a, x, b, y) <=> k <= q
  BY CapExists
<1>2. QED
  BY <1>1, Zenon DEF Cap

LEMMA CapAtOne ==
    ASSUME NEW a \in Nat, NEW x \in Nat, NEW b \in Nat, NEW y \in Nat,
           NEW m \in Nat
    PROVE  Cap(a, x, b, y, m) >= 1 => x <= a /\ y <= b
<1>1. SUFFICES ASSUME Cap(a, x, b, y, m) >= 1 PROVE x <= a /\ y <= b
  OBVIOUS
<1>2. /\ Cap(a, x, b, y, m) \in 0..m
      /\ \A k \in 0..m : Fits(k, a, x, b, y) <=> k <= Cap(a, x, b, y, m)
  BY CapIs
<1>3. 1 \in 0..m
  BY <1>1, <1>2
<1>4. Fits(1, a, x, b, y)
  BY <1>1, <1>2, <1>3
<1>5. QED
  BY <1>4, FewerFit

\* One that is taken counts one.
LEMMA CapTakes ==
    ASSUME NEW a \in Nat, NEW x \in Nat, NEW b \in Nat, NEW y \in Nat,
           NEW m \in Nat, x <= a, y <= b
    PROVE  /\ Cap(a, x, b, y, m) <= Cap(a - x, x, b - y, y, m) + 1
           /\ Cap(a, x, b, y, m + 1) = Cap(a - x, x, b - y, y, m) + 1
<1> DEFINE p == Cap(a - x, x, b - y, y, m)
           q == Cap(a, x, b, y, m)
           w == Cap(a, x, b, y, m + 1)
<1>1. a - x \in Nat /\ b - y \in Nat /\ m + 1 \in Nat
  OBVIOUS
<1>2. p \in 0..m /\ \A k \in 0..m : Fits(k, a - x, x, b - y, y) <=> k <= p
  BY <1>1, CapIs
<1>3. q \in 0..m /\ \A k \in 0..m : Fits(k, a, x, b, y) <=> k <= q
  BY CapIs
<1>4. w \in 0..(m + 1) /\ \A k \in 0..(m + 1) : Fits(k, a, x, b, y) <=> k <= w
  BY <1>1, CapIs
<1>5. \A k \in Nat : Fits(k, a - x, x, b - y, y) <=> Fits(k + 1, a, x, b, y)
  BY FewerFit
<1> SUFFICES q <= p + 1 /\ w = p + 1
  OBVIOUS
<1> HIDE DEF p, q, w
<1>6. q <= p + 1
  <2>1. CASE q = 0
    BY <1>2, <2>1
  <2>2. CASE q # 0
    <3>1. q - 1 \in Nat /\ q - 1 \in 0..m /\ (q - 1) + 1 = q
      BY <1>3, <2>2
    <3>2. Fits(q, a, x, b, y)
      BY <1>3
    <3>3. Fits((q - 1) + 1, a, x, b, y)
      BY <3>1, <3>2
    <3>4. Fits(q - 1, a - x, x, b - y, y)
      BY <1>5, <3>1, <3>3
    <3>5. q - 1 <= p
      BY <1>2, <3>1, <3>4
    <3>6. QED
      BY <1>2, <1>3, <3>5
  <2>3. QED
    BY <2>1, <2>2
<1>7. p + 1 <= w
  <2>1. p \in Nat /\ p \in 0..m /\ p <= p /\ p + 1 \in 0..(m + 1)
    BY <1>2
  <2>2. Fits(p, a - x, x, b - y, y)
    BY <1>2, <2>1
  <2>3. Fits(p + 1, a, x, b, y)
    BY <1>5, <2>1, <2>2
  <2>4. QED
    BY <1>4, <2>1, <2>3
<1>8. w <= p + 1
  <2>1. SUFFICES ASSUME w >= p + 2 PROVE FALSE
    BY <1>2, <1>4
  <2>2. p + 1 \in Nat /\ p + 1 \in 0..m /\ (p + 1) + 1 \in 0..(m + 1)
        /\ (p + 1) + 1 <= w /\ ~(p + 1 <= p)
    BY <1>2, <1>4, <2>1
  <2>3. Fits((p + 1) + 1, a, x, b, y)
    BY <1>4, <2>2
  <2>4. Fits(p + 1, a - x, x, b - y, y)
    BY <1>5, <2>2, <2>3
  <2>5. QED
    BY <1>2, <2>2, <2>4
<1>9. QED
  BY <1>2, <1>4, <1>6, <1>7, <1>8

\* A lower bound on the count changes it only where it was reached.
LEMMA CapShrinks ==
    ASSUME NEW a \in Nat, NEW x \in Nat, NEW b \in Nat, NEW y \in Nat,
           NEW m \in Nat, Cap(a, x, b, y, m + 1) <= m
    PROVE  Cap(a, x, b, y, m) = Cap(a, x, b, y, m + 1)
<1> DEFINE q == Cap(a, x, b, y, m)
           w == Cap(a, x, b, y, m + 1)
<1>1. q \in 0..m /\ \A k \in 0..m : Fits(k, a, x, b, y) <=> k <= q
  BY CapIs
<1>2. m + 1 \in Nat
  OBVIOUS
<1>3. w \in 0..(m + 1) /\ \A k \in 0..(m + 1) : Fits(k, a, x, b, y) <=> k <= w
  BY <1>2, CapIs
<1> SUFFICES q = w
  OBVIOUS
<1>4. w <= m
  OBVIOUS
<1> HIDE DEF q, w
<1>5. q \in 0..(m + 1) /\ w \in 0..m
  BY <1>1, <1>3, <1>4
<1>6. w <= q
  <2>1. Fits(w, a, x, b, y)
    BY <1>3
  <2>2. QED
    BY <1>1, <1>5, <2>1
<1>7. q <= w
  <2>1. Fits(q, a, x, b, y)
    BY <1>1
  <2>2. QED
    BY <1>3, <1>5, <2>1
<1>8. QED
  BY <1>1, <1>5, <1>6, <1>7

LEMMA CapGrows ==
    ASSUME NEW a \in Nat, NEW x \in Nat, NEW d \in Nat, NEW m \in Nat, a <= d
    PROVE  Cap(a, x, 0, 0, m) <= Cap(d, x, 0, 0, m)
<1> DEFINE q == Cap(a, x, 0, 0, m)
           w == Cap(d, x, 0, 0, m)
<1>1. q \in 0..m /\ \A k \in 0..m : Fits(k, a, x, 0, 0) <=> k <= q
  BY CapIs
<1>2. w \in 0..m /\ \A k \in 0..m : Fits(k, d, x, 0, 0) <=> k <= w
  BY CapIs
<1> HIDE DEF q, w
<1>3. q * x \in Nat /\ q * x <= a /\ q * 0 <= 0
  BY <1>1, Times DEF Fits
<1>4. Fits(q, d, x, 0, 0)
  BY <1>3 DEF Fits
<1>5. q <= w
  BY <1>1, <1>2, <1>4
<1>6. QED
  BY <1>5 DEF q, w

\* The same for disks, which have one resource.
LEMMA DiskCapTakes ==
    ASSUME NEW a \in Nat, NEW x \in Nat, NEW m \in Nat, x <= a
    PROVE  Cap(a, x, 0, 0, m + 1) = Cap(a - x, x, 0, 0, m) + 1
<1>1. \A b, y \in Nat : y <= b =>
          Cap(a, x, b, y, m + 1) = Cap(a - x, x, b - y, y, m) + 1
  BY CapTakes
<1>2. \A z \in Nat : Cap(a, x, z, z, m + 1) = Cap(a - x, x, 0, z, m) + 1
  <2>1. \A z \in Nat : z <= z /\ z - z = 0
    OBVIOUS
  <2>2. QED
    BY <1>1, <2>1
<1>3. QED
  BY <1>2

NodeCaps(c, comp, n) ==
    [i \in DOMAIN c.nodes |->
        Cap(c.nodes[i].cpu, comp.cpu, c.nodes[i].mem, comp.mem, n)]

DiskCaps(c, size, m) ==
    [i \in DOMAIN c.disks |-> Cap(c.disks[i], size, 0, 0, m)]

LEMMA NodeCapsAre ==
    ASSUME NEW N, NEW D, NEW c, IsLeft(c, N, D), NEW comp \in Component,
           NEW n \in Nat
    PROVE  /\ DOMAIN c.nodes = N /\ comp.cpu \in Nat /\ comp.mem \in Nat
           /\ \A i \in N :
                  /\ c.nodes[i].cpu \in Nat /\ c.nodes[i].mem \in Nat
                  /\ NodeCaps(c, comp, n)[i] =
                         Cap(c.nodes[i].cpu, comp.cpu, c.nodes[i].mem,
                             comp.mem, n)
                  /\ NodeCaps(c, comp, n)[i] \in 0..n
                  /\ NodeCaps(c, comp, n)[i] \in Nat
<1>1. DOMAIN c.nodes = N
      /\ \A i \in N : c.nodes[i].cpu \in Nat /\ c.nodes[i].mem \in Nat
  BY DEF IsLeft
<1>2. comp.cpu \in Nat /\ comp.mem \in Nat
  BY DEF Component
<1>3. \A i \in N : NodeCaps(c, comp, n)[i] =
          Cap(c.nodes[i].cpu, comp.cpu, c.nodes[i].mem, comp.mem, n)
  BY <1>1 DEF NodeCaps
<1>4. ASSUME NEW i \in N PROVE NodeCaps(c, comp, n)[i] \in 0..n
  <2>1. Cap(c.nodes[i].cpu, comp.cpu, c.nodes[i].mem, comp.mem, n) \in 0..n
    BY <1>1, <1>2, CapIs
  <2>2. QED
    BY <1>3, <2>1
<1>5. \A q \in 0..n : q \in Nat
  OBVIOUS
<1>6. QED
  BY <1>1, <1>2, <1>3, <1>4, <1>5

LEMMA DiskCapsAre ==
    ASSUME NEW N, NEW D, NEW c, IsLeft(c, N, D), NEW size \in Nat,
           NEW m \in Nat
    PROVE  /\ DOMAIN c.disks = D
           /\ \A i \in D :
                  /\ c.disks[i] \in Nat
                  /\ DiskCaps(c, size, m)[i] = Cap(c.disks[i], size, 0, 0, m)
                  /\ DiskCaps(c, size, m)[i] \in 0..m
                  /\ DiskCaps(c, size, m)[i] \in Nat
<1>1. DOMAIN c.disks = D /\ \A i \in D : c.disks[i] \in Nat
  BY DEF IsLeft
<1>2. \A i \in D : DiskCaps(c, size, m)[i] = Cap(c.disks[i], size, 0, 0, m)
  BY <1>1 DEF DiskCaps
<1>3. ASSUME NEW i \in D PROVE DiskCaps(c, size, m)[i] \in 0..m
  <2>1. c.disks[i] \in Nat /\ 0 \in Nat
    BY <1>1
  <2>2. Cap(c.disks[i], size, 0, 0, m) \in 0..m
    BY <2>1, CapIs
  <2>. QED BY <1>2, <2>2
<1>4. \A q \in 0..m : q \in Nat
  OBVIOUS
<1>5. QED
  BY <1>1, <1>2, <1>3, <1>4

\* While the nodes count a session, one of them has room for its Pod.
LEMMA SomeNodeHasRoom ==
    ASSUME NEW N, IsFiniteSet(N), NEW D, NEW c, IsLeft(c, N, D),
           NEW comp \in Component, NEW n \in Nat,
           SumFunctionOnSet(NodeCaps(c, comp, n), N) >= 1
    PROVE  \E i \in N : HasRoom(c, i, comp)
<1> DEFINE f == NodeCaps(c, comp, n)
<1>1. SUFFICES ASSUME \A i \in N : ~HasRoom(c, i, comp) PROVE FALSE
  OBVIOUS
<1>2. ASSUME NEW i \in N PROVE f[i] \in Nat /\ f[i] = 0
  <2>1. /\ comp.cpu \in Nat /\ comp.mem \in Nat
        /\ c.nodes[i].cpu \in Nat /\ c.nodes[i].mem \in Nat
        /\ f[i] = Cap(c.nodes[i].cpu, comp.cpu, c.nodes[i].mem, comp.mem, n)
        /\ f[i] \in Nat
    BY NodeCapsAre
  <2> HIDE DEF f
  <2>2. ~(comp.cpu <= c.nodes[i].cpu /\ comp.mem <= c.nodes[i].mem)
    BY <1>1, <2>1 DEF HasRoom
  <2>3. ~(f[i] >= 1)
    <3>1. Cap(c.nodes[i].cpu, comp.cpu, c.nodes[i].mem, comp.mem, n) >= 1
              => comp.cpu <= c.nodes[i].cpu /\ comp.mem <= c.nodes[i].mem
      BY <2>1, CapAtOne
    <3>. QED BY <2>1, <2>2, <3>1
  <2>4. QED
    BY <2>1, <2>3
<1> HIDE DEF f
<1>3. /\ {} \in SUBSET N /\ N \ {} = N /\ 0 \in Nat
      /\ Cardinality({}) = 0 /\ 0 * 0 = 0 /\ \A i \in {} : f[i] <= 0
  BY FS_EmptySet
<1>4. SumFunctionOnSet(f, N) <= Cardinality({}) * 0
  BY <1>2, <1>3, SumUpper
<1>5. SumFunctionOnSet(f, N) \in Nat
  BY <1>2, SumType
<1>6. SumFunctionOnSet(f, N) >= 1
  BY DEF f
<1>7. QED
  BY <1>3, <1>4, <1>5, <1>6

\* A Pod that is placed costs the nodes one session at most.
LEMMA NodesLoseOne ==
    ASSUME NEW N, IsFiniteSet(N), NEW D, NEW c, IsLeft(c, N, D),
           NEW e, IsLeft(e, N, D),
           NEW comp \in Component, NEW n \in Nat,
           NEW b \in N, HasRoom(c, b, comp), e.nodes = Taken(c, b, comp)
    PROVE  SumFunctionOnSet(NodeCaps(c, comp, n), N)
               <= SumFunctionOnSet(NodeCaps(e, comp, n), N) + 1
<1> DEFINE f == NodeCaps(c, comp, n)
           g == NodeCaps(e, comp, n)
<1>1. /\ DOMAIN c.nodes = N /\ comp.cpu \in Nat /\ comp.mem \in Nat
      /\ \A i \in N :
             /\ c.nodes[i].cpu \in Nat /\ c.nodes[i].mem \in Nat
             /\ f[i] = Cap(c.nodes[i].cpu, comp.cpu, c.nodes[i].mem, comp.mem, n)
             /\ f[i] \in Nat
  BY NodeCapsAre
<1>2. \A i \in N :
          /\ g[i] = Cap(e.nodes[i].cpu, comp.cpu, e.nodes[i].mem, comp.mem, n)
          /\ g[i] \in Nat
  BY NodeCapsAre
<1> HIDE DEF f, g
<1>3. f[b] <= g[b] + 1
  <2>1. e.nodes[b].cpu = c.nodes[b].cpu - comp.cpu
        /\ e.nodes[b].mem = c.nodes[b].mem - comp.mem
    BY <1>1 DEF Taken
  <2>2. comp.cpu <= c.nodes[b].cpu /\ comp.mem <= c.nodes[b].mem
    BY <1>1 DEF HasRoom
  <2>3. Cap(c.nodes[b].cpu, comp.cpu, c.nodes[b].mem, comp.mem, n)
            <= Cap(c.nodes[b].cpu - comp.cpu, comp.cpu,
                   c.nodes[b].mem - comp.mem, comp.mem, n) + 1
    BY <1>1, <2>2, CapTakes
  <2>4. QED
    BY <1>1, <1>2, <2>1, <2>3
<1>4. \A i \in N \ {b} : f[i] <= g[i]
  <2>1. SUFFICES ASSUME NEW i \in N \ {b} PROVE f[i] <= g[i]
    OBVIOUS
  <2>2. e.nodes[i] = c.nodes[i]
    BY <1>1 DEF Taken
  <2>3. f[i] = g[i]
    BY <1>1, <1>2, <2>2
  <2>4. QED
    BY <1>1, <2>3
<1>5. {b} \in SUBSET N /\ Cardinality({b}) = 1
  BY FS_Singleton
<1>6. \A i \in {b} : f[i] <= g[i] + 1
  BY <1>3
<1>7. \A i \in N : f[i] \in Nat /\ g[i] \in Nat
  BY <1>1, <1>2
<1>8. SumFunctionOnSet(f, N) <= SumFunctionOnSet(g, N) + Cardinality({b})
  BY <1>4, <1>5, <1>6, <1>7, SumDrops
<1>9. SumFunctionOnSet(f, N) <= SumFunctionOnSet(g, N) + 1
  BY <1>5, <1>8
<1>10. QED
  BY <1>9 DEF f, g

\* While the disks count a session, enough of them have room for its volume.
LEMMA EnoughDisksHaveRoom ==
    ASSUME NEW N, NEW D, IsFiniteSet(D), NEW c, IsLeft(c, N, D),
           NEW size \in Nat, NEW r \in Nat, NEW m \in Nat,
           r * (m + 1) <= SumFunctionOnSet(DiskCaps(c, size, m + 1), D)
    PROVE  r <= Cardinality(Roomy(c, size, D))
<1> DEFINE f == DiskCaps(c, size, m + 1)
           R == Roomy(c, size, D)
           k == Cardinality(R)
<1>1. m + 1 \in Nat
  OBVIOUS
<1>2. \A i \in D :
          /\ c.disks[i] \in Nat /\ f[i] = Cap(c.disks[i], size, 0, 0, m + 1)
          /\ f[i] \in 0..(m + 1) /\ f[i] \in Nat
  BY <1>1, DiskCapsAre
<1>3. R \in SUBSET D
  BY DEF Roomy
<1>4. k \in Nat
  BY <1>3, FS_Subset, FS_CardinalityType
<1>5. r * (m + 1) <= SumFunctionOnSet(f, D)
  OBVIOUS
<1> HIDE DEF f
<1>6. \A i \in D \ R : f[i] = 0
  <2>1. SUFFICES ASSUME NEW i \in D \ R PROVE f[i] = 0
    OBVIOUS
  <2>2. ~(size <= c.disks[i])
    BY <1>2 DEF Roomy
  <2>3. ~(f[i] >= 1)
    BY <1>1, <1>2, <2>2, CapAtOne
  <2>4. QED
    BY <1>2, <2>3
<1>7. \A i \in R : f[i] <= m + 1
  BY <1>2, <1>3
<1> HIDE DEF R
<1>8. SumFunctionOnSet(f, D) <= k * (m + 1)
  BY <1>1, <1>2, <1>3, <1>6, <1>7, SumUpper
<1>9. SumFunctionOnSet(f, D) \in Nat
  BY <1>2, SumType
<1> HIDE DEF k
<1>10. SUFFICES ASSUME k + 1 <= r PROVE FALSE
  BY <1>4 DEF k, R
<1>11. /\ (k + 1) * (m + 1) = k * (m + 1) + (m + 1)
       /\ (k + 1) * (m + 1) <= r * (m + 1)
       /\ k * (m + 1) \in Nat /\ r * (m + 1) \in Nat
  <2>1. k + 1 \in Nat
    BY <1>4
  <2>2. QED
    BY <1>1, <1>4, <1>10, <2>1, Times
<1>12. QED
  BY <1>5, <1>8, <1>9, <1>11

\* The exchange: a worst-fit choice leaves enough for the other sessions.
LEMMA DisksLoseOne ==
    ASSUME NEW N, NEW D, IsFiniteSet(D), NEW c, IsLeft(c, N, D),
           NEW e, IsLeft(e, N, D),
           NEW size \in Nat, NEW r \in Nat, NEW m \in Nat,
           r * (m + 1) <= SumFunctionOnSet(DiskCaps(c, size, m + 1), D),
           NEW C, IsWorstFit(C, c, size, r, D), e.disks = Spread(c, C, size)
    PROVE  r * m <= SumFunctionOnSet(DiskCaps(e, size, m), D)
<1> DEFINE f == DiskCaps(c, size, m + 1)
           g == DiskCaps(e, size, m)
<1>1. m + 1 \in Nat
  OBVIOUS
<1>2. /\ DOMAIN c.disks = D
      /\ \A i \in D :
             /\ c.disks[i] \in Nat /\ f[i] = Cap(c.disks[i], size, 0, 0, m + 1)
             /\ f[i] \in 0..(m + 1) /\ f[i] \in Nat
  BY <1>1, DiskCapsAre
<1>3. \A i \in D : /\ g[i] = Cap(e.disks[i], size, 0, 0, m)
                   /\ g[i] \in 0..m /\ g[i] \in Nat
  BY DiskCapsAre
<1>4. r * (m + 1) <= SumFunctionOnSet(f, D)
  OBVIOUS
<1>5. /\ C \in SUBSET D /\ Cardinality(C) = r
      /\ \A i \in C : c.disks[i] >= size
      /\ \A i \in C : \A j \in Roomy(c, size, D) \ C : c.disks[i] >= c.disks[j]
  BY DEF IsWorstFit
<1>6. /\ \A i \in C : e.disks[i] = c.disks[i] - size
      /\ \A j \in D \ C : e.disks[j] = c.disks[j]
  BY <1>2, <1>5 DEF Spread
<1> SUFFICES r * m <= SumFunctionOnSet(g, D)
  OBVIOUS
<1> HIDE DEF f, g
<1>7. \A i \in C : f[i] = g[i] + 1
  <2>1. SUFFICES ASSUME NEW i \in C PROVE f[i] = g[i] + 1
    OBVIOUS
  <2>2. i \in D /\ c.disks[i] \in Nat /\ size <= c.disks[i]
    BY <1>2, <1>5
  <2>3. Cap(c.disks[i], size, 0, 0, m + 1)
            = Cap(c.disks[i] - size, size, 0, 0, m) + 1
    BY <2>2, DiskCapTakes
  <2>4. QED
    BY <1>2, <1>3, <1>6, <2>2, <2>3
<1>8. CASE \A i \in C : f[i] = m + 1
  <2>1. \A i \in C : m <= g[i]
    BY <1>2, <1>3, <1>5, <1>7, <1>8
  <2>2. Cardinality(C) * m <= SumFunctionOnSet(g, D)
    BY <1>3, <1>5, <2>1, SumLower
  <2>3. QED
    BY <1>5, <2>2
<1>9. CASE \E i \in C : f[i] # m + 1
  <2>1. PICK i \in C : f[i] # m + 1
    BY <1>9
  <2>2. i \in D /\ f[i] <= m
    BY <1>2, <1>5, <2>1
  <2>3. ASSUME NEW j \in D \ C PROVE f[j] <= m
    <3>1. c.disks[j] \in Nat /\ c.disks[i] \in Nat
          /\ f[j] = Cap(c.disks[j], size, 0, 0, m + 1) /\ f[j] \in Nat
          /\ f[i] = Cap(c.disks[i], size, 0, 0, m + 1) /\ f[i] \in Nat
      BY <1>2, <2>2
    <3>2. CASE j \in Roomy(c, size, D)
      <4>1. c.disks[j] <= c.disks[i]
        BY <1>5, <2>1, <3>1, <3>2
      <4>2. f[j] <= f[i]
        BY <1>1, <3>1, <4>1, CapGrows
      <4>3. QED
        BY <2>2, <3>1, <4>2
    <3>3. CASE j \notin Roomy(c, size, D)
      <4>1. ~(size <= c.disks[j])
        BY <3>1, <3>3 DEF Roomy
      <4>2. ~(f[j] >= 1)
        <5>1. Cap(c.disks[j], size, 0, 0, m + 1) >= 1
                  => size <= c.disks[j] /\ 0 <= 0
          BY <1>1, <3>1, CapAtOne
        <5>. QED BY <3>1, <4>1, <5>1
      <4>3. QED
        BY <3>1, <4>2
    <3>4. QED
      BY <3>2, <3>3
  <2>4. ASSUME NEW j \in D \ C PROVE f[j] <= g[j]
    <3>1. c.disks[j] \in Nat /\ f[j] \in Nat
          /\ f[j] = Cap(c.disks[j], size, 0, 0, m + 1) /\ f[j] <= m
          /\ g[j] = Cap(c.disks[j], size, 0, 0, m)
      BY <1>2, <1>3, <1>6, <2>3
    <3>2. Cap(c.disks[j], size, 0, 0, m + 1) <= m
      BY <3>1
    <3>3. Cap(c.disks[j], size, 0, 0, m) = Cap(c.disks[j], size, 0, 0, m + 1)
      BY <3>1, <3>2, CapShrinks
    <3>4. QED
      BY <3>1, <3>3
  <2>5. \A x \in C : f[x] <= g[x] + 1
    BY <1>3, <1>5, <1>7
  <2>6. \A x \in D : f[x] \in Nat /\ g[x] \in Nat
    BY <1>2, <1>3
  <2>7. SumFunctionOnSet(f, D) <= SumFunctionOnSet(g, D) + Cardinality(C)
    BY <1>5, <2>4, <2>5, <2>6, SumDrops
  <2>8. SumFunctionOnSet(f, D) \in Nat /\ SumFunctionOnSet(g, D) \in Nat
    BY <2>6, SumType
  <2>9. r * (m + 1) = r * m + r /\ r * m \in Nat
    BY Times
  <2>10. QED
    BY <1>4, <1>5, <2>7, <2>8, <2>9
<1>10. QED
  BY <1>8, <1>9

\* What is left has room for m more sessions of comp; n bounds the count of a
\* node.
Enough(c, comp, n, m, r, known, N, D) ==
    /\ m <= SumFunctionOnSet(NodeCaps(c, comp, n), N)
    /\ (known /\ comp.disk > 0) =>
           r * m <= SumFunctionOnSet(DiskCaps(c, comp.disk, m), D)

\* With room for one more, one more is placed, and the room left is enough
\* for the others.
LEMMA EnoughPlaces ==
    ASSUME NEW N, Numbers(N), NEW D, Numbers(D), NEW c, IsLeft(c, N, D), c.ok,
           NEW comp \in Component, NEW n \in Nat, NEW m \in Nat, NEW r \in Nat,
           NEW known \in BOOLEAN, Enough(c, comp, n, m + 1, r, known, N, D),
           NEW e, Placed(e, c, comp, r, known, N, D)
    PROVE  e.ok /\ Enough(e, comp, n, m, r, known, N, D)
<1>1. IsFiniteSet(N) /\ IsFiniteSet(D)
  BY DEF Numbers
<1>2. comp.disk \in Nat
  BY DEF Component
<1>3. /\ m + 1 <= SumFunctionOnSet(NodeCaps(c, comp, n), N)
      /\ (known /\ comp.disk > 0) =>
             r * (m + 1) <= SumFunctionOnSet(DiskCaps(c, comp.disk, m + 1), D)
  BY DEF Enough
<1>4. \A d, k : IsLeft(d, N, D) =>
          SumFunctionOnSet(NodeCaps(d, comp, n), N) \in Nat
  BY <1>1, NodeCapsAre, SumType
<1>5. SumFunctionOnSet(NodeCaps(c, comp, n), N) >= 1
  BY <1>3, <1>4
<1>6. \E i \in N : HasRoom(c, i, comp)
  BY <1>1, <1>5, SomeNodeHasRoom
<1>7. (known /\ comp.disk > 0) => r <= Cardinality(Roomy(c, comp.disk, D))
  BY <1>1, <1>2, <1>3, EnoughDisksHaveRoom
<1>8. Cardinality(Roomy(c, comp.disk, D)) \in Nat
  BY <1>1, FS_Subset, FS_CardinalityType DEF Roomy
<1>9. IsLeft(e, N, D) /\ e.ok
  BY <1>6, <1>7, <1>8 DEF Placed, IsLeft
<1>10. PICK b \in N :
           /\ HasRoom(c, b, comp) /\ e.nodes = Taken(c, b, comp)
           /\ IF known /\ comp.disk > 0
              THEN \E C : /\ IsWorstFit(C, c, comp.disk, r, D)
                          /\ e.disks = Spread(c, C, comp.disk)
              ELSE e.disks = c.disks
  BY <1>9 DEF Placed
<1>11. m <= SumFunctionOnSet(NodeCaps(e, comp, n), N)
  <2>1. SumFunctionOnSet(NodeCaps(c, comp, n), N)
            <= SumFunctionOnSet(NodeCaps(e, comp, n), N) + 1
    BY <1>1, <1>9, <1>10, NodesLoseOne
  <2>2. QED
    BY <1>3, <1>4, <1>9, <2>1
<1>12. ASSUME known, comp.disk > 0
       PROVE  r * m <= SumFunctionOnSet(DiskCaps(e, comp.disk, m), D)
  <2>1. PICK C : /\ IsWorstFit(C, c, comp.disk, r, D)
                 /\ e.disks = Spread(c, C, comp.disk)
    BY <1>10, <1>12
  <2>2. r * (m + 1) <= SumFunctionOnSet(DiskCaps(c, comp.disk, m + 1), D)
    BY <1>3, <1>12
  <2>3. QED
    BY <1>1, <1>2, <1>9, <2>1, <2>2, DisksLoseOne
<1>13. QED
  BY <1>9, <1>11, <1>12 DEF Enough

\* How many of U are spread to i.
Count(on, U, D) == [i \in D |-> Cardinality({p \in U : i \in on[p]})]

\* Counted by place, what is spread to r places each is there r times.
LEMMA SpreadsAreCounted ==
    ASSUME NEW T, IsFiniteSet(T), NEW D, IsFiniteSet(D), NEW r \in Nat,
           NEW on, \A p \in T : on[p] \in SUBSET D /\ Cardinality(on[p]) = r
    PROVE  Cardinality(T) * r <= SumFunctionOnSet(Count(on, T, D), D)
<1> DEFINE S(U) == SumFunctionOnSet(Count(on, U, D), D)
           P == {U \in SUBSET T : Cardinality(U) * r <= S(U)}
<1>1. \A U \in SUBSET T : IsFiniteSet(U) /\ Cardinality(U) \in Nat
  BY FS_Subset, FS_CardinalityType
<1>2. \A U \in SUBSET T : \A i \in D :
          /\ Count(on, U, D)[i] = Cardinality({p \in U : i \in on[p]})
          /\ Count(on, U, D)[i] \in Nat
  BY <1>1 DEF Count
<1>3. \A U \in SUBSET T : S(U) \in Nat
  BY <1>2, SumType
<1>4. {} \in P
  <2>1. Cardinality({}) * r = 0 /\ S({}) \in Nat
    BY <1>3, Times, FS_EmptySet
  <2> HIDE DEF S
  <2>2. Cardinality({}) * r <= S({})
    BY <2>1
  <2>3. QED
    BY <2>2
<1>5. ASSUME NEW U \in P, NEW x \in T \ U PROVE U \cup {x} \in P
  <2> DEFINE W == U \cup {x}
             f == Count(on, U, D)
             g == Count(on, W, D)
  <2>1. /\ U \in SUBSET T /\ W \in SUBSET T
        /\ on[x] \in SUBSET D /\ Cardinality(on[x]) = r
    OBVIOUS
  <2>2. \A i \in D : f[i] \in Nat /\ g[i] \in Nat
    BY <1>2, <2>1
  <2>3. \A i \in on[x] : f[i] + 1 <= g[i]
    <3>1. SUFFICES ASSUME NEW i \in on[x] PROVE f[i] + 1 <= g[i]
      OBVIOUS
    <3>2. {p \in W : i \in on[p]} = {p \in U : i \in on[p]} \cup {x}
      OBVIOUS
    <3>3. x \notin {p \in U : i \in on[p]} /\ IsFiniteSet({p \in U : i \in on[p]})
      BY <1>1
    <3>4. Cardinality({p \in W : i \in on[p]})
              = Cardinality({p \in U : i \in on[p]}) + 1
      BY <3>2, <3>3, FS_AddElement
    <3>5. i \in D
      BY <2>1
    <3>6. /\ f[i] = Cardinality({p \in U : i \in on[p]})
          /\ g[i] = Cardinality({p \in W : i \in on[p]})
      BY <1>2, <2>1, <3>5
    <3> HIDE DEF f, g
    <3>7. QED
      BY <2>2, <3>4, <3>5, <3>6
  <2>4. \A i \in D \ on[x] : f[i] <= g[i]
    <3>1. SUFFICES ASSUME NEW i \in D \ on[x] PROVE f[i] <= g[i]
      OBVIOUS
    <3>2. {p \in W : i \in on[p]} = {p \in U : i \in on[p]}
      OBVIOUS
    <3>3. i \in D
      OBVIOUS
    <3>4. /\ f[i] = Cardinality({p \in U : i \in on[p]})
          /\ g[i] = Cardinality({p \in W : i \in on[p]})
      BY <1>2, <2>1, <3>3
    <3> HIDE DEF f, g
    <3>5. f[i] = g[i] /\ f[i] \in Nat
      BY <2>2, <3>2, <3>3, <3>4, Zenon
    <3>6. QED
      BY <3>5
  <2> HIDE DEF f, g, W
  <2>5. SumFunctionOnSet(f, D) + Cardinality(on[x]) <= SumFunctionOnSet(g, D)
    BY <2>1, <2>2, <2>3, <2>4, SumRaises
  <2>6. S(U) + r <= S(W)
    BY <2>1, <2>5 DEF f, g
  <2> HIDE DEF S
  <2>7. Cardinality(W) = Cardinality(U) + 1
    BY <1>1, <2>1, FS_AddElement DEF W
  <2>8. Cardinality(U) \in Nat /\ Cardinality(U) * r <= S(U)
        /\ S(U) \in Nat /\ S(W) \in Nat
    BY <1>1, <1>3, <2>1
  <2>9. (Cardinality(U) + 1) * r = Cardinality(U) * r + r
        /\ Cardinality(U) * r \in Nat
    BY <2>8, Times
  <2>10. (Cardinality(U) + 1) * r <= S(W)
    BY <2>6, <2>8, <2>9
  <2>11. Cardinality(W) * r <= S(W)
    BY <2>7, <2>10
  <2>12. QED
    BY <2>1, <2>11 DEF W
<1>6. P = SUBSET T
  <2>1. P \in SUBSET SUBSET T
    OBVIOUS
  <2> HIDE DEF P
  <2>2. QED
    BY <1>4, <1>5, <2>1, FiniteInduction
<1>7. QED
  BY <1>6

\* The Pods of a mode of one component.
LEMMA OneComponent ==
    ASSUME NEW mode, IsMode(mode), Len(mode) = 1, NEW n \in Nat
    PROVE  /\ DOMAIN mode = {1} /\ mode[1] \in Component
           /\ IsFiniteSet(Pods(mode, n)) /\ Cardinality(Pods(mode, n)) = n
           /\ \A p \in Pods(mode, n) : p[2] = 1
           /\ \A S \in SUBSET Pods(mode, n) :
                  \A res \in {"cpu", "mem", "disk"} :
                      /\ Cardinality(S) \in 0..n
                      /\ Cardinality(S) * mode[1][res]
                             <= Need(mode, n, res, S)
<1>1. DOMAIN mode = 1..1 /\ \A k \in 1..1 : mode[k] \in Component
  BY ModeHasComponents
<1>2. 1..1 = {1} /\ DOMAIN mode = {1} /\ mode[1] \in Component
  BY <1>1
<1>3. IsFiniteSet(1..n) /\ Cardinality(1..n) = n
  BY FS_Interval
<1>4. IsFiniteSet({1}) /\ Cardinality({1}) = 1
  BY FS_Singleton
<1>5. Pods(mode, n) = (1..n) \X {1}
  BY <1>2 DEF Pods
<1>6. IsFiniteSet(Pods(mode, n)) /\ Cardinality(Pods(mode, n)) = n
  BY <1>3, <1>4, <1>5, FS_Product
<1>7. \A p \in Pods(mode, n) : p[2] = 1
  BY <1>5
<1>8. ASSUME NEW S \in SUBSET Pods(mode, n), NEW res \in {"cpu", "mem", "disk"}
      PROVE  /\ Cardinality(S) \in 0..n
             /\ Cardinality(S) * mode[1][res] <= Need(mode, n, res, S)
  <2> DEFINE f == [p \in Pods(mode, n) |-> mode[p[2]][res]]
  <2>1. IsFiniteSet(S) /\ Cardinality(S) \in Nat /\ Cardinality(S) <= n
    BY <1>6, FS_Subset, FS_CardinalityType
  <2>2. mode[1][res] \in Nat
    BY <1>2 DEF Component
  <2>3. \A p \in S : f[p] = mode[1][res]
    BY <1>7
  <2>4. Need(mode, n, res, S) = SumFunctionOnSet(f, S)
    BY DEF Need
  <2> HIDE DEF f
  <2>5. (\A p \in S : f[p] \in Nat /\ mode[1][res] <= f[p]) /\ S \in SUBSET S
    BY <2>2, <2>3
  <2>6. Cardinality(S) * mode[1][res] <= SumFunctionOnSet(f, S)
    BY <2>1, <2>2, <2>5, SumLower
  <2>7. QED
    BY <2>1, <2>4, <2>6
<1>9. QED
  BY <1>2, <1>6, <1>7, <1>8

\* Whatever hosts n sessions counts n sessions.
LEMMA HostsEnough ==
    ASSUME NEW c, IsCluster(c), NEW mode, IsMode(mode), Len(mode) = 1,
           NEW n \in Nat, NEW replicas \in Nat, NEW known \in BOOLEAN,
           CanHost(mode, c, n, replicas, known)
    PROVE  Enough(c, mode[1], n, n, AtLeastOne(replicas), known,
                  DOMAIN c.nodes, DOMAIN c.disks)
<1> DEFINE N == DOMAIN c.nodes
           D == DOMAIN c.disks
           U == Pods(mode, n)
           r == AtLeastOne(replicas)
           comp == mode[1]
<1>1. IsLeft(c, N, D) /\ Numbers(N) /\ Numbers(D)
  BY ClusterIsLeft
<1>2. IsFiniteSet(N) /\ IsFiniteSet(D) /\ r \in Nat
  BY <1>1, ReplicasAreNumbers DEF Numbers
<1>3. /\ comp \in Component /\ IsFiniteSet(U) /\ Cardinality(U) = n
      /\ \A p \in U : p[2] = 1
      /\ \A S \in SUBSET U : \A res \in {"cpu", "mem", "disk"} :
             /\ Cardinality(S) \in 0..n
             /\ Cardinality(S) * comp[res] <= Need(mode, n, res, S)
  BY OneComponent
<1>4. \A S \in SUBSET U : \A res \in {"cpu", "mem", "disk"} :
          Need(mode, n, res, S) \in Nat
  BY NeedAdds
<1>5. comp.cpu \in Nat /\ comp.mem \in Nat /\ comp.disk \in Nat
  BY <1>3 DEF Component
<1>6. n <= SumFunctionOnSet(NodeCaps(c, comp, n), N)
  <2>1. PICK at \in [U -> N] : \A i \in N, res \in {"cpu", "mem"} :
            Need(mode, n, res, {p \in U : at[p] = i}) <= c.nodes[i][res]
    BY DEF CanHost, PodsFit
  <2> DEFINE on == [p \in U |-> {at[p]}]
             f == Count(on, U, N)
             g == NodeCaps(c, comp, n)
  <2>2. \A p \in U : on[p] \in SUBSET N /\ Cardinality(on[p]) = 1
    <3>1. SUFFICES ASSUME NEW p \in U
                   PROVE  on[p] \in SUBSET N /\ Cardinality(on[p]) = 1
      OBVIOUS
    <3>2. on[p] = {at[p]} /\ at[p] \in N
      BY <2>1
    <3>3. Cardinality({at[p]}) = 1
      BY FS_Singleton
    <3>4. QED
      BY <3>2, <3>3
  <2>3. Cardinality(U) * 1 <= SumFunctionOnSet(f, N)
    <3> HIDE DEF on, N, U
    <3>1. QED
      BY <1>2, <1>3, <2>2, SpreadsAreCounted
  <2>4. \A i \in N :
            /\ c.nodes[i].cpu \in Nat /\ c.nodes[i].mem \in Nat
            /\ g[i] = Cap(c.nodes[i].cpu, comp.cpu, c.nodes[i].mem, comp.mem, n)
            /\ g[i] \in Nat
    BY <1>1, <1>3, NodeCapsAre
  <2>5. ASSUME NEW i \in N PROVE f[i] \in Nat /\ f[i] <= g[i]
    <3> DEFINE S == {p \in U : at[p] = i}
               k == Cardinality(S)
    <3>1. S \in SUBSET U /\ S = {p \in U : i \in on[p]}
      OBVIOUS
    <3>2. f[i] = k
      BY <3>1 DEF Count
    <3>3. /\ Need(mode, n, "cpu", S) <= c.nodes[i]["cpu"]
          /\ Need(mode, n, "mem", S) <= c.nodes[i]["mem"]
      BY <2>1
    <3>4. /\ k \in 0..n /\ k * comp["cpu"] <= Need(mode, n, "cpu", S)
          /\ k * comp["mem"] <= Need(mode, n, "mem", S)
      BY <1>3, <3>1
    <3>5. Need(mode, n, "cpu", S) \in Nat /\ Need(mode, n, "mem", S) \in Nat
      BY <1>4, <3>1
    <3> HIDE DEF S, k, g, f, comp
    <3>6. k \in Nat /\ k * comp.cpu \in Nat /\ k * comp.mem \in Nat
      BY <1>5, <3>4, Times
    <3>7. k * comp.cpu <= c.nodes[i].cpu
      BY <2>4, <3>3, <3>4, <3>5, <3>6
    <3>8. k * comp.mem <= c.nodes[i].mem
      BY <2>4, <3>3, <3>4, <3>5, <3>6
    <3>9. Fits(k, c.nodes[i].cpu, comp.cpu, c.nodes[i].mem, comp.mem)
      BY <3>7, <3>8 DEF Fits
    <3>10. k <= Cap(c.nodes[i].cpu, comp.cpu, c.nodes[i].mem, comp.mem, n)
      BY <1>5, <2>4, <3>4, <3>9, CapIs
    <3>11. QED
      BY <2>4, <3>2, <3>6, <3>10
  <2> HIDE DEF f, g
  <2>6. SumFunctionOnSet(f, N) + Cardinality({}) <= SumFunctionOnSet(g, N)
    <3>1. /\ {} \in SUBSET N /\ \A i \in {} : f[i] + 1 <= g[i]
          /\ \A i \in N : f[i] \in Nat /\ g[i] \in Nat
          /\ \A i \in N \ {} : f[i] <= g[i]
      BY <2>4, <2>5
    <3> HIDE DEF N
    <3>2. QED
      BY <1>2, <3>1, SumRaises
  <2>7. SumFunctionOnSet(f, N) \in Nat /\ SumFunctionOnSet(g, N) \in Nat
    BY <1>2, <2>4, <2>5, SumType
  <2>8. Cardinality({}) = 0
    BY FS_EmptySet
  <2> HIDE DEF N, U
  <2>9. n <= SumFunctionOnSet(g, N)
    BY <1>3, <2>3, <2>6, <2>7, <2>8
  <2>10. QED
    BY <2>9 DEF g
<1>7. ASSUME known, comp.disk > 0
      PROVE  r * n <= SumFunctionOnSet(DiskCaps(c, comp.disk, n), D)
  <2> DEFINE volumes == {p \in U : mode[p[2]].disk > 0}
             spreads == {E \in SUBSET D : Cardinality(E) = r}
  <2>1. PICK on \in [volumes -> spreads] : \A i \in D :
            Need(mode, n, "disk", {p \in volumes : i \in on[p]}) <= c.disks[i]
    BY <1>7 DEF CanHost, VolumesFit
  <2> DEFINE f == Count(on, U, D)
             g == DiskCaps(c, comp.disk, n)
  <2>2. volumes = U
    BY <1>3, <1>7
  <2>3. \A p \in U : on[p] \in SUBSET D /\ Cardinality(on[p]) = r
    BY <2>1, <2>2
  <2>4. Cardinality(U) * r <= SumFunctionOnSet(f, D)
    <3> HIDE DEF D, U, r
    <3>1. QED
      BY <1>2, <1>3, <2>3, SpreadsAreCounted
  <2>5. \A i \in D : /\ c.disks[i] \in Nat /\ g[i] \in Nat
                     /\ g[i] = Cap(c.disks[i], comp.disk, 0, 0, n)
    BY <1>1, <1>5, DiskCapsAre
  <2>6. ASSUME NEW i \in D PROVE f[i] \in Nat /\ f[i] <= g[i]
    <3> DEFINE S == {p \in U : i \in on[p]}
               k == Cardinality(S)
    <3>1. S \in SUBSET U /\ S = {p \in volumes : i \in on[p]}
      BY <2>2
    <3>2. f[i] = k
      BY DEF Count
    <3>3. Need(mode, n, "disk", S) <= c.disks[i]
      BY <2>1, <3>1
    <3>4. k \in 0..n /\ k * comp["disk"] <= Need(mode, n, "disk", S)
      BY <1>3, <3>1
    <3>5. Need(mode, n, "disk", S) \in Nat
      BY <1>4, <3>1
    <3> HIDE DEF S, k, g, f, comp
    <3>6. k \in Nat /\ k * comp.disk \in Nat /\ k * 0 = 0
      BY <1>5, <3>4, Times
    <3>7. k * comp.disk <= c.disks[i]
      BY <2>5, <3>3, <3>4, <3>5, <3>6
    <3>8. Fits(k, c.disks[i], comp.disk, 0, 0)
      BY <3>6, <3>7 DEF Fits
    <3>9. k <= Cap(c.disks[i], comp.disk, 0, 0, n)
      BY <1>5, <2>5, <3>4, <3>8, CapIs
    <3>10. QED
      BY <2>5, <3>2, <3>6, <3>9
  <2> HIDE DEF f, g
  <2>7. SumFunctionOnSet(f, D) + Cardinality({}) <= SumFunctionOnSet(g, D)
    <3>1. /\ {} \in SUBSET D /\ \A i \in {} : f[i] + 1 <= g[i]
          /\ \A i \in D : f[i] \in Nat /\ g[i] \in Nat
          /\ \A i \in D \ {} : f[i] <= g[i]
      BY <2>5, <2>6
    <3> HIDE DEF D
    <3>2. QED
      BY <1>2, <3>1, SumRaises
  <2>8. SumFunctionOnSet(f, D) \in Nat /\ SumFunctionOnSet(g, D) \in Nat
    BY <1>2, <2>5, <2>6, SumType
  <2>9. Cardinality({}) = 0 /\ n * r = r * n /\ n * r \in Nat
    BY <1>2, FS_EmptySet, Times
  <2> HIDE DEF D, U, r
  <2>10. r * n <= SumFunctionOnSet(g, D)
    BY <1>3, <2>4, <2>7, <2>8, <2>9
  <2>11. QED
    BY <2>10 DEF g
<1>8. QED
  BY <1>6, <1>7 DEF Enough

\* What the cluster can hold is counted, for a mode of one component and up
\* to the bound of the loop.
LEMMA HostableIsCounted ==
    ASSUME NEW c, IsCluster(c), NEW mode, IsMode(mode), Len(mode) = 1,
           NEW n \in 0..MaxSessions, NEW replicas \in Nat,
           NEW known \in BOOLEAN, CanHost(mode, c, n, replicas, known)
    PROVE  n <= Simulate(mode, c, AtLeastOne(replicas), known)
<1> DEFINE N == DOMAIN c.nodes
           D == DOMAIN c.disks
           r == AtLeastOne(replicas)
           comp == mode[1]
           left == Placing(mode, c, r, known)
<1>1. n \in Nat
  BY CapacityAssumption
<1>2. Enough(c, comp, n, n, r, known, N, D)
  BY <1>1, HostsEnough
<1>3. IsLeft(c, N, D) /\ c.ok /\ Numbers(N) /\ Numbers(D)
  BY ClusterIsLeft
<1>4. r \in Nat
  BY ReplicasAreNumbers
<1>5. comp \in Component
  BY <1>1, OneComponent
<1> HIDE DEF N, D, r
<1>6. left[0] = c /\ \A k \in Nat : left[k + 1] = PlaceSession(mode, left[k], r, known)
  BY PlacingUnfolds
<1>7. \A k \in Nat : IsLeft(left[k], N, D)
  BY <1>3, <1>4, PlacingLasts DEF Lasts
<1>8. \A d : PlaceSession(mode, d, r, known) = PlaceComponent(d, comp, r, known)
  <2>1. SUFFICES ASSUME NEW d
                 PROVE  PlaceSession(mode, d, r, known)
                            = PlaceComponent(d, comp, r, known)
    OBVIOUS
  <2>2. Len(mode) \in Nat
    OBVIOUS
  <2>3. PICK g : /\ g[0] = d
                 /\ \A k \in 1..Len(mode) :
                        g[k] = PlaceComponent(g[k - 1], mode[k], r, known)
                 /\ PlaceSession(mode, d, r, known) = g[Len(mode)]
    BY <2>2, SessionUnfolds
  <2>4. 1 \in 1..Len(mode) /\ 1 - 1 = 0
    OBVIOUS
  <2>5. g[1] = PlaceComponent(g[0], mode[1], r, known)
    BY <2>3, <2>4
  <2>6. QED
    BY <2>3, <2>5
<1> HIDE DEF left, comp
<1> DEFINE Good == {k \in Nat : k <= n =>
                /\ left[k].ok
                /\ Enough(left[k], comp, n, n - k, r, known, N, D)}
<1>9. 0 \in Good
  <2>1. n - 0 = n
    BY <1>1
  <2>2. QED
    BY <1>2, <1>3, <1>6, <2>1
<1>10. ASSUME NEW k \in Good PROVE k + 1 \in Good
  <2>1. SUFFICES ASSUME k + 1 <= n
                 PROVE  /\ left[k + 1].ok
                        /\ Enough(left[k + 1], comp, n, n - (k + 1), r, known,
                                  N, D)
    OBVIOUS
  <2>2. /\ k \in Nat /\ left[k].ok
        /\ Enough(left[k], comp, n, n - k, r, known, N, D)
    BY <1>1, <2>1
  <2> HIDE DEF Good
  <2> DEFINE m == n - (k + 1)
  <2>3. m \in Nat /\ m + 1 = n - k
    BY <1>1, <2>1, <2>2
  <2>4. left[k + 1] = PlaceComponent(left[k], comp, r, known)
    BY <1>6, <1>8, <2>2
  <2>5. Placed(left[k + 1], left[k], comp, r, known, N, D)
    BY <1>3, <1>4, <1>5, <1>7, <2>2, <2>4, ComponentPlaced
  <2> HIDE DEF m
  <2>6. Enough(left[k], comp, n, m + 1, r, known, N, D)
    BY <2>2, <2>3
  <2>7. left[k + 1].ok /\ Enough(left[k + 1], comp, n, m, r, known, N, D)
    BY <1>1, <1>3, <1>4, <1>5, <1>7, <2>2, <2>3, <2>5, <2>6, EnoughPlaces
  <2>8. QED
    BY <2>7 DEF m
<1>11. Good = Nat
  <2>1. Good \in SUBSET Nat
    OBVIOUS
  <2> HIDE DEF Good
  <2>2. QED
    BY <1>9, <1>10, <2>1, Induction
<1>12. left[n].ok
  BY <1>1, <1>11
<1>13. left[n].ok <=> n <= Simulate(mode, c, r, known)
  BY <1>3, <1>4, SimulateIsPrefix DEF left
<1>14. QED
  BY <1>12, <1>13 DEF r

-----------------------------------------------------------------------------
(* The estimates of a cluster.                                             *)

LEMMA CountIs ==
    ASSUME NEW mode, NEW c, NEW replicas, NEW known
    PROVE  EstimateMode(mode, c, replicas, known).count
               = Simulate(mode, c, AtLeastOne(replicas), known)
BY DEF EstimateMode

\* The question is one of the two kinds.
Asked ==
    /\ kind = "placement" => given \in Placements
    /\ kind = "reading" => given \in Readings

LEMMA SpecIsAsked == Spec => []Asked
<1>1. Init => Asked
  BY DEF Init, Asked
<1>2. Asked /\ [Next]_<<given, kind>> => Asked'
  BY DEF Asked, Next
<1>3. QED
  BY <1>1, <1>2, PTL DEF Spec

LEMMA PlacementIs ==
    ASSUME NEW q \in Placements
    PROVE  /\ IsMode(q.mode) /\ IsCluster(q.c) /\ q.replicas \in Nat
           /\ q.known \in BOOLEAN /\ q.reserved \in Nat
BY EstimatesAssumption

\* A mode of one resource has the components of the mode.
LEMMA OneResourceMode ==
    ASSUME NEW mode, IsMode(mode), NEW res \in {"cpu", "mem", "disk"},
           NEW R, R = ResourceOnly(mode, res)
    PROVE  /\ IsMode(R) /\ Len(R) = Len(mode) /\ DOMAIN R = DOMAIN mode
           /\ \A k \in DOMAIN mode : \A q \in {"cpu", "mem", "disk"} :
                  R[k][q] = IF q = res THEN mode[k][q] ELSE 0
<1>1. DOMAIN mode = 1..Len(mode) /\ Len(mode) \in Nat
      /\ \A k \in 1..Len(mode) : mode[k] \in Component
  BY ModeHasComponents
<1>2. /\ DOMAIN R = 1..Len(mode)
      /\ R = [k \in 1..Len(mode) |-> R[k]]
      /\ \A k \in 1..Len(mode) :
             R[k] = [r \in {"cpu", "mem", "disk"} |->
                        IF r = res THEN mode[k][r] ELSE 0]
  BY <1>1 DEF ResourceOnly
<1>3. ASSUME NEW k \in 1..Len(mode)
      PROVE  /\ R[k] \in Component
             /\ \A q \in {"cpu", "mem", "disk"} :
                    R[k][q] = IF q = res THEN mode[k][q] ELSE 0
  <2> DEFINE m == mode[k]
             g == R[k]
  <2>1. /\ m \in Component
        /\ g = [r \in {"cpu", "mem", "disk"} |-> IF r = res THEN m[r] ELSE 0]
    BY <1>1, <1>2
  <2> HIDE DEF m, g
  <2>2. /\ g \in Component
        /\ \A q \in {"cpu", "mem", "disk"} : g[q] = IF q = res THEN m[q] ELSE 0
    BY <2>1 DEF Component
  <2>3. QED
    BY <2>2 DEF m, g
<1>4. R \in [1..Len(mode) -> Component]
  BY <1>2, <1>3
<1>5. R \in Seq(Component) /\ Len(R) = Len(mode)
  BY <1>1, <1>4
<1>6. IsMode(R)
  BY <1>5 DEF IsMode, Component
<1>7. QED
  BY <1>1, <1>2, <1>3, <1>5, <1>6

\* What can be hosted can be hosted when only one resource matters.
LEMMA OneResourceHosts ==
    ASSUME NEW c, IsCluster(c), NEW mode, IsMode(mode), NEW n \in Nat,
           NEW replicas \in Nat, NEW known \in BOOLEAN,
           NEW res \in {"cpu", "mem", "disk"}, res = "disk" => known,
           NEW only \in BOOLEAN, only => res = "disk",
           NEW R, R = ResourceOnly(mode, res),
           CanHost(mode, c, n, replicas, known)
    PROVE  CanHost(R, c, n, replicas, only)
<1> DEFINE U == Pods(mode, n)
           N == DOMAIN c.nodes
           D == DOMAIN c.disks
           r == AtLeastOne(replicas)
<1>1. /\ IsMode(R) /\ DOMAIN R = DOMAIN mode
      /\ \A k \in DOMAIN mode : \A q \in {"cpu", "mem", "disk"} :
             R[k][q] = IF q = res THEN mode[k][q] ELSE 0
  BY OneResourceMode
<1>2. Pods(R, n) = U
  BY <1>1 DEF Pods
<1>3. /\ IsFiniteSet(U)
      /\ \A p \in U : p[2] \in DOMAIN mode
  BY PodsAreFinite
<1>4. ASSUME NEW S \in SUBSET U, NEW q \in {"cpu", "mem", "disk"}
      PROVE  Need(R, n, q, S) <= Need(mode, n, q, S)
  <2> DEFINE f == [p \in U |-> mode[p[2]][q]]
             e == [p \in U |-> R[p[2]][q]]
  <2>1. IsFiniteSet(S)
    BY <1>3, FS_Subset
  <2>2. /\ Need(mode, n, q, S) = SumFunctionOnSet(f, S)
        /\ Need(R, n, q, S) = SumFunctionOnSet(e, S)
    BY <1>2 DEF Need
  <2>3. Need(mode, n, q, S) \in Nat
    BY NeedAdds
  <2>4. \A p \in S : e[p] = IF q = res THEN f[p] ELSE 0
    BY <1>1, <1>3
  <2> HIDE DEF f, e
  <2>5. CASE q = res
    <3>1. SumFunctionOnSet(e, S) = SumFunctionOnSet(f, S)
      BY <2>1, <2>4, <2>5, SumCongruent
    <3>2. QED
      BY <2>2, <2>3, <3>1
  <2>6. CASE q # res
    <3>1. \A p \in S : e[p] \in Nat /\ e[p] = 0
      BY <2>4, <2>6
    <3>2. SumFunctionOnSet(e, S) <= Cardinality({}) * 0
      <4>1. {} \in SUBSET S /\ 0 \in Nat /\ S \ {} = S
        OBVIOUS
      <4>2. QED
        BY <2>1, <3>1, <4>1, SumUpper
    <3>3. Cardinality({}) = 0
      BY FS_EmptySet
    <3>4. SumFunctionOnSet(e, S) <= 0
      BY <3>2, <3>3
    <3>5. SumFunctionOnSet(e, S) \in Nat
      BY <2>1, <3>1, SumType
    <3>6. QED
      BY <2>2, <2>3, <3>4, <3>5
  <2>7. QED
    BY <2>5, <2>6
<1>5. \A S \in SUBSET U : \A q \in {"cpu", "mem", "disk"} :
          Need(mode, n, q, S) \in Nat /\ Need(R, n, q, S) \in Nat
  BY <1>1, <1>2, NeedAdds
<1>6. /\ \A i \in N : c.nodes[i].cpu \in Nat /\ c.nodes[i].mem \in Nat
      /\ \A i \in D : c.disks[i] \in Nat
  BY DEF IsCluster
<1>7. PodsFit(R, c, n)
  <2>1. PICK at \in [U -> N] : \A i \in N, q \in {"cpu", "mem"} :
            Need(mode, n, q, {p \in U : at[p] = i}) <= c.nodes[i][q]
    BY DEF CanHost, PodsFit
  <2>2. ASSUME NEW i \in N, NEW q \in {"cpu", "mem"}
        PROVE  Need(R, n, q, {p \in U : at[p] = i}) <= c.nodes[i][q]
    <3> DEFINE S == {p \in U : at[p] = i}
    <3>1. S \in SUBSET U
      OBVIOUS
    <3>2. Need(mode, n, q, S) <= c.nodes[i][q] /\ c.nodes[i][q] \in Nat
      BY <1>6, <2>1
    <3> HIDE DEF S
    <3>3. /\ Need(R, n, q, S) <= Need(mode, n, q, S)
          /\ Need(mode, n, q, S) \in Nat /\ Need(R, n, q, S) \in Nat
      BY <1>4, <1>5, <3>1
    <3>4. Need(R, n, q, S) <= c.nodes[i][q]
      BY <3>2, <3>3
    <3>5. QED
      BY <3>4 DEF S
  <2>3. QED
    BY <1>2, <2>2, Zenon DEF PodsFit
<1>8. ASSUME only PROVE VolumesFit(R, c, n, r)
  <2> DEFINE volumes == {p \in U : mode[p[2]].disk > 0}
             spreads == {T \in SUBSET D : Cardinality(T) = r}
  <2>1. PICK on \in [volumes -> spreads] : \A i \in D :
            Need(mode, n, "disk", {p \in volumes : i \in on[p]}) <= c.disks[i]
    BY <1>8 DEF CanHost, VolumesFit
  <2>2. volumes = {p \in Pods(R, n) : R[p[2]].disk > 0}
    <3>1. \A p \in U : R[p[2]].disk = mode[p[2]].disk
      BY <1>1, <1>3, <1>8
    <3>2. QED
      BY <1>2, <3>1
  <2>3. ASSUME NEW i \in D
        PROVE  Need(R, n, "disk", {p \in volumes : i \in on[p]})
                   <= c.disks[i]
    <3> DEFINE S == {p \in volumes : i \in on[p]}
    <3>1. S \in SUBSET U
      OBVIOUS
    <3>2. Need(mode, n, "disk", S) <= c.disks[i] /\ c.disks[i] \in Nat
      BY <1>6, <2>1
    <3> HIDE DEF S
    <3>3. /\ Need(R, n, "disk", S) <= Need(mode, n, "disk", S)
          /\ Need(mode, n, "disk", S) \in Nat /\ Need(R, n, "disk", S) \in Nat
      BY <1>4, <1>5, <3>1
    <3>4. Need(R, n, "disk", S) <= c.disks[i]
      BY <3>2, <3>3
    <3>5. QED
      BY <3>4 DEF S
  <2> HIDE DEF volumes
  <2>4. QED
    BY <2>1, <2>2, <2>3, Zenon DEF VolumesFit
<1>9. QED
  BY <1>7, <1>8, Zenon DEF CanHost

\* None of the figures is below the count.
LEMMA FiguresCover ==
    ASSUME NEW c, IsCluster(c), NEW mode, IsMode(mode), Len(mode) = 1,
           NEW replicas \in Nat, NEW known \in BOOLEAN,
           NEW res \in {"cpu", "mem", "disk"}, res = "disk" => known
    PROVE  EstimateMode(mode, c, replicas, known).count
               <= EstimateMode(mode, c, replicas, known).by[res]
<1> DEFINE r == AtLeastOne(replicas)
           n == Simulate(mode, c, r, known)
           R == ResourceOnly(mode, res)
<1>1. EstimateMode(mode, c, replicas, known).by[res]
          = PerResourceCount(mode, c, r, known, res)
  BY DEF EstimateMode
<1>2. PICK only \in BOOLEAN : only <=> res = "disk"
  OBVIOUS
<1>3. PerResourceCount(mode, c, r, known, res) = Simulate(R, c, r, only)
  <2>1. only = (res = "disk")
    BY <1>2
  <2>2. QED
    BY <2>1 DEF PerResourceCount
<1>4. CanHost(mode, c, n, replicas, known) /\ n \in 0..MaxSessions
  <2>1. n \in 0..MaxSessions
    BY ClusterIsLeft, ReplicasAreNumbers, SimulateIsPrefix
  <2>2. QED
    BY <2>1, SimulateIsHosted
<1>5. n \in Nat
  BY <1>4, CapacityAssumption
<1> HIDE DEF n
<1>6. IsMode(R) /\ Len(R) = 1
  BY OneResourceMode
<1>7. CanHost(R, c, n, replicas, only)
  BY <1>2, <1>4, <1>5, OneResourceHosts
<1>8. n <= Simulate(R, c, r, only)
  BY <1>4, <1>6, <1>7, HostableIsCounted
<1>9. QED
  BY <1>1, <1>3, <1>8, CountIs DEF n

LEMMA AskedIsExact == Asked => EstimatesAreExact
<1>1. ASSUME NEW q \in Placements
      PROVE  LET n == EstimateMode(q.mode, q.c, q.replicas, q.known).count
             IN /\ CanHost(q.mode, q.c, n, q.replicas, q.known)
                /\ Len(q.mode) = 1 /\ n < MaxSessions =>
                       ~CanHost(q.mode, q.c, n + 1, q.replicas, q.known)
  <2> DEFINE n == Simulate(q.mode, q.c, AtLeastOne(q.replicas), q.known)
  <2>1. /\ IsMode(q.mode) /\ IsCluster(q.c) /\ q.replicas \in Nat
        /\ q.known \in BOOLEAN
    BY PlacementIs
  <2>2. EstimateMode(q.mode, q.c, q.replicas, q.known).count = n
    BY CountIs
  <2>3. CanHost(q.mode, q.c, n, q.replicas, q.known)
    BY <2>1, SimulateIsHosted
  <2>4. n \in 0..MaxSessions
    <3>1. IsLeft(q.c, DOMAIN q.c.nodes, DOMAIN q.c.disks) /\ q.c.ok
          /\ Numbers(DOMAIN q.c.nodes) /\ Numbers(DOMAIN q.c.disks)
      BY <2>1, ClusterIsLeft
    <3>2. AtLeastOne(q.replicas) \in Nat
      BY <2>1, ReplicasAreNumbers
    <3>3. QED
      BY <2>1, <3>1, <3>2, SimulateIsPrefix
  <2>5. ASSUME Len(q.mode) = 1, n < MaxSessions,
               CanHost(q.mode, q.c, n + 1, q.replicas, q.known)
        PROVE  FALSE
    <3>1. n + 1 \in 0..MaxSessions
      BY <2>4, <2>5, CapacityAssumption
    <3>2. n + 1 <= n
      BY <2>1, <2>5, <3>1, HostableIsCounted
    <3>3. QED
      BY <2>4, <3>2, CapacityAssumption
  <2> HIDE DEF n
  <2>6. QED
    BY <2>2, <2>3, <2>5
<1>2. ASSUME Asked, kind = "placement" PROVE given \in Placements
  BY <1>2 DEF Asked
<1>3. ASSUME Asked PROVE FiguresCoverCount
  <2>1. SUFFICES ASSUME kind = "placement", Len(given.mode) = 1,
                        NEW res \in {"cpu", "mem", "disk"},
                        res = "disk" => given.known
                 PROVE  Estimated <= EstimateMode(given.mode, given.c,
                            given.replicas, given.known).by[res]
    BY DEF FiguresCoverCount
  <2>2. /\ IsMode(given.mode) /\ IsCluster(given.c) /\ given.replicas \in Nat
        /\ given.known \in BOOLEAN
    BY <1>2, <1>3, <2>1, PlacementIs
  <2>3. QED
    BY <2>1, <2>2, FiguresCover DEF Estimated
<1>4. QED
  BY <1>1, <1>2, <1>3 DEF EstimatesAreExact, EstimateIsHosted,
                          OneComponentIsExact, Estimated

\* For every cluster and mode: what an estimate counts can be hosted, and for
\* a mode of one component nothing more can, up to the bound of the loop, and
\* no figure beside the count is below it (capacity.go: simulate,
\* perResourceCounts).
THEOREM EstimatesExact == Spec => []EstimatesAreExact
BY SpecIsAsked, AskedIsExact, PTL

-----------------------------------------------------------------------------
(* Reservations.                                                           *)

LEMMA Reserved ==
    ASSUME NEW c, IsCluster(c), NEW mode, IsMode(mode),
           NEW replicas \in Nat, NEW known \in BOOLEAN, NEW n \in Nat,
           ReserveMode(mode, n, c, replicas, known).ok
    PROVE  /\ n \in 0..MaxSessions
           /\ ReserveMode(mode, n, c, replicas, known)
                  = Placing(mode, c, AtLeastOne(replicas), known)[n]
<1>1. n <= MaxSessions
  <2>1. SUFFICES ASSUME n > MaxSessions PROVE FALSE
    BY CapacityAssumption
  <2>2. ReserveMode(mode, n, c, replicas, known) = [c EXCEPT !.ok = FALSE]
    BY <2>1, Zenon DEF ReserveMode
  <2>3. [c EXCEPT !.ok = FALSE] = Failed(c)
    BY ClusterIsLeft, FailedIs
  <2>4. Failed(c).ok = FALSE
    BY DEF Failed
  <2>5. QED
    BY <2>2, <2>3, <2>4
<1>2. ~(n > MaxSessions)
  BY <1>1, CapacityAssumption
<1>3. ReserveMode(mode, n, c, replicas, known)
          = Placing(mode, c, AtLeastOne(replicas), known)[n]
  BY <1>2, Zenon DEF ReserveMode
<1>4. QED
  BY <1>1, <1>3, CapacityAssumption

LEMMA ReservedIsKept ==
    ASSUME NEW c, IsCluster(c), NEW mode, IsMode(mode),
           NEW replicas \in Nat, NEW known \in BOOLEAN, NEW n \in Nat,
           ReserveMode(mode, n, c, replicas, known).ok
    PROVE  LET r == AtLeastOne(replicas)
               left == ReserveMode(mode, n, c, replicas, known)
               total == Simulate(mode, left, r, known) + n
           IN Simulate(mode, c, r, known) =
                  IF total < MaxSessions THEN total ELSE MaxSessions
<1> DEFINE r == AtLeastOne(replicas)
           N == DOMAIN c.nodes
           D == DOMAIN c.disks
           P == Placing(mode, c, r, known)
           left == P[n]
           Q == Placing(mode, left, r, known)
           e == Simulate(mode, c, r, known)
           b == Simulate(mode, left, r, known)
<1>1. n \in 0..MaxSessions /\ ReserveMode(mode, n, c, replicas, known) = left
  BY Reserved
<1>2. IsLeft(c, N, D) /\ c.ok /\ Numbers(N) /\ Numbers(D)
  BY ClusterIsLeft
<1>3. r \in Nat
  BY ReplicasAreNumbers
<1> HIDE DEF r, N, D
<1>4. IsLeft(left, N, D) /\ left.ok
  BY <1>1, <1>2, <1>3, PlacingLasts DEF Lasts
<1>5. e \in 0..MaxSessions /\ \A k \in 0..MaxSessions : P[k].ok <=> k <= e
  BY <1>2, <1>3, SimulateIsPrefix
<1> HIDE DEF left
<1>6. b \in 0..MaxSessions /\ \A k \in 0..MaxSessions : Q[k].ok <=> k <= b
  BY <1>2, <1>3, <1>4, SimulateIsPrefix
<1>7. \A k \in Nat : Q[k] = P[n + k]
  BY PlacingSplits DEF left
<1> HIDE DEF e, b, P, Q
<1>8. MaxSessions \in Nat
  BY CapacityAssumption
<1>9. CASE b + n < MaxSessions
  <2>1. b \in Nat /\ n + b \in 0..MaxSessions /\ n + b = b + n
        /\ b + 1 \in Nat /\ b + 1 \in 0..MaxSessions
        /\ n + (b + 1) \in 0..MaxSessions /\ ~(b + 1 <= b) /\ b <= b
    BY <1>1, <1>6, <1>8, <1>9
  <2>2. P[n + b].ok
    <3>1. Q[b].ok
      BY <1>6, <2>1
    <3>2. QED
      BY <1>7, <2>1, <3>1
  <2>3. ~P[n + (b + 1)].ok
    <3>1. ~Q[b + 1].ok
      BY <1>6, <2>1
    <3>2. QED
      BY <1>7, <2>1, <3>1
  <2>4. n + b <= e /\ ~(n + (b + 1) <= e)
    BY <1>5, <2>1, <2>2, <2>3
  <2>5. e = b + n
    BY <1>1, <1>5, <1>6, <1>8, <2>4
  <2>6. QED
    BY <1>1, <1>9, <2>5 DEF b, e, r
<1>10. CASE ~(b + n < MaxSessions)
  <2> DEFINE k == MaxSessions - n
  <2>1. k \in Nat /\ k \in 0..MaxSessions /\ k <= b /\ n + k = MaxSessions
        /\ MaxSessions \in 0..MaxSessions
    BY <1>1, <1>6, <1>8, <1>10
  <2> HIDE DEF k
  <2>2. Q[k].ok
    BY <1>6, <2>1
  <2>3. P[MaxSessions].ok
    BY <1>7, <2>1, <2>2
  <2>4. e = MaxSessions
    <3>1. MaxSessions <= e
      BY <1>5, <2>1, <2>3
    <3>2. QED
      BY <1>5, <1>8, <3>1
  <2>5. QED
    BY <1>1, <1>10, <2>4 DEF b, e, r
<1>11. QED
  BY <1>9, <1>10

LEMMA AskedIsKept == Asked => ReservationsAreKept
<1>1. ASSUME NEW q \in Placements
      PROVE  LET left == ReserveMode(q.mode, q.reserved, q.c, q.replicas,
                                     q.known)
                 total == EstimateMode(q.mode, left, q.replicas,
                                       q.known).count + q.reserved
             IN left.ok => EstimateMode(q.mode, q.c, q.replicas, q.known).count
                    = IF total < MaxSessions THEN total ELSE MaxSessions
  BY PlacementIs, ReservedIsKept, CountIs
<1>2. ASSUME Asked, kind = "placement" PROVE given \in Placements
  BY <1>2 DEF Asked
<1>3. QED
  BY <1>1, <1>2 DEF ReservationsAreKept, Estimated

\* For every cluster, mode and number of reserved sessions: what is estimated
\* beside a reservation and what is reserved add up to the whole estimate, up
\* to the bound of the loop (capacity.go: ReserveMode).
THEOREM ReservationsKept == Spec => []ReservationsAreKept
BY SpecIsAsked, AskedIsKept, PTL

-----------------------------------------------------------------------------
(* The two readings of one cluster.                                        *)

LEMMA HighWaterCovers ==
    ASSUME NEW S, IsFiniteSet(S), S \subseteq Usage, NEW u \in S
    PROVE  /\ HighWater(S).cpu \in Nat /\ HighWater(S).mem \in Nat
           /\ u.cpu <= HighWater(S).cpu /\ u.mem <= HighWater(S).mem
<1> DEFINE P == {T \in SUBSET S : T # {} =>
                    /\ \E s \in T : \A t \in T : t.cpu <= s.cpu
                    /\ \E s \in T : \A t \in T : t.mem <= s.mem}
<1>1. \A s \in S : s.cpu \in Nat /\ s.mem \in Nat
  BY DEF Usage
<1>2. {} \in P
  OBVIOUS
<1>3. ASSUME NEW T \in P, NEW x \in S \ T PROVE T \cup {x} \in P
  <2>1. \E s \in T \cup {x} : \A t \in T \cup {x} : t.cpu <= s.cpu
    <3>1. CASE T = {}
      BY <1>1, <3>1
    <3>2. CASE T # {}
      <4>1. PICK s \in T : \A t \in T : t.cpu <= s.cpu
        BY <3>2
      <4>2. s \in S /\ x \in S /\ T \subseteq S
        BY <4>1
      <4>3. CASE x.cpu <= s.cpu
        BY <4>1, <4>3
      <4>4. CASE ~(x.cpu <= s.cpu)
        BY <1>1, <4>1, <4>2, <4>4
      <4>5. QED
        BY <4>3, <4>4
    <3>3. QED
      BY <3>1, <3>2
  <2>2. \E s \in T \cup {x} : \A t \in T \cup {x} : t.mem <= s.mem
    <3>1. CASE T = {}
      BY <1>1, <3>1
    <3>2. CASE T # {}
      <4>1. PICK s \in T : \A t \in T : t.mem <= s.mem
        BY <3>2
      <4>2. s \in S /\ x \in S /\ T \subseteq S
        BY <4>1
      <4>3. CASE x.mem <= s.mem
        BY <4>1, <4>3
      <4>4. CASE ~(x.mem <= s.mem)
        BY <1>1, <4>1, <4>2, <4>4
      <4>5. QED
        BY <4>3, <4>4
    <3>3. QED
      BY <3>1, <3>2
  <2>3. QED
    BY <2>1, <2>2
<1>4. P = SUBSET S
  <2>1. P \in SUBSET SUBSET S
    OBVIOUS
  <2> HIDE DEF P
  <2>2. QED
    BY <1>2, <1>3, <2>1, FiniteInduction
<1>5. /\ \E s \in S : \A t \in S : t.cpu <= s.cpu
      /\ \E s \in S : \A t \in S : t.mem <= s.mem
  BY <1>4
<1> DEFINE C == {s.cpu : s \in S}
           M == {s.mem : s \in S}
           hc == CHOOSE x \in C : \A s \in S : s.cpu <= x
           hm == CHOOSE x \in M : \A s \in S : s.mem <= x
<1>6. /\ \E x \in C : \A s \in S : s.cpu <= x
      /\ \E x \in M : \A s \in S : s.mem <= x
  BY <1>5
<1>7. /\ hc \in C /\ \A s \in S : s.cpu <= hc
      /\ hm \in M /\ \A s \in S : s.mem <= hm
  BY <1>6, Zenon
<1>8. HighWater(S) = [cpu |-> hc, mem |-> hm]
  BY DEF HighWater
<1> HIDE DEF hc, hm
<1>9. HighWater(S).cpu = hc /\ HighWater(S).mem = hm
  BY <1>8
<1>10. hc \in Nat /\ hm \in Nat
  BY <1>1, <1>7
<1>11. QED
  BY <1>7, <1>9, <1>10

LEMMA HeadroomIs ==
    ASSUME NEW a \in Nat, NEW q \in Nat, NEW u \in Nat, NEW v \in Nat, u <= v
    PROVE  /\ PlanningHeadroom(a, q, u) \in Nat
           /\ PlanningHeadroom(a, q, v) <= PlanningHeadroom(a, q, u)
BY DEF PlanningHeadroom, Larger

\* More used, less free; what is free has no sign.
LEMMA NodeFreeIs ==
    ASSUME NEW node, node.alloc \in Usage, node.req \in Usage,
           NEW u, NEW v, u.cpu \in Nat, u.mem \in Nat, v.cpu \in Nat,
           v.mem \in Nat, u.cpu <= v.cpu, u.mem <= v.mem
    PROVE  /\ NodeFree(node, u) \in [cpu : Nat, mem : Nat]
           /\ NodeFree(node, v).cpu <= NodeFree(node, u).cpu
           /\ NodeFree(node, v).mem <= NodeFree(node, u).mem
<1>1. /\ node.alloc["cpu"] \in Nat /\ node.alloc["mem"] \in Nat
      /\ node.req["cpu"] \in Nat /\ node.req["mem"] \in Nat
  BY DEF Usage
<1> DEFINE H(res, w) == PlanningHeadroom(node.alloc[res], node.req[res], w[res])
<1>2. H("cpu", u) \in Nat /\ H("cpu", v) <= H("cpu", u)
  BY <1>1, HeadroomIs
<1>3. H("mem", u) \in Nat /\ H("mem", v) <= H("mem", u)
  BY <1>1, HeadroomIs
<1>4. \A w : NodeFree(node, w) = [r \in {"cpu", "mem"} |-> H(r, w)]
  BY DEF NodeFree
<1> HIDE DEF H
<1>5. \A w : NodeFree(node, w) = [cpu |-> H("cpu", w), mem |-> H("mem", w)]
  <2>1. SUFFICES ASSUME NEW w
                 PROVE  NodeFree(node, w)
                            = [cpu |-> H("cpu", w), mem |-> H("mem", w)]
    OBVIOUS
  <2>2. [r \in {"cpu", "mem"} |-> H(r, w)]
            = [cpu |-> H("cpu", w), mem |-> H("mem", w)]
    OBVIOUS
  <2>3. QED
    BY <1>4, <2>2
<1>6. QED
  BY <1>2, <1>3, <1>5

LEMMA NothingIsFree ==
    /\ NothingFree \in [cpu : Nat, mem : Nat]
    /\ NothingFree.cpu = 0 /\ NothingFree.mem = 0
<1>1. NothingFree = [cpu |-> 0, mem |-> 0]
  BY DEF NothingFree
<1>2. QED
  BY <1>1

LEMMA ReadingsAreClusters ==
    ASSUME NEW stats, IsReading(stats), stats.metrics,
           Accepting(stats.storage) = DOMAIN stats.storage
    PROVE  LET N == Accepting(stats.nodes)
               D == DOMAIN stats.storage
           IN /\ Numbers(N) /\ Numbers(D)
              /\ IsLeft(DashboardFree(stats), N, D) /\ DashboardFree(stats).ok
              /\ IsLeft(GateFree(stats), N, D) /\ GateFree(stats).ok
              /\ Below(DashboardFree(stats), GateFree(stats), N, D)
<1> DEFINE N == Accepting(stats.nodes)
           D == DOMAIN stats.storage
           dash == DashboardFree(stats)
           gate == GateFree(stats)
<1>1. N \subseteq DOMAIN stats.nodes
  BY DEF Accepting
<1>2. Numbers(N) /\ Numbers(D)
  BY <1>1, FS_Subset DEF IsReading, Numbers
<1>3. \A i \in N :
          /\ stats.nodes[i].alloc \in Usage /\ stats.nodes[i].req \in Usage
          /\ stats.nodes[i].live \in Usage
          /\ stats.nodes[i].samples \subseteq Usage
          /\ IsFiniteSet(stats.nodes[i].samples)
          /\ stats.nodes[i].live \in stats.nodes[i].samples
  <2>1. SUFFICES ASSUME NEW i \in DOMAIN stats.nodes
                 PROVE  /\ stats.nodes[i].alloc \in Usage
                        /\ stats.nodes[i].req \in Usage
                        /\ stats.nodes[i].live \in Usage
                        /\ stats.nodes[i].samples \subseteq Usage
                        /\ IsFiniteSet(stats.nodes[i].samples)
                        /\ stats.nodes[i].live \in stats.nodes[i].samples
    BY <1>1
  <2>2. LET n == stats.nodes[i]
        IN /\ {n.alloc, n.req, n.live} \cup n.samples \subseteq Usage
           /\ IsFiniteSet(n.samples) /\ n.live \in n.samples
    BY DEF IsReading
  <2>3. QED
    BY <2>2
<1>4. \A i \in D : stats.storage[i].bytes \in Nat
  BY DEF IsReading
<1>5. \A i \in N : stats.nodes[i].samples # {}
  BY <1>3
<1>6. /\ dash.nodes = [i \in N |->
             IF stats.nodes[i].samples = {} THEN NothingFree
             ELSE NodeFree(stats.nodes[i], HighWater(stats.nodes[i].samples))]
      /\ dash.disks = [i \in D |-> stats.storage[i].bytes]
      /\ dash = [nodes |-> dash.nodes, disks |-> dash.disks, ok |-> dash.ok]
      /\ dash.ok
  BY DEF DashboardFree
<1>7. /\ gate.nodes = [i \in N |->
             NodeFree(stats.nodes[i], IF stats.metrics THEN stats.nodes[i].live
                                      ELSE NothingFree)]
      /\ gate.disks = [i \in D |-> stats.storage[i].bytes]
      /\ gate = [nodes |-> gate.nodes, disks |-> gate.disks, ok |-> gate.ok]
      /\ gate.ok
  BY DEF GateFree
<1> HIDE DEF N, D, dash, gate
<1>8. ASSUME NEW i \in N
      PROVE  /\ dash.nodes[i] \in [cpu : Nat, mem : Nat]
             /\ gate.nodes[i] \in [cpu : Nat, mem : Nat]
             /\ dash.nodes[i].cpu <= gate.nodes[i].cpu
             /\ dash.nodes[i].mem <= gate.nodes[i].mem
  <2> DEFINE u == stats.nodes[i].live
             v == HighWater(stats.nodes[i].samples)
  <2>1. /\ dash.nodes[i] = NodeFree(stats.nodes[i], v)
        /\ gate.nodes[i] = NodeFree(stats.nodes[i], u)
    BY <1>5, <1>6, <1>7
  <2>2. u.cpu \in Nat /\ u.mem \in Nat
    BY <1>3 DEF Usage
  <2>3. v.cpu \in Nat /\ v.mem \in Nat /\ u.cpu <= v.cpu /\ u.mem <= v.mem
    BY <1>3, HighWaterCovers
  <2>4. v.cpu <= v.cpu /\ v.mem <= v.mem
    BY <2>3
  <2> HIDE DEF u, v
  <2>5. NodeFree(stats.nodes[i], u) \in [cpu : Nat, mem : Nat]
        /\ NodeFree(stats.nodes[i], v).cpu <= NodeFree(stats.nodes[i], u).cpu
        /\ NodeFree(stats.nodes[i], v).mem <= NodeFree(stats.nodes[i], u).mem
    BY <1>3, <2>2, <2>3, NodeFreeIs
  <2>6. NodeFree(stats.nodes[i], v) \in [cpu : Nat, mem : Nat]
    BY <1>3, <2>3, <2>4, NodeFreeIs
  <2>7. QED
    BY <2>1, <2>5, <2>6
<1>9. /\ dash.nodes \in [N -> [cpu : Nat, mem : Nat]]
      /\ gate.nodes \in [N -> [cpu : Nat, mem : Nat]]
  BY <1>6, <1>7, <1>8
<1>10. dash.disks \in [D -> Nat] /\ gate.disks \in [D -> Nat]
  BY <1>4, <1>6, <1>7
<1>11. \A i \in D : dash.disks[i] <= gate.disks[i]
  BY <1>4, <1>6, <1>7
<1>12. dash.ok \in BOOLEAN /\ gate.ok \in BOOLEAN
  BY DEF dash, gate, DashboardFree, GateFree
<1>13. IsLeft(dash, N, D) /\ IsLeft(gate, N, D)
  BY <1>6, <1>7, <1>9, <1>10, <1>12 DEF IsLeft
<1>14. Below(dash, gate, N, D)
  BY <1>8, <1>11 DEF Below
<1>15. QED
  BY <1>2, <1>6, <1>7, <1>13, <1>14 DEF N, D, dash, gate

\* A cluster with more free hosts what one with less does.
LEMMA MoreHosts ==
    ASSUME NEW N, NEW D, NEW c, IsLeft(c, N, D), NEW e, IsLeft(e, N, D),
           Below(e, c, N, D), NEW mode, IsMode(mode), NEW n \in Nat,
           NEW replicas, NEW known, CanHost(mode, e, n, replicas, known)
    PROVE  CanHost(mode, c, n, replicas, known)
<1> DEFINE U == Pods(mode, n)
           r == AtLeastOne(replicas)
<1>1. /\ DOMAIN c.nodes = N /\ DOMAIN e.nodes = N
      /\ DOMAIN c.disks = D /\ DOMAIN e.disks = D
      /\ \A i \in N : /\ c.nodes[i].cpu \in Nat /\ c.nodes[i].mem \in Nat
                      /\ e.nodes[i].cpu \in Nat /\ e.nodes[i].mem \in Nat
      /\ \A i \in D : c.disks[i] \in Nat /\ e.disks[i] \in Nat
  BY DEF IsLeft
<1>2. \A S \in SUBSET U : \A res \in {"cpu", "mem", "disk"} :
          Need(mode, n, res, S) \in Nat
  BY NeedAdds
<1>3. PodsFit(mode, c, n)
  <2>1. PICK at \in [U -> N] : \A i \in N, res \in {"cpu", "mem"} :
            Need(mode, n, res, {p \in U : at[p] = i}) <= e.nodes[i][res]
    BY <1>1 DEF CanHost, PodsFit
  <2>2. ASSUME NEW i \in N, NEW res \in {"cpu", "mem"}
        PROVE  Need(mode, n, res, {p \in U : at[p] = i}) <= c.nodes[i][res]
    <3> DEFINE S == {p \in U : at[p] = i}
    <3>1. S \in SUBSET U
      OBVIOUS
    <3>2. Need(mode, n, res, S) \in Nat
      BY <1>2, <3>1
    <3>3. Need(mode, n, res, S) <= e.nodes[i][res]
      BY <2>1
    <3> HIDE DEF S
    <3>4. e.nodes[i][res] \in Nat /\ c.nodes[i][res] \in Nat
          /\ e.nodes[i][res] <= c.nodes[i][res]
      BY <1>1 DEF Below
    <3>5. Need(mode, n, res, S) <= c.nodes[i][res]
      BY <3>2, <3>3, <3>4
    <3>6. QED
      BY <3>5 DEF S
  <2>3. QED
    BY <1>1, <2>2, Zenon DEF PodsFit
<1>4. ASSUME known PROVE VolumesFit(mode, c, n, r)
  <2> DEFINE volumes == {p \in U : mode[p[2]].disk > 0}
             spreads == {T \in SUBSET D : Cardinality(T) = r}
  <2>1. PICK on \in [volumes -> spreads] : \A i \in D :
            Need(mode, n, "disk", {p \in volumes : i \in on[p]}) <= e.disks[i]
    BY <1>1, <1>4 DEF CanHost, VolumesFit
  <2>2. ASSUME NEW i \in D
        PROVE  Need(mode, n, "disk", {p \in volumes : i \in on[p]})
                   <= c.disks[i]
    <3> DEFINE S == {p \in volumes : i \in on[p]}
    <3>1. S \in SUBSET U
      OBVIOUS
    <3>2. Need(mode, n, "disk", S) \in Nat
      BY <1>2, <3>1
    <3>3. Need(mode, n, "disk", S) <= e.disks[i]
      BY <2>1
    <3> HIDE DEF S
    <3>4. e.disks[i] \in Nat /\ c.disks[i] \in Nat /\ e.disks[i] <= c.disks[i]
      BY <1>1 DEF Below
    <3>5. Need(mode, n, "disk", S) <= c.disks[i]
      BY <3>2, <3>3, <3>4
    <3>6. QED
      BY <3>5 DEF S
  <2>3. QED
    BY <1>1, <2>2, Zenon DEF VolumesFit
<1>5. QED
  BY <1>3, <1>4, Zenon DEF CanHost

\* On no nodes no session of one component is counted.
LEMMA NoClusterIsEmpty ==
    ASSUME NEW mode, IsMode(mode), Len(mode) = 1, NEW replicas \in Nat,
           NEW known \in BOOLEAN
    PROVE  Simulate(mode, NoCluster, AtLeastOne(replicas), known) = 0
<1> DEFINE n == Simulate(mode, NoCluster, AtLeastOne(replicas), known)
<1>1. NoCluster = [nodes |-> <<>>, disks |-> <<>>, ok |-> TRUE]
  BY DEF NoCluster
<1>2. NoCluster.nodes = <<>> /\ NoCluster.disks = <<>> /\ NoCluster.ok = TRUE
  BY <1>1
<1>3. DOMAIN <<>> = {} /\ \A S : <<>> \in [{} -> S]
  OBVIOUS
<1>4. IsFiniteSet({}) /\ {} \subseteq Nat
  BY FS_EmptySet
<1>5. IsCluster(NoCluster)
  BY <1>1, <1>2, <1>3, <1>4 DEF IsCluster
<1>6. n \in 0..MaxSessions
  <2>1. IsLeft(NoCluster, DOMAIN NoCluster.nodes, DOMAIN NoCluster.disks)
        /\ NoCluster.ok /\ Numbers(DOMAIN NoCluster.nodes)
        /\ Numbers(DOMAIN NoCluster.disks)
    BY <1>5, ClusterIsLeft
  <2>2. AtLeastOne(replicas) \in Nat
    BY ReplicasAreNumbers
  <2>3. QED
    BY <2>1, <2>2, SimulateIsPrefix
<1>7. CanHost(mode, NoCluster, n, replicas, known)
  BY <1>5, SimulateIsHosted
<1> HIDE DEF n
<1>8. n \in Nat
  BY <1>6, CapacityAssumption
<1>9. PICK at : at \in [Pods(mode, n) -> {}]
  BY <1>2, <1>3, <1>7 DEF CanHost, PodsFit
<1>10. Pods(mode, n) = {}
  BY <1>9
<1>11. Cardinality(Pods(mode, n)) = n
  BY <1>8, OneComponent
<1>12. n = 0
  BY <1>10, <1>11, FS_EmptySet
<1>13. QED
  BY <1>12 DEF n

LEMMA DashboardIsBelowGate ==
    ASSUME NEW stats, IsReading(stats), stats.metrics,
           Accepting(stats.storage) = DOMAIN stats.storage,
           NEW mode, IsMode(mode), Len(mode) = 1, NEW reserved \in Nat
    PROVE  DashboardEstimate(stats, mode, mode, reserved).count
               <= GateEstimate(stats, mode).count
<1> DEFINE N == Accepting(stats.nodes)
           D == DOMAIN stats.storage
           dash == DashboardFree(stats)
           gate == GateFree(stats)
           replicas == stats.replicas
           known == stats.known
           r == AtLeastOne(replicas)
           left == ReserveMode(mode, reserved, dash, replicas, known)
           from == IF left.ok THEN left ELSE NoCluster
           d == Simulate(mode, from, r, known)
           g == Simulate(mode, gate, r, known)
<1>1. /\ Numbers(N) /\ Numbers(D) /\ IsLeft(dash, N, D) /\ dash.ok
      /\ IsLeft(gate, N, D) /\ gate.ok /\ Below(dash, gate, N, D)
  BY ReadingsAreClusters
<1>2. replicas \in Nat /\ known \in BOOLEAN
  BY DEF IsReading
<1>3. r \in Nat
  BY <1>2, ReplicasAreNumbers
<1>4. /\ DashboardEstimate(stats, mode, mode, reserved).count = d
      /\ GateEstimate(stats, mode).count = g
  BY CountIs DEF DashboardEstimate, GateEstimate
<1> SUFFICES d <= g
  BY <1>4
<1> HIDE DEF N, D, dash, gate, replicas, known, r
<1>5. g \in 0..MaxSessions
  BY <1>1, <1>2, <1>3, SimulateIsPrefix
<1>6. CASE left.ok
  <2>1. IsCluster(dash) /\ IsCluster(gate)
    BY <1>1, LeftIsCluster
  <2>2. reserved \in 0..MaxSessions /\ left = Placing(mode, dash, r, known)[reserved]
    BY <1>2, <1>6, <2>1, Reserved DEF r
  <2>3. IsLeft(left, N, D) /\ Below(left, dash, N, D)
    <3>1. Lasts(Placing(mode, dash, r, known)[reserved], dash, N, D)
      BY <1>1, <1>3, PlacingLasts
    <3>2. QED
      BY <2>2, <3>1 DEF Lasts
  <2>4. from = left
    BY <1>6
  <2> HIDE DEF left, from
  <2>5. IsCluster(left)
    BY <1>1, <1>6, <2>3, LeftIsCluster
  <2>6. Below(left, gate, N, D)
    BY <1>1, <2>3, BelowComposes
  <2>7. d \in 0..MaxSessions
    BY <1>1, <1>3, <1>6, <2>3, <2>4, SimulateIsPrefix
  <2>8. CanHost(mode, left, d, replicas, known)
    BY <1>2, <2>4, <2>5, SimulateIsHosted DEF r
  <2> HIDE DEF d
  <2>9. CanHost(mode, gate, d, replicas, known)
    <3>1. d \in Nat
      BY <2>7, CapacityAssumption
    <3>2. QED
      BY <1>1, <2>3, <2>6, <2>8, <3>1, MoreHosts
  <2>10. QED
    BY <1>2, <2>1, <2>7, <2>9, HostableIsCounted DEF r
<1>7. CASE ~left.ok
  <2>1. from = NoCluster
    BY <1>7
  <2>2. d = 0
    BY <1>2, <2>1, NoClusterIsEmpty DEF r
  <2>3. QED
    BY <1>5, <2>2, CapacityAssumption
<1>8. QED
  BY <1>6, <1>7

LEMMA AskedIsStricter == Asked => DashboardIsStricter
<1>1. ASSUME NEW q \in Readings
      PROVE  IsMode(q.mode) /\ IsReading(q.stats) /\ q.reserved \in Nat
  BY EstimatesAssumption
<1>2. ASSUME Asked, kind = "reading" PROVE given \in Readings
  BY <1>2 DEF Asked
<1>3. QED
  BY <1>1, <1>2, DashboardIsBelowGate DEF DashboardIsStricter

\* For every reading with live metrics and open storage nodes, and whatever is
\* set aside for pooled sessions, the dashboard offers no more VTAs than the
\* create gate finds room for (dashboard.go, capacity_service.go).
THEOREM DashboardStricter == Spec => []DashboardIsStricter
BY SpecIsAsked, AskedIsStricter, PTL

=============================================================================
