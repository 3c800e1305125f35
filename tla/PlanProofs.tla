----------------------------- MODULE PlanProofs -----------------------------
(***************************************************************************)
(* What a plan is worth, proved for whatever is declared and found, and    *)
(* for any number of items, revisions and edits.  The artifact: stages in  *)
(* order, nothing written on what is blocked, no access closed on what is  *)
(* not approved, and all of it taken by the reader but for three cases.    *)
(* The approval: a plan is one state of the checkout, a run writes what    *)
(* was approved only, the checkpoint's completed items are what its plan   *)
(* says, and the result file is settled.                                   *)
(***************************************************************************)
EXTENDS Plan, FiniteSetTheorems, WellFoundedInduction, TLAPS

-----------------------------------------------------------------------------
(* Induction over the subsets of a finite set, without an operator: a set   *)
(* of subsets has a minimal one.                                            *)
LEMMA MinimalSubset ==
  ASSUME NEW S, IsFiniteSet(S), NEW T \in SUBSET (SUBSET S), T # {}
  PROVE  \E X \in T : \A Y \in SUBSET X : Y # X => Y \notin T
<1>1. IsWellFoundedOn(StrictSubsetOrdering(S), SUBSET S)
  BY FS_StrictSubsetOrderingWellFounded, FS_FiniteSubsetsOfFinite
<1>2. PICK X \in T : \A Y \in T : <<Y, X>> \notin StrictSubsetOrdering(S)
  BY <1>1, WFMin
<1>3. ASSUME NEW Y \in SUBSET X, Y # X, Y \in T PROVE FALSE
  <2>1. <<Y, X>> \in (SUBSET S) \X (SUBSET S)
    BY <1>3
  <2> QED BY <1>2, <1>3, <2>1 DEF StrictSubsetOrdering
<1> QED BY <1>3

-----------------------------------------------------------------------------
(* The stages.  What buildStages makes of a set of IDs, by a function that  *)
(* is given the rest; what is ready leaves the rest smaller.                *)
Layer(items, f, rest) ==
  IF rest = {} THEN <<>>
  ELSE IF Ready(items, rest) = {} THEN <<{}>>
  ELSE <<Ready(items, rest)>> \o f[rest \ Ready(items, rest)]
Layering(items, S, f) ==
  f = [rest \in SUBSET S |-> f[rest]] /\ \A rest \in SUBSET S : f[rest] = Layer(items, f, rest)

(* A layer depends on what comes after it only.                             *)
LEMMA LayerIsLocal ==
  ASSUME NEW items, NEW rest, NEW f, NEW g,
         \A less \in SUBSET rest : less # rest => f[less] = g[less]
  PROVE  Layer(items, f, rest) = Layer(items, g, rest)
<1>1. CASE rest = {} \/ Ready(items, rest) = {}
  BY <1>1 DEF Layer
<1>2. CASE rest # {} /\ Ready(items, rest) # {}
  <2>1. rest \ Ready(items, rest) \in SUBSET rest /\ rest \ Ready(items, rest) # rest
    BY <1>2 DEF Ready
  <2> QED BY <1>2, <2>1 DEF Layer
<1> QED BY <1>1, <1>2

(* There is one such function.                                              *)
LEMMA LayeringIsUnique ==
  ASSUME NEW items, NEW S, IsFiniteSet(S), NEW X \in SUBSET S, NEW Y \in SUBSET S,
         NEW f, Layering(items, X, f), NEW g, Layering(items, Y, g),
         NEW rest \in SUBSET X, rest \in SUBSET Y
  PROVE  f[rest] = g[rest]
<1> DEFINE T == {Z \in SUBSET S : Z \subseteq X /\ Z \subseteq Y /\ f[Z] # g[Z]}
<1>1. SUFFICES ASSUME T # {} PROVE FALSE
  <2>1. rest \in T => FALSE
    BY <1>1
  <2> QED BY <2>1
<1>2. PICK Z \in T : \A less \in SUBSET Z : less # Z => less \notin T
  BY <1>1, MinimalSubset, T \in SUBSET (SUBSET S)
<1>3. \A less \in SUBSET Z : less # Z => f[less] = g[less]
  BY <1>2
<1>4. Layer(items, f, Z) = Layer(items, g, Z)
  BY <1>3, LayerIsLocal
<1> QED BY <1>2, <1>4 DEF Layering

(* And there is one: what is wanted of a set is put together from what      *)
(* there is of its subsets.                                                 *)
LEMMA LayeringExists ==
  ASSUME NEW items, NEW S, IsFiniteSet(S)
  PROVE  \E f : Layering(items, S, f)
<1> DEFINE T == {X \in SUBSET S : ~\E f : Layering(items, X, f)}
<1>1. SUFFICES ASSUME T # {} PROVE FALSE
  <2>1. S \in T => FALSE
    BY <1>1
  <2> QED BY <2>1
<1>2. PICK X \in T : \A Y \in SUBSET X : Y # X => Y \notin T
  <2>1. T \in SUBSET (SUBSET S)
    OBVIOUS
  <2> HIDE DEF T
  <2> QED BY <1>1, <2>1, MinimalSubset
<1> DEFINE Below(Y) == CHOOSE f : Layering(items, Y, f)
           lower == [Y \in SUBSET X |-> Below(Y)[Y]]
           whole == [Y \in SUBSET X |-> IF Y = X THEN Layer(items, lower, X) ELSE lower[Y]]
<1>3. \A Y \in SUBSET X : Y # X => Layering(items, Y, Below(Y))
  BY <1>2
<1>4. ASSUME NEW rest \in SUBSET X PROVE whole[rest] = Layer(items, whole, rest)
  <2>1. \A less \in SUBSET X : less # X => whole[less] = Below(less)[less]
    OBVIOUS
  <2>2. CASE rest = X
    <3>1. Layer(items, lower, X) = Layer(items, whole, X)
      <4>1. \A less \in SUBSET X : less # X => lower[less] = whole[less]
        OBVIOUS
      <4> HIDE DEF lower, whole
      <4> QED BY <4>1, LayerIsLocal
    <3> QED BY <2>2, <3>1
  <2>3. CASE rest # X
    <3>1. ASSUME NEW less \in SUBSET rest, less # rest PROVE Below(rest)[less] = whole[less]
      <4>1. less # X /\ less \in SUBSET X /\ less \in SUBSET less /\ less \in SUBSET S /\ rest \in SUBSET S
        BY <2>3, <3>1
      <4>2. Layering(items, rest, Below(rest)) /\ Layering(items, less, Below(less))
        BY <1>3, <2>3, <4>1
      <4>3. Below(rest)[less] = Below(less)[less]
        <5> HIDE DEF Below
        <5> QED BY <3>1, <4>1, <4>2, LayeringIsUnique
      <4> QED BY <2>1, <4>1, <4>3
    <3>2. Layer(items, Below(rest), rest) = Layer(items, whole, rest)
      <4> HIDE DEF Below, whole
      <4> QED BY <3>1, LayerIsLocal
    <3>3. Below(rest)[rest] = Layer(items, Below(rest), rest)
      <4>1. Layering(items, rest, Below(rest))
        BY <1>3, <2>3
      <4> HIDE DEF Below
      <4> QED BY <4>1 DEF Layering
    <3> QED BY <2>1, <2>3, <3>2, <3>3
  <2> QED BY <2>2, <2>3
<1>5. Layering(items, X, whole)
  <2>1. whole = [rest \in SUBSET X |-> whole[rest]]
    OBVIOUS
  <2> HIDE DEF whole
  <2> QED BY <1>4, <2>1 DEF Layering
<1> QED BY <1>2, <1>5

(* What Layers is.                                                          *)
LEMMA LayersIsLayering ==
  ASSUME NEW items, IsFiniteSet(Ids(items)), NEW state
  PROVE  \E f : /\ Layering(items, Ids(items), f)
                /\ Layers(items, state) = f[Ids({i \in items : i.state = state})]
<1> DEFINE Recursion(f) ==
      f = [rest \in SUBSET Ids(items) |->
             IF rest = {} THEN <<>>
             ELSE IF Ready(items, rest) = {} THEN <<{}>>
             ELSE <<Ready(items, rest)>> \o f[rest \ Ready(items, rest)]]
<1>1. PICK f : Layering(items, Ids(items), f)
  BY LayeringExists
<1>2. Recursion(f)
  BY <1>1 DEF Layering, Layer
<1>3. Recursion(CHOOSE g : Recursion(g))
  BY <1>2
<1>4. \A g : Recursion(g) => Layering(items, Ids(items), g)
  BY DEF Layering, Layer
<1>5. Layers(items, state) = (CHOOSE g : Recursion(g))[Ids({i \in items : i.state = state})]
  BY DEF Layers
<1> HIDE DEF Recursion
<1> QED BY <1>3, <1>4, <1>5

(* A sequence of stages for a set of IDs: every one has its stage, no other *)
(* one, and the stages of what it needs come before its own.                *)
Ordered(items, rest, s) ==
  /\ \A a \in rest : \E k \in DOMAIN s : a \in s[k]
  /\ \A k, l \in DOMAIN s : k # l => s[k] \cap s[l] = {}
  /\ \A k, l \in DOMAIN s : \A a \in s[k], b \in s[l] : b \in ById(items, a).deps => l < k
Staged(items, rest, s) == s \in Seq(SUBSET rest) /\ (Acyclic(s) => Ordered(items, rest, s))

(* One more layer in front.                                                 *)
LEMMA StagedBefore ==
  ASSUME NEW items, NEW rest, NEW s, Ready(items, rest) # {},
         Staged(items, rest \ Ready(items, rest), s)
  PROVE  Staged(items, rest, <<Ready(items, rest)>> \o s)
<1> DEFINE ready == Ready(items, rest)
           t == <<ready>> \o s
<1>1. /\ ready \in SUBSET rest /\ \A a \in ready : ById(items, a).deps \cap rest = {}
  BY DEF Ready
<1> HIDE DEF ready
<1>2. /\ s \in Seq(SUBSET rest) /\ <<ready>> \in Seq(SUBSET rest)
      /\ Len(s) \in Nat /\ DOMAIN s = 1..Len(s)
      /\ \A k \in DOMAIN s : s[k] \subseteq rest \ ready
  <2>1. s \in Seq(SUBSET (rest \ ready))
    BY DEF Staged, ready
  <2> QED BY <1>1, <2>1
<1>3. /\ t \in Seq(SUBSET rest) /\ DOMAIN t = 1..Len(s) + 1 /\ t[1] = ready
      /\ \A k \in DOMAIN s : t[k + 1] = s[k]
  BY <1>2
<1> HIDE DEF t
<1>4. ASSUME NEW k \in DOMAIN t, k # 1 PROVE k - 1 \in DOMAIN s /\ t[k] = s[k - 1]
  BY <1>2, <1>3, <1>4
<1>5. ASSUME Acyclic(t) PROVE Ordered(items, rest, t)
  <2>1. Acyclic(s)
    BY <1>2, <1>3, <1>5 DEF Acyclic
  <2>2. Ordered(items, rest \ ready, s)
    BY <2>1 DEF Staged, ready
  <2>3. ASSUME NEW a \in rest PROVE \E k \in DOMAIN t : a \in t[k]
    <3>1. CASE a \in ready
      BY <1>2, <1>3, <3>1
    <3>2. CASE a \notin ready
      <4>1. PICK k \in DOMAIN s : a \in s[k]
        BY <2>2, <3>2 DEF Ordered
      <4>2. k + 1 \in DOMAIN t /\ a \in t[k + 1]
        BY <1>2, <1>3, <4>1
      <4> QED BY <4>2
    <3> QED BY <3>1, <3>2
  <2>4. ASSUME NEW k \in DOMAIN t, NEW l \in DOMAIN t, NEW a \in t[k], NEW b \in t[l], b \in ById(items, a).deps
        PROVE  l < k
    <3>1. k \in Nat /\ l \in Nat /\ k >= 1 /\ l >= 1
      BY <1>2, <1>3
    <3>2. CASE k = 1
      <4>1. a \in ready /\ b \in rest
        BY <1>1, <1>2, <1>3, <1>4, <3>2
      <4> QED BY <1>1, <2>4, <4>1
    <3>3. CASE k # 1 /\ l = 1
      BY <3>1, <3>3
    <3>4. CASE k # 1 /\ l # 1
      <4>1. k - 1 \in DOMAIN s /\ l - 1 \in DOMAIN s /\ a \in s[k - 1] /\ b \in s[l - 1]
        BY <1>4, <3>4
      <4>2. l - 1 < k - 1
        BY <2>2, <2>4, <4>1 DEF Ordered
      <4> QED BY <3>1, <4>2
    <3> QED BY <3>2, <3>3, <3>4
  <2>5. ASSUME NEW k \in DOMAIN t, NEW l \in DOMAIN t, k # l PROVE t[k] \cap t[l] = {}
    <3>1. CASE k = 1
      BY <1>2, <1>3, <1>4, <2>5, <3>1
    <3>2. CASE l = 1
      BY <1>2, <1>3, <1>4, <2>5, <3>2
    <3>3. CASE k # 1 /\ l # 1
      <4>1. k \in Nat /\ l \in Nat /\ k - 1 # l - 1
        BY <1>2, <1>3, <2>5
      <4> QED BY <1>4, <2>2, <3>3, <4>1 DEF Ordered
    <3> QED BY <3>1, <3>2, <3>3
  <2> QED BY <2>3, <2>4, <2>5 DEF Ordered
<1> QED BY <1>3, <1>5 DEF Staged, t, ready

(* What buildStages makes of a set of IDs are its stages, if none is empty. *)
LEMMA LayeringIsStaged ==
  ASSUME NEW items, NEW S, IsFiniteSet(S), NEW f, Layering(items, S, f), NEW X \in SUBSET S
  PROVE  Staged(items, X, f[X])
<1> DEFINE T == {Y \in SUBSET S : ~Staged(items, Y, f[Y])}
<1>1. SUFFICES ASSUME T # {} PROVE FALSE
  <2>1. X \in T => FALSE
    BY <1>1
  <2> QED BY <2>1
<1>2. PICK Y \in T : \A Z \in SUBSET Y : Z # Y => Z \notin T
  <2>1. T \in SUBSET (SUBSET S)
    OBVIOUS
  <2> HIDE DEF T
  <2> QED BY <1>1, <2>1, MinimalSubset
<1>3. f[Y] = Layer(items, f, Y)
  BY <1>2 DEF Layering
<1>4. CASE Y = {}
  <2>1. f[Y] = <<>> /\ <<>> \in Seq(SUBSET Y) /\ DOMAIN <<>> = {}
    BY <1>3, <1>4 DEF Layer
  <2>2. Ordered(items, Y, f[Y])
    BY <1>4, <2>1 DEF Ordered
  <2> QED BY <1>2, <2>1, <2>2 DEF Staged
<1>5. CASE Y # {} /\ Ready(items, Y) = {}
  <2>1. f[Y] = <<{}>>
    BY <1>3, <1>5 DEF Layer
  <2>2. ~Acyclic(<<{}>>) /\ <<{}>> \in Seq(SUBSET Y)
    BY DEF Acyclic
  <2> QED BY <1>2, <2>1, <2>2 DEF Staged
<1>6. CASE Y # {} /\ Ready(items, Y) # {}
  <2>1. f[Y] = <<Ready(items, Y)>> \o f[Y \ Ready(items, Y)]
    BY <1>3, <1>6 DEF Layer
  <2>2. Y \ Ready(items, Y) \in SUBSET Y /\ Y \ Ready(items, Y) # Y
    BY <1>6 DEF Ready
  <2>3. Staged(items, Y \ Ready(items, Y), f[Y \ Ready(items, Y)])
    BY <1>2, <2>2
  <2>4. Staged(items, Y, f[Y])
    BY <1>6, <2>1, <2>3, StagedBefore
  <2> QED BY <1>2, <2>4
<1> QED BY <1>4, <1>5, <1>6

(* The items of either state, in their stages.                              *)
LEMMA LayersAreStaged ==
  ASSUME NEW items, IsFiniteSet(items), NEW state
  PROVE  Staged(items, Ids({i \in items : i.state = state}), Layers(items, state))
<1>1. IsFiniteSet(Ids(items))
  <2> DEFINE id == [i \in items |-> i.id]
  <2>1. id \in Surjection(items, Ids(items))
    BY DEF Surjection, Ids
  <2> QED BY <2>1, FS_Surjection DEF ExistsSurjection
<1>2. Ids({i \in items : i.state = state}) \in SUBSET Ids(items)
  BY DEF Ids
<1>3. PICK f : /\ Layering(items, Ids(items), f)
               /\ Layers(items, state) = f[Ids({i \in items : i.state = state})]
  BY <1>1, LayersIsLayering
<1> QED BY <1>1, <1>2, <1>3, LayeringIsStaged

(* Two sequences, one after the other.                                      *)
LEMMA Joined ==
  ASSUME NEW C, NEW s \in Seq(C), NEW r \in Seq(C), NEW n, n = Len(s), NEW m, m = Len(r)
  PROVE  /\ DOMAIN (s \o r) = 1..n + m
         /\ \A k \in 1..n : (s \o r)[k] = s[k]
         /\ \A k \in 1..m : (s \o r)[n + k] = r[k]
<1>1. n \in Nat /\ m \in Nat /\ s \o r \in Seq(C) /\ Len(s \o r) = n + m
  OBVIOUS
<1>2. \A k \in 1..n : (s \o r)[k] = s[k]
  BY <1>1
<1>3. \A k \in 1..m : (s \o r)[n + k] = r[k]
  BY <1>1
<1> QED BY <1>1, <1>2, <1>3

InState(items, state) == Ids({i \in items : i.state = state})
(* What is to be present in order, then what is to be absent in reverse: s  *)
(* are the first n stages of t, a the last m of them backwards.             *)
Split(items, t, s, a, n, m) ==
  /\ n \in Nat /\ m \in Nat /\ DOMAIN s = 1..n /\ DOMAIN a = 1..m /\ DOMAIN t = 1..n + m
  /\ \A k \in 1..n : t[k] = s[k] /\ s[k] \subseteq InState(items, "present")
  /\ \A k \in 1..m : t[n + m + 1 - k] = a[k] /\ a[k] \subseteq InState(items, "absent")
  /\ \A k \in 1..m : n + m + 1 - k \in DOMAIN t
  /\ Ordered(items, InState(items, "present"), s) /\ Ordered(items, InState(items, "absent"), a)

(* buildDeploymentStages.                                                   *)
LEMMA StagesSplit ==
  ASSUME NEW items, IsFiniteSet(items), Acyclic(Stages(items))
  PROVE  \E s, a, n, m : Split(items, Stages(items), s, a, n, m)
<1> DEFINE ids(state) == InState(items, state)
           s == Layers(items, "present")
           a == Layers(items, "absent")
           t == Stages(items)
<1>1. Staged(items, ids("present"), s) /\ Staged(items, ids("absent"), a)
  BY LayersAreStaged DEF InState
<1>2. s \in Seq(SUBSET ids("present")) /\ a \in Seq(SUBSET ids("absent"))
  BY <1>1 DEF Staged
<1>3. t = s \o Reverse(a)
  BY DEF Stages
<1> DEFINE n == Len(s)
           m == Len(a)
<1> HIDE DEF s, a, t
<1>4. n \in Nat /\ m \in Nat /\ DOMAIN s = 1..n /\ DOMAIN a = 1..m
  BY <1>2
<1>5. Reverse(a) \in Seq(SUBSET ids("absent")) /\ Len(Reverse(a)) = m /\ \A k \in 1..m : Reverse(a)[k] = a[m - k + 1]
  <2>1. Reverse(a) = [k \in 1..m |-> a[m - k + 1]]
    BY DEF Reverse
  <2>2. \A k \in 1..m : a[m - k + 1] \in SUBSET ids("absent")
    BY <1>2, <1>4
  <2> HIDE DEF ids
  <2> QED BY <1>4, <2>1, <2>2
<1>6. DOMAIN t = 1..n + m /\ (\A k \in 1..n : t[k] = s[k]) /\ \A k \in 1..m : t[n + k] = a[m - k + 1]
  <2> DEFINE C == (SUBSET ids("present")) \cup (SUBSET ids("absent"))
  <2>1. s \in Seq(C) /\ Reverse(a) \in Seq(C) /\ n = Len(s) /\ m = Len(Reverse(a))
    <3> HIDE DEF ids
    <3> QED BY <1>2, <1>5
  <2> HIDE DEF C, n, m
  <2>2. /\ DOMAIN t = 1..n + m /\ \A k \in 1..n : t[k] = s[k]
        /\ \A k \in 1..m : t[n + k] = Reverse(a)[k]
    BY <1>3, <2>1, Joined
  <2> QED BY <1>5, <2>2
<1>7. \A k \in 1..m : t[n + m + 1 - k] = a[k] /\ n + m + 1 - k \in DOMAIN t
  <2> HIDE DEF n, m
  <2>1. \A k \in 1..m : m + 1 - k \in 1..m /\ n + (m + 1 - k) = n + m + 1 - k /\ m - (m + 1 - k) + 1 = k
    BY <1>4
  <2>2. \A k \in 1..m : t[n + (m + 1 - k)] = a[m - (m + 1 - k) + 1]
    BY <1>6, <2>1
  <2>3. \A k \in 1..m : n + m + 1 - k \in DOMAIN t
    BY <1>4, <1>6
  <2> QED BY <2>1, <2>2, <2>3
<1> HIDE DEF n, m, ids
<1>8. Acyclic(s) /\ Acyclic(a)
  <2>1. \A k \in DOMAIN t : t[k] # {}
    BY DEF Acyclic, t
  <2>2. \A k \in 1..n : k \in DOMAIN t
    BY <1>4, <1>6
  <2> QED BY <1>4, <1>6, <1>7, <2>1, <2>2 DEF Acyclic
<1>9. Ordered(items, ids("present"), s) /\ Ordered(items, ids("absent"), a)
  BY <1>1, <1>8 DEF Staged
<1>10. \A k \in 1..n : s[k] \subseteq ids("present")
  BY <1>2, <1>4
<1>11. \A k \in 1..m : a[k] \subseteq ids("absent")
  BY <1>2, <1>4
<1>12. Split(items, t, s, a, n, m)
  BY <1>4, <1>6, <1>7, <1>9, <1>10, <1>11 DEF Split, ids
<1> QED BY <1>12 DEF t

(* One stage comes before another.                                          *)
ComesIn(t, early, late) == \E k, l \in DOMAIN t : k < l /\ early \in t[k] /\ late \in t[l]

(* What is to be present in order, then what is to be absent in reverse.    *)
LEMMA StagesOrdered ==
  ASSUME NEW items, IsFiniteSet(items), Acyclic(Stages(items)),
         NEW p \in items, NEW q \in items
  PROVE  /\ p.state = "present" /\ q.state = "absent" => ComesIn(Stages(items), p.id, q.id)
         /\ p.state = "present" /\ q.state = "present" /\ q.id \in ById(items, p.id).deps =>
              ComesIn(Stages(items), q.id, p.id)
         /\ p.state = "absent" /\ q.state = "absent" /\ q.id \in ById(items, p.id).deps =>
              ComesIn(Stages(items), p.id, q.id)
<1> DEFINE t == Stages(items)
<1>1. PICK s, a, n, m : Split(items, t, s, a, n, m)
  BY StagesSplit
<1> HIDE DEF t
<1>2. \A i \in items : i.id \in InState(items, i.state)
  BY DEF InState, Ids
<1>3. n \in Nat /\ m \in Nat /\ DOMAIN s = 1..n /\ DOMAIN a = 1..m
  BY <1>1 DEF Split
<1>4. DOMAIN t = 1..n + m /\ \A k \in 1..n : t[k] = s[k]
  BY <1>1 DEF Split
<1>5. \A k \in 1..m : t[n + m + 1 - k] = a[k] /\ n + m + 1 - k \in DOMAIN t
  BY <1>1 DEF Split
<1>6. Ordered(items, InState(items, "present"), s) /\ Ordered(items, InState(items, "absent"), a)
  BY <1>1 DEF Split
<1>7. ASSUME p.state = "present", q.state = "absent"
       PROVE  \E k, l \in DOMAIN t : k < l /\ p.id \in t[k] /\ q.id \in t[l]
  <2>1. PICK k \in 1..n : p.id \in s[k]
    BY <1>2, <1>3, <1>6, <1>7 DEF Ordered
  <2>2. PICK l \in 1..m : q.id \in a[l]
    BY <1>2, <1>3, <1>6, <1>7 DEF Ordered
  <2>3. k \in DOMAIN t /\ k < n + m + 1 - l
    BY <1>3, <1>4
  <2> QED BY <1>4, <1>5, <2>1, <2>2, <2>3
<1>8. ASSUME p.state = "present", q.state = "present", q.id \in ById(items, p.id).deps
       PROVE  \E k, l \in DOMAIN t : k < l /\ q.id \in t[k] /\ p.id \in t[l]
  <2>1. PICK k \in 1..n : q.id \in s[k]
    BY <1>2, <1>3, <1>6, <1>8 DEF Ordered
  <2>2. PICK l \in 1..n : p.id \in s[l]
    BY <1>2, <1>3, <1>6, <1>8 DEF Ordered
  <2>3. k < l
    BY <1>3, <1>6, <1>8, <2>1, <2>2 DEF Ordered
  <2>4. k \in DOMAIN t /\ l \in DOMAIN t
    BY <1>3, <1>4
  <2> QED BY <1>4, <2>1, <2>2, <2>3, <2>4
<1>9. ASSUME p.state = "absent", q.state = "absent", q.id \in ById(items, p.id).deps
       PROVE  \E k, l \in DOMAIN t : k < l /\ p.id \in t[k] /\ q.id \in t[l]
  <2>1. PICK k \in 1..m : q.id \in a[k]
    BY <1>2, <1>3, <1>6, <1>9 DEF Ordered
  <2>2. PICK l \in 1..m : p.id \in a[l]
    BY <1>2, <1>3, <1>6, <1>9 DEF Ordered
  <2>3. k < l
    BY <1>3, <1>6, <1>9, <2>1, <2>2 DEF Ordered
  <2>4. n + m + 1 - l < n + m + 1 - k
    BY <1>3, <2>3
  <2> QED BY <1>5, <2>1, <2>2, <2>4
<1> QED BY <1>7, <1>8, <1>9 DEF t, ComesIn

-----------------------------------------------------------------------------
(* The items.  Whatever is planned of an item, it is about that item; and   *)
(* what is to be written of it alters nothing that is not its own.          *)
About(p, i) ==
  p = [id |-> i.id, type |-> i.type, state |-> i.state, deps |-> i.deps, action |-> p.action,
       physicalId |-> p.physicalId, observed |-> p.observed,
       tagging |-> p.tagging, tables |-> p.tables, artifacts |-> p.artifacts]
Writes(p) == p.action \in {"create", "update"}
Harmless(p) ==
  Writes(p) =>
    /\ \A k \in DOMAIN p.tables.operations : p.tables.operations[k].action \in {"create", "no-op"}
    /\ \A k \in DOMAIN p.artifacts.files : p.artifacts.files[k].action # "blocked"
Bare(p) == p.tables = NoTables /\ p.artifacts = NoArtifacts
Unsafe(p) == p.action \in {"blocked", "unknown"}

(* Without tables and artifacts nothing can be altered.                     *)
LEMMA BareIsHarmless == ASSUME NEW p, Bare(p) PROVE Harmless(p)
BY DEF Bare, Harmless, NoTables, NoArtifacts

(* What a plan says of an item before Fabric is looked at.                  *)
LEMMA OfflineShape ==
  ASSUME NEW i
  PROVE  About(OfflineItem(i), i) /\ Bare(OfflineItem(i)) /\ Unsafe(OfflineItem(i))
BY DEF OfflineItem, About, Bare, Unsafe

(* What it says of one that was looked at.                                  *)
LEMMA ItemShape ==
  ASSUME NEW i, NEW action, NEW id
  PROVE  /\ About(Item(i, action, id), i) /\ Bare(Item(i, action, id))
         /\ Item(i, action, id).action = action /\ Item(i, action, id).physicalId = id
<1> DEFINE o == OfflineItem(i)
<1>1. About(o, i) /\ Bare(o)
  BY OfflineShape
<1>2. Item(i, action, id) = [o EXCEPT !.action = action, !.physicalId = id, !.observed = TRUE]
  BY DEF Item
<1> HIDE DEF o
<1>3. About(Item(i, action, id), i)
  <2> DEFINE acts == [o EXCEPT !.action = action]
             known == [acts EXCEPT !.physicalId = id]
             looked(b) == [known EXCEPT !.observed = b]
  <2>1. About(known, i)
    <3>1. About(acts, i)
      BY <1>1 DEF About
    <3> HIDE DEF acts
    <3> QED BY <3>1 DEF About
  <2>2. ASSUME NEW b PROVE About(looked(b), i)
    <3> HIDE DEF known
    <3> QED BY <2>1 DEF About
  <2>3. About(looked(TRUE), i)
    <3> HIDE DEF acts, known, looked
    <3> QED BY <2>2, Zenon
  <2> QED BY <1>2, <2>3
<1> QED BY <1>1, <1>2, <1>3 DEF About, Bare

(* And of one that was not, as what it needs is not there.                  *)
LEMMA UnseenShape ==
  ASSUME NEW i
  PROVE  About(Unseen(i), i) /\ Bare(Unseen(i)) /\ Unsafe(Unseen(i))
BY OfflineShape DEF Unseen, About, Bare, Unsafe

Seen == {"absent", "same", "differs", "ambiguous"}
(* The adapters' answers on an item that needs no other.                    *)
LEMMA AdapterShape ==
  ASSUME NEW i, NEW there \in Seen
  PROVE  /\ About(AdapterItem(i, there), i) /\ Bare(AdapterItem(i, there))
         /\ About(UnresolvedItem(i, there), i) /\ Bare(UnresolvedItem(i, there))
         /\ About(DeletedItem(i, there), i) /\ Bare(DeletedItem(i, there))
         /\ AdapterItem(i, there).action \in {"create", "no-op", "update", "blocked"}
BY ItemShape DEF Seen, AdapterItem, UnresolvedItem, DeletedItem, BlockedItem

(* A Report or a KQL database is written on a reference that is neither     *)
(* blocked nor unknown.                                                     *)
LEMMA SymbolicShape ==
  ASSUME NEW i, NEW there \in Seen, NEW target
  PROVE  /\ About(SymbolicItem(i, there, target), i) /\ Harmless(SymbolicItem(i, there, target))
         /\ Writes(SymbolicItem(i, there, target)) => ~Unsafe(target)
<1>1. About(BlockedItem(i), i) /\ Bare(BlockedItem(i)) /\ ~Writes(BlockedItem(i))
  BY ItemShape DEF BlockedItem, Writes
<1>2. Resolved(target) => ~Unsafe(target)
  BY DEF Resolved, Unsafe
<1> QED BY <1>1, <1>2, AdapterShape, BareIsHarmless DEF SymbolicItem, Unsafe

(* So is a Spark job, and only with files that are not blocked.             *)
LEMMA SparkShape ==
  ASSUME NEW i, NEW look, look.there \in Seen, NEW target
  PROVE  /\ About(SparkJob(i, look, target), i) /\ Harmless(SparkJob(i, look, target))
         /\ Writes(SparkJob(i, look, target)) => ~Unsafe(target)
<1> DEFINE staging == IF i.artifacts = <<>> THEN NoArtifacts ELSE PlannedArtifacts(i, look.stored, target)
           staged(p) == [p EXCEPT !.artifacts = staging]
<1>1. ASSUME NEW p, About(p, i), Bare(p)
      PROVE  /\ About(staged(p), i) /\ staged(p).tables = NoTables /\ staged(p).artifacts = staging
             /\ staged(p).action = p.action
  <2> HIDE DEF staging
  <2> QED BY <1>1 DEF About, Bare
<1>2. About(BlockedItem(i), i) /\ Bare(BlockedItem(i)) /\ ~Writes(BlockedItem(i))
  BY ItemShape DEF BlockedItem, Writes
<1>3. ASSUME NEW p, About(p, i), Bare(p), ~BlockedFile(staging) PROVE Harmless(staged(p))
  <2>1. \A k \in DOMAIN staging.files : staging.files[k].action # "blocked"
    BY <1>3 DEF BlockedFile
  <2> HIDE DEF staging
  <2>2. staged(p).tables = NoTables /\ staged(p).artifacts = staging
    BY <1>1, <1>3
  <2> QED BY <2>1, <2>2 DEF Harmless, NoTables
<1>4. SparkJob(i, look, target) =
        IF ~Resolved(target) /\ target.action # "create" THEN BlockedItem(i)
        ELSE IF BlockedFile(staging) THEN staged(BlockedItem(i))
        ELSE IF target.action = "create" THEN staged(UnresolvedItem(i, look.there))
        ELSE staged(AdapterItem(i, look.there))
  BY DEF SparkJob
<1> HIDE DEF staging, staged
<1>5. CASE ~Resolved(target) /\ target.action # "create"
  BY <1>2, <1>4, <1>5, BareIsHarmless
<1>6. CASE (Resolved(target) \/ target.action = "create") /\ BlockedFile(staging)
  BY <1>1, <1>2, <1>4, <1>6 DEF Writes, Harmless
<1>7. CASE (Resolved(target) \/ target.action = "create") /\ ~BlockedFile(staging)
  <2>1. ~Unsafe(target)
    BY <1>7 DEF Resolved, Unsafe
  <2> QED BY <1>1, <1>3, <1>4, <1>7, <2>1, AdapterShape
<1> QED BY <1>5, <1>6, <1>7

(* So is a bundle of tables, and only with statements that create something *)
(* or nothing.                                                              *)
LEMMA TablesShape ==
  ASSUME NEW i, NEW look, look.table \in {"absent", "owned", "unowned", "conflicting", "differs"},
         NEW target, NEW schemas
  PROVE  LET p == TablesItem(i, look, target, schemas)
         IN  About(p, i) /\ Harmless(p) /\ (Writes(p) => ~Unsafe(target))
<1> DEFINE p == TablesItem(i, look, target, schemas)
<1>1. About(Unseen(i), i) /\ Harmless(Unseen(i)) /\ ~Writes(Unseen(i))
  BY UnseenShape, BareIsHarmless DEF Unsafe, Writes
<1>2. ASSUME NEW action, NEW id, NEW tables,
             action \in {"create", "update"} =>
               \A k \in DOMAIN tables.operations : tables.operations[k].action \in {"create", "no-op"}
      PROVE  LET q == [Item(i, action, id) EXCEPT !.tables = tables]
             IN  About(q, i) /\ Harmless(q)
  <2>1. LET q == [Item(i, action, id) EXCEPT !.tables = tables]
        IN  About(q, i) /\ q.tables = tables /\ q.artifacts = NoArtifacts /\ q.action = action
    BY ItemShape DEF About, Bare
  <2> QED BY <1>2, <2>1 DEF Harmless, Writes, NoArtifacts
<1> HIDE DEF p
<1>3. CASE target.action = "create" /\ ~(~schemas \/ i.schema = "other")
  <2> DEFINE tables == [binding |-> "symbolic", target |-> 0, operations |-> NewTables(i)]
  <2>1. \A k \in DOMAIN tables.operations : tables.operations[k].action \in {"create", "no-op"}
    BY DEF NewTables, Statement
  <2>2. p = [Item(i, "create", 0) EXCEPT !.tables = tables]
    BY <1>3 DEF TablesItem, p
  <2> HIDE DEF tables
  <2>3. About(p, i) /\ Harmless(p)
    BY <1>2, <2>1, <2>2, "create" = "create"
  <2> QED BY <1>3, <2>3 DEF Unsafe, p
<1>4. CASE target.action = "no-op" /\ target.physicalId # 0
  <2> DEFINE operations == LiveTables(i, look)
             tables == [binding |-> "physical", target |-> target.physicalId, operations |-> operations]
             action == BundleAction(operations)
  <2>1. \A k \in DOMAIN operations : operations[k].action \in {"create", "no-op", "adopt", "blocked"}
    BY DEF LiveTables, Statement, TableAction
  <2> HIDE DEF operations
  <2>2. action \in {"create", "update"} => \A k \in DOMAIN operations : operations[k].action \in {"create", "no-op"}
    BY <2>1 DEF BundleAction
  <2>3. p = [Item(i, action, target.physicalId) EXCEPT !.tables = tables]
    BY <1>4 DEF TablesItem, operations, p
  <2>4. tables.operations = operations
    OBVIOUS
  <2> HIDE DEF tables, action
  <2> QED BY <1>2, <1>4, <2>2, <2>3, <2>4 DEF Unsafe, p
<1>5. CASE \/ target.action = "create" /\ (~schemas \/ i.schema = "other")
           \/ target.action # "create" /\ ~(target.action = "no-op" /\ target.physicalId # 0)
  BY <1>1, <1>5 DEF TablesItem, p
<1> QED BY <1>3, <1>4, <1>5 DEF p

(* What is read of the tags of an item only adds what is planned of them.   *)
LEMMA TaggedShape ==
  ASSUME NEW p, NEW i, About(p, i), NEW carried, NEW tagPlans
  PROVE  LET q == Tagged(p, i, carried, tagPlans)
         IN  /\ About(q, i) /\ q.action = p.action
             /\ q.tables = p.tables /\ q.artifacts = p.artifacts
BY DEF Tagged, About

(* What a manifest declares of items, and what an adapter may answer.       *)
Declarable(items, look) ==
  /\ IsFiniteSet(items) /\ ItemsValid(items)
  /\ \A i \in items :
       /\ i.id \in Nat \ {0} /\ i.state \in {"present", "absent"}
       /\ i.target # 0 => i.type \in DOMAIN Refers
       /\ look[i.id].there \in Seen
       /\ look[i.id].table \in {"absent", "owned", "unowned", "conflicting", "differs"}
       /\ i.artifacts \in Seq({"small", "large"})
       /\ \A k \in DOMAIN i.artifacts : look[i.id].stored[k] \in {"absent", "same", "other"}

(* IDs are unique.                                                          *)
LEMMA FoundById ==
  ASSUME NEW items, ItemsValid(items), NEW i \in items
  PROVE  ById(items, i.id) = i
BY DEF ItemsValid, ById

(* The item that another refers to is there, and refers to none.            *)
LEMMA ReferredItem ==
  ASSUME NEW items, NEW look, Declarable(items, look), NEW i \in items, i.state = "present", i.target # 0
  PROVE  LET j == ById(items, i.target)
         IN  j \in items /\ j.id = i.target /\ j.state = "present" /\ j.target = 0
<1> DEFINE j == ById(items, i.target)
<1>1. i.target \in Ids(items) /\ i.target \in i.deps /\ j.type = Refers[i.type] /\ j.state = "present"
  BY DEF Declarable, ItemsValid
<1>2. j \in items /\ j.id = i.target
  BY <1>1 DEF Ids, ById
<1>3. \A type \in DOMAIN Refers : Refers[type] \notin DOMAIN Refers
  BY DEF Refers
<1>4. i.type \in DOMAIN Refers /\ (j.target # 0 => j.type \in DOMAIN Refers)
  BY <1>2 DEF Declarable
<1> QED BY <1>1, <1>2, <1>3, <1>4

(* All of it, for the type an item has.                                     *)
LEMMA EnrichedShape ==
  ASSUME NEW items, NEW look, Declarable(items, look), NEW i \in items
  PROVE  LET p == EnrichedItem(items, i, look)
         IN  /\ About(p, i) /\ Harmless(p)
             /\ Writes(p) /\ i.state = "present" /\ i.target # 0 =>
                  ~Unsafe(EnrichedItem(items, ById(items, i.target), look))
<1>1. ASSUME NEW j \in items PROVE About(PlainItem(j, look), j) /\ Harmless(PlainItem(j, look))
  BY AdapterShape, BareIsHarmless DEF PlainItem, Declarable
<1>2. CASE i.state = "absent" \/ i.target = 0
  <2>1. EnrichedItem(items, i, look) = PlainItem(i, look)
    BY <1>2 DEF EnrichedItem
  <2> QED BY <1>1, <1>2, <2>1
<1>3. CASE i.state # "absent" /\ i.target # 0
  <2> DEFINE j == ById(items, i.target)
             target == PlainItem(j, look)
             p == EnrichedItem(items, i, look)
  <2>1. j \in items /\ j.target = 0 /\ i.state = "present"
    BY <1>3, ReferredItem DEF Declarable
  <2>2. EnrichedItem(items, j, look) = target
    BY <2>1 DEF EnrichedItem
  <2>3. /\ i.type \in {"LakehouseTables", "SparkJobDefinition", "Report", "KQLDatabase"}
        /\ look[i.id].there \in Seen
        /\ look[i.id].table \in {"absent", "owned", "unowned", "conflicting", "differs"}
    BY <1>3 DEF Declarable, Refers
  <2>4. p = CASE i.type \in Symbolizes -> SymbolicItem(i, look[i.id].there, target)
              [] i.type = "SparkJobDefinition" -> SparkJob(i, look[i.id], target)
              [] i.type = "LakehouseTables" -> TablesItem(i, look[i.id], target, j.enableSchemas)
              [] OTHER -> PlainItem(i, look)
    BY <1>3 DEF EnrichedItem
  <2> HIDE DEF j, target, p
  <2>5. About(p, i) /\ Harmless(p) /\ (Writes(p) => ~Unsafe(target))
    <3>1. CASE i.type \in Symbolizes
      <4>1. p = SymbolicItem(i, look[i.id].there, target)
        BY <2>4, <3>1 DEF Symbolizes
      <4> QED BY <2>3, <4>1, SymbolicShape
    <3>2. CASE i.type = "SparkJobDefinition"
      <4>1. p = SparkJob(i, look[i.id], target)
        BY <2>4, <3>2 DEF Symbolizes
      <4> QED BY <2>3, <4>1, SparkShape
    <3>3. CASE i.type = "LakehouseTables"
      <4>1. p = TablesItem(i, look[i.id], target, j.enableSchemas)
        BY <2>4, <3>3 DEF Symbolizes
      <4> QED BY <2>3, <4>1, TablesShape
    <3> QED BY <2>3, <3>1, <3>2, <3>3 DEF Symbolizes
  <2> QED BY <2>2, <2>5 DEF j, target, p
<1> QED BY <1>2, <1>3

(* The plans of the items, as the plan lists them.                          *)
LEMMA PlannedShape ==
  ASSUME NEW items, NEW look, Declarable(items, look), NEW p \in PlanItems(items, look)
  PROVE  \E i \in items :
           /\ About(p, i) /\ Harmless(p) /\ p.action = EnrichedItem(items, i, look).action
<1>1. PICK i \in items :
        p = Tagged(EnrichedItem(items, i, look), i, look[i.id].tags,
                   {EnrichedItem(items, ById(items, g), look) : g \in i.tags})
  BY DEF PlanItems
<1> DEFINE e == EnrichedItem(items, i, look)
<1>2. About(e, i) /\ Harmless(e)
  BY EnrichedShape
<1> HIDE DEF e
<1>3. About(p, i) /\ p.action = e.action /\ p.tables = e.tables /\ p.artifacts = e.artifacts
  BY <1>1, <1>2, TaggedShape DEF e
<1>4. Harmless(p)
  BY <1>2, <1>3 DEF Harmless, Writes
<1> QED BY <1>3, <1>4 DEF e

(* No item is to be written on one that is blocked or unknown.              *)
LEMMA ItemsOnSafeGround ==
  ASSUME NEW items, NEW look, Declarable(items, look),
         NEW i \in items, NEW p \in PlanItems(items, look),
         p.id = i.id, p.state = "present", p.action \in {"create", "update"},
         NEW q \in PlanItems(items, look), q.id = i.target
  PROVE  q.action \notin {"blocked", "unknown"}
<1>1. PICK j \in items : About(p, j) /\ p.action = EnrichedItem(items, j, look).action
  BY PlannedShape
<1>2. PICK k \in items : About(q, k) /\ q.action = EnrichedItem(items, k, look).action
  BY PlannedShape
<1>3. p.id = j.id /\ p.state = j.state /\ q.id = k.id
  BY <1>1, <1>2 DEF About
<1>4. j = i /\ i.state = "present" /\ ById(items, i.target) = k /\ i.target # 0
  <2>1. ItemsValid(items)
    BY DEF Declarable
  <2>2. j = i /\ ById(items, q.id) = k
    <3>1. ById(items, j.id) = j /\ ById(items, i.id) = i /\ ById(items, k.id) = k
      BY <2>1, FoundById
    <3>2. j.id = i.id
      BY <1>3
    <3> QED BY <1>3, <3>1, <3>2
  <2>3. k.id # 0
    BY DEF Declarable
  <2> QED BY <1>3, <2>2, <2>3
<1> QED BY <1>1, <1>2, <1>4, EnrichedShape DEF Writes, Unsafe

(* blockItemUntilWorkspaceExists.                                           *)
LEMMA BlockedShape ==
  ASSUME NEW p, NEW i, About(p, i)
  PROVE  About(BlockUntilWorkspaceExists(p), i) /\ Unsafe(BlockUntilWorkspaceExists(p))
<1> DEFINE acts == [p EXCEPT !.action = "blocked"]
           looked(b) == [acts EXCEPT !.observed = b]
<1>1. About(acts, i) /\ acts.action = "blocked"
  BY DEF About
<1>2. ASSUME NEW b PROVE About(looked(b), i) /\ looked(b).action = "blocked"
  <2> HIDE DEF acts
  <2> QED BY <1>1 DEF About
<1>3. About(looked(TRUE), i) /\ looked(TRUE).action = "blocked"
  <2> HIDE DEF acts, looked
  <2> QED BY <1>2, Zenon
<1>4. BlockUntilWorkspaceExists(p) = looked(TRUE)
  BY DEF BlockUntilWorkspaceExists
<1> HIDE DEF acts, looked
<1> QED BY <1>3, <1>4 DEF Unsafe

-----------------------------------------------------------------------------
(* The reader.  A file too large for a Lakehouse that is there is the one   *)
(* thing it refuses in an item.                                             *)
Large(p) ==
  p.artifacts.binding = "physical" /\ \E k \in DOMAIN p.artifacts.files : ~p.artifacts.files[k].uri
(* What is written of an item before its tags are looked at.                *)
Readable(p, i) ==
  /\ About(p, i) /\ p.tagging = AllMissing(i, "unknown")
  /\ p.action \in {"create", "update", "delete", "no-op", "blocked", "unknown", "throws"}
  /\ i.state = "absent" => p.action \notin {"create", "update"} /\ Bare(p)
  /\ i.state = "present" => p.action \notin {"delete", "throws"}
  /\ p.action = "delete" => p.physicalId # 0 /\ p.observed
  /\ IF p.tables = NoTables THEN i.type = "LakehouseTables" => Unsafe(p)
     ELSE i.type = "LakehouseTables" /\ IsPlannedTables(p.tables)
  /\ p.artifacts # NoArtifacts =>
       i.type = "SparkJobDefinition" /\ (IsPlannedArtifacts(p.artifacts) <=> ~Large(p))

(* An item without tables and artifacts.                                    *)
LEMMA BareIsReadable ==
  ASSUME NEW i, NEW p, About(p, i), Bare(p), p.tagging = AllMissing(i, "unknown"),
         p.action \in {"create", "update", "delete", "no-op", "blocked", "unknown", "throws"},
         i.state = "absent" => p.action \notin {"create", "update"},
         i.state = "present" => p.action \notin {"delete", "throws"},
         p.action = "delete" => p.physicalId # 0 /\ p.observed,
         i.type = "LakehouseTables" => Unsafe(p)
  PROVE  Readable(p, i)
BY DEF Readable, Bare

(* What the adapters plan of an item bears no plan of its tags.             *)
LEMMA ItemTags ==
  ASSUME NEW i, NEW action, NEW id
  PROVE  Item(i, action, id).tagging = AllMissing(i, "unknown") /\ Item(i, action, id).observed = TRUE
BY DEF Item, OfflineItem

(* buildPlan, and the items of a workspace that is not there.               *)
LEMMA OfflineReadable ==
  ASSUME NEW i, i.state \in {"present", "absent"}
  PROVE  Readable(OfflineItem(i), i) /\ Readable(Unseen(i), i) /\ Readable(BlockUntilWorkspaceExists(OfflineItem(i)), i)
<1>1. OfflineItem(i).tagging = AllMissing(i, "unknown") /\ OfflineItem(i).action = "unknown"
  BY DEF OfflineItem
<1>2. Unseen(i).tagging = AllMissing(i, "unknown") /\ Unseen(i).action = "blocked"
  BY DEF OfflineItem, Unseen
<1> DEFINE b == BlockUntilWorkspaceExists(OfflineItem(i))
<1>3. b.tagging = AllMissing(i, "unknown") /\ b.action = "blocked" /\ Bare(b)
  BY DEF OfflineItem, BlockUntilWorkspaceExists, Bare
<1>4. About(b, i)
  BY OfflineShape, BlockedShape
<1> HIDE DEF b
<1>5. Readable(OfflineItem(i), i)
  BY <1>1, OfflineShape, BareIsReadable
<1>6. Readable(Unseen(i), i)
  BY <1>2, UnseenShape, BareIsReadable
<1>7. Readable(b, i)
  BY <1>3, <1>4, BareIsReadable DEF Unsafe
<1> QED BY <1>5, <1>6, <1>7 DEF b

(* What the adapters plan of one item.                                      *)
LEMMA AdapterReadable ==
  ASSUME NEW i, i.state \in {"present", "absent"}, i.id # 0, NEW there \in Seen
  PROVE  /\ i.state = "present" /\ i.type # "LakehouseTables" =>
              Readable(AdapterItem(i, there), i) /\ Readable(UnresolvedItem(i, there), i)
         /\ i.state = "present" => Readable(BlockedItem(i), i)
         /\ i.state = "absent" /\ i.type # "LakehouseTables" => Readable(DeletedItem(i, there), i)
<1>1. ASSUME NEW action, NEW id,
             action \in {"create", "update", "delete", "no-op", "blocked", "throws"},
             i.state = "absent" => action \notin {"create", "update"},
             i.state = "present" => action \notin {"delete", "throws"},
             action = "delete" => id # 0,
             i.type = "LakehouseTables" => action = "blocked"
      PROVE  Readable(Item(i, action, id), i)
  <2> DEFINE p == Item(i, action, id)
  <2>1. /\ About(p, i) /\ Bare(p) /\ p.action = action /\ p.physicalId = id
        /\ p.tagging = AllMissing(i, "unknown") /\ p.observed = TRUE
    <3> HIDE DEF p
    <3>1. About(p, i) /\ Bare(p) /\ p.action = action /\ p.physicalId = id
      BY ItemShape DEF p
    <3>2. p.tagging = AllMissing(i, "unknown") /\ p.observed = TRUE
      BY ItemTags DEF p
    <3> QED BY <3>1, <3>2
  <2> HIDE DEF p
  <2>2. i.type = "LakehouseTables" => Unsafe(p)
    BY <1>1, <2>1 DEF Unsafe
  <2>3. Readable(p, i)
    BY <1>1, <2>1, <2>2, BareIsReadable
  <2> QED BY <2>3 DEF p
<1>2. ASSUME i.state = "present", i.type # "LakehouseTables"
      PROVE  Readable(AdapterItem(i, there), i) /\ Readable(UnresolvedItem(i, there), i)
  BY <1>1, <1>2 DEF AdapterItem, UnresolvedItem, BlockedItem, Seen
<1>3. ASSUME i.state = "present" PROVE Readable(BlockedItem(i), i)
  BY <1>1, <1>3 DEF BlockedItem
<1>4. ASSUME i.state = "absent", i.type # "LakehouseTables" PROVE Readable(DeletedItem(i, there), i)
  BY <1>1, <1>4 DEF DeletedItem, Seen
<1> QED BY <1>2, <1>3, <1>4

(* planSymbolicItem.                                                        *)
LEMMA SymbolicReadable ==
  ASSUME NEW i, i.state = "present", i.id # 0, i.type # "LakehouseTables", NEW there \in Seen, NEW target
  PROVE  Readable(SymbolicItem(i, there, target), i)
BY AdapterReadable DEF SymbolicItem

(* The files of a Spark job.                                                *)
LEMMA ArtifactsReadable ==
  ASSUME NEW i, i.artifacts \in Seq({"small", "large"}), i.artifacts # <<>>,
         NEW stored, \A k \in DOMAIN i.artifacts : stored[k] \in {"absent", "same", "other"},
         NEW target, target.action # "create" => target.physicalId # 0
  PROVE  LET s == PlannedArtifacts(i, stored, target)
         IN  IsPlannedArtifacts(s) <=> ~(s.binding = "physical" /\ \E k \in DOMAIN s.files : ~s.files[k].uri)
<1> DEFINE physical == target.action # "create"
           s == PlannedArtifacts(i, stored, target)
<1>1. /\ s.binding = (IF physical THEN "physical" ELSE "symbolic")
      /\ s.target = (IF physical THEN target.physicalId ELSE 0)
      /\ s.files = [k \in DOMAIN i.artifacts |-> PlannedFile(i.artifacts[k], stored[k], physical)]
  BY DEF PlannedArtifacts
<1>2. DOMAIN i.artifacts = 1..Len(i.artifacts) /\ Len(i.artifacts) \in Nat /\ Len(i.artifacts) # 0
  OBVIOUS
<1>3. s.files # <<>>
  <2>1. 1 \in DOMAIN s.files
    BY <1>1, <1>2
  <2> HIDE DEF s
  <2> QED BY <2>1
<1>4. ASSUME NEW k \in DOMAIN i.artifacts
      PROVE  LET f == PlannedFile(i.artifacts[k], stored[k], physical)
             IN  f.action \in {"create", "no-op", "blocked"} /\ f.uri \in BOOLEAN /\ (~physical => ~f.uri)
  BY DEF PlannedFile
<1>5. DOMAIN s.files = DOMAIN i.artifacts
  BY <1>1
<1>6. \A k \in DOMAIN s.files : /\ s.files[k].action \in {"create", "no-op", "blocked"}
                                /\ s.files[k].uri \in BOOLEAN /\ (~physical => ~s.files[k].uri)
  BY <1>1, <1>4, <1>5
<1> HIDE DEF s
<1>7. (s.binding = "physical") = physical /\ (s.binding = "physical" <=> s.target # 0)
  BY <1>1
<1> HIDE DEF physical
<1>8. IsPlannedArtifacts(s) <=> ~(s.binding = "physical" /\ \E k \in DOMAIN s.files : ~s.files[k].uri)
  BY <1>3, <1>6, <1>7 DEF IsPlannedArtifacts
<1> QED BY <1>8 DEF s

(* planSparkJob, with its files.                                            *)
LEMMA SparkReadable ==
  ASSUME NEW i, i.state = "present", i.id # 0, i.type = "SparkJobDefinition",
         i.artifacts \in Seq({"small", "large"}),
         NEW look, look.there \in Seen, \A k \in DOMAIN i.artifacts : look.stored[k] \in {"absent", "same", "other"},
         NEW target
  PROVE  Readable(SparkJob(i, look, target), i)
<1> DEFINE staging == IF i.artifacts = <<>> THEN NoArtifacts ELSE PlannedArtifacts(i, look.stored, target)
           staged(p) == [p EXCEPT !.artifacts = staging]
<1>1. SparkJob(i, look, target) =
        IF ~Resolved(target) /\ target.action # "create" THEN BlockedItem(i)
        ELSE IF BlockedFile(staging) THEN staged(BlockedItem(i))
        ELSE IF target.action = "create" THEN staged(UnresolvedItem(i, look.there))
        ELSE staged(AdapterItem(i, look.there))
  BY DEF SparkJob
<1>2. /\ Readable(BlockedItem(i), i) /\ Readable(UnresolvedItem(i, look.there), i)
      /\ Readable(AdapterItem(i, look.there), i)
  BY AdapterReadable
<1>3. Bare(BlockedItem(i)) /\ Bare(UnresolvedItem(i, look.there)) /\ Bare(AdapterItem(i, look.there))
  BY ItemShape, AdapterShape DEF BlockedItem
<1>4. CASE ~Resolved(target) /\ target.action # "create"
  BY <1>1, <1>2, <1>4
<1>5. CASE Resolved(target) \/ target.action = "create"
  <2>1. staging # NoArtifacts =>
          (IsPlannedArtifacts(staging) <=>
             ~(staging.binding = "physical" /\ \E k \in DOMAIN staging.files : ~staging.files[k].uri))
    <3>1. target.action # "create" => target.physicalId # 0
      BY <1>5 DEF Resolved
    <3> QED BY <3>1, ArtifactsReadable
  <2> HIDE DEF staging
  <2>2. ASSUME NEW p, Readable(p, i), Bare(p) PROVE Readable(staged(p), i)
    <3> DEFINE q == staged(p)
    <3>1. /\ About(q, i) /\ q.tagging = p.tagging /\ q.action = p.action /\ q.tables = p.tables
          /\ q.physicalId = p.physicalId /\ q.observed = p.observed /\ q.artifacts = staging
      BY <2>2 DEF Readable, About
    <3> HIDE DEF q
    <3>2. Readable(q, i)
      BY <2>1, <2>2, <3>1 DEF Readable, Large, Unsafe
    <3> QED BY <3>2 DEF q
  <2> HIDE DEF staged
  <2> QED BY <1>1, <1>2, <1>3, <1>5, <2>2
<1> QED BY <1>4, <1>5

(* planLakehouseTables, with its statements.                                *)
LEMMA TablesReadable ==
  ASSUME NEW i, i.state = "present", i.type = "LakehouseTables",
         NEW look, look.table \in {"absent", "owned", "unowned", "conflicting", "differs"},
         NEW target, NEW schemas
  PROVE  Readable(TablesItem(i, look, target, schemas), i)
<1>1. ASSUME NEW action \in {"create", "update", "no-op", "blocked"}, NEW id, NEW tables,
             tables # NoTables, IsPlannedTables(tables)
      PROVE  Readable([Item(i, action, id) EXCEPT !.tables = tables], i)
  <2> DEFINE p == Item(i, action, id)
             q == [p EXCEPT !.tables = tables]
  <2>1. About(p, i) /\ Bare(p) /\ p.action = action /\ p.tagging = AllMissing(i, "unknown")
    <3> HIDE DEF p
    <3>1. About(p, i) /\ Bare(p) /\ p.action = action /\ p.physicalId = id
      BY ItemShape DEF p
    <3>2. p.tagging = AllMissing(i, "unknown") /\ p.observed = TRUE
      BY ItemTags DEF p
    <3> QED BY <3>1, <3>2
  <2> HIDE DEF p
  <2>2. /\ About(q, i) /\ q.tagging = AllMissing(i, "unknown") /\ q.action = action /\ q.tables = tables
        /\ q.artifacts = NoArtifacts
    BY <2>1 DEF About, Bare
  <2> HIDE DEF q
  <2>3. Readable(q, i)
    BY <1>1, <2>2 DEF Readable
  <2> QED BY <2>3 DEF p, q
<1>2. CASE target.action = "create" /\ ~(~schemas \/ i.schema = "other")
  <2> DEFINE tables == [binding |-> "symbolic", target |-> 0, operations |-> NewTables(i)]
  <2>1. tables # NoTables
    BY DEF NoTables
  <2>2. IsPlannedTables(tables)
    BY DEF IsPlannedTables, NewTables, Statement
  <2>3. TablesItem(i, look, target, schemas) = [Item(i, "create", 0) EXCEPT !.tables = tables]
    BY <1>2 DEF TablesItem
  <2> HIDE DEF tables
  <2> QED BY <1>1, <2>1, <2>2, <2>3
<1>3. CASE target.action = "no-op" /\ target.physicalId # 0
  <2> DEFINE tables == [binding |-> "physical", target |-> target.physicalId, operations |-> LiveTables(i, look)]
             action == BundleAction(LiveTables(i, look))
  <2>1. tables # NoTables
    BY DEF NoTables
  <2>2. IsPlannedTables(tables)
    <3>1. \A k \in DOMAIN LiveTables(i, look) :
            /\ LiveTables(i, look)[k].action \in {"create", "adopt", "no-op", "blocked"}
            /\ LiveTables(i, look)[k].kind = "schema" => LiveTables(i, look)[k].action \in {"create", "no-op"}
      BY DEF LiveTables, Statement, TableAction
    <3> QED BY <1>3, <3>1 DEF IsPlannedTables
  <2>3. TablesItem(i, look, target, schemas) = [Item(i, action, target.physicalId) EXCEPT !.tables = tables]
    BY <1>3 DEF TablesItem
  <2>4. action \in {"create", "no-op", "blocked"}
    BY DEF BundleAction
  <2> HIDE DEF tables, action
  <2> QED BY <1>1, <2>1, <2>2, <2>3, <2>4
<1>4. CASE \/ target.action = "create" /\ (~schemas \/ i.schema = "other")
           \/ target.action # "create" /\ ~(target.action = "no-op" /\ target.physicalId # 0)
  BY <1>4, OfflineReadable DEF TablesItem
<1> QED BY <1>2, <1>3, <1>4

(* Whichever adapter plans an item, the reader can take it.                 *)
LEMMA EnrichedReadable ==
  ASSUME NEW items, NEW look, Declarable(items, look), NEW i \in items
  PROVE  Readable(EnrichedItem(items, i, look), i)
<1> DEFINE l == look[i.id]
           target == PlainItem(ById(items, i.target), look)
<1>1. /\ i.state \in {"present", "absent"} /\ i.id # 0 /\ l.there \in Seen
      /\ l.table \in {"absent", "owned", "unowned", "conflicting", "differs"}
      /\ i.artifacts \in Seq({"small", "large"})
      /\ \A k \in DOMAIN i.artifacts : l.stored[k] \in {"absent", "same", "other"}
      /\ i.target # 0 => i.type \in {"LakehouseTables", "SparkJobDefinition", "Report", "KQLDatabase"}
  BY DEF Declarable, Refers
<1>2. /\ i.state = "absent" => i.type # "LakehouseTables"
      /\ i.state = "present" /\ i.type = "LakehouseTables" => i.target # 0
  <2>1. /\ i.state = "absent" => i.type \in Deletable
        /\ i.state = "present" /\ i.type \in Symbolizes \cup {"LakehouseTables"} => i.target # 0
    BY DEF Declarable, ItemsValid
  <2> QED BY <2>1 DEF Deletable
<1>3. EnrichedItem(items, i, look) =
        IF i.state = "absent" \/ i.target = 0 THEN PlainItem(i, look)
        ELSE CASE i.type \in Symbolizes -> SymbolicItem(i, l.there, target)
               [] i.type = "SparkJobDefinition" -> SparkJob(i, l, target)
               [] i.type = "LakehouseTables" -> TablesItem(i, l, target, ById(items, i.target).enableSchemas)
               [] OTHER -> PlainItem(i, look)
  BY DEF EnrichedItem
<1>4. PlainItem(i, look) = IF i.state = "absent" THEN DeletedItem(i, l.there) ELSE AdapterItem(i, l.there)
  BY DEF PlainItem
<1> HIDE DEF l, target
<1>5. CASE i.state = "absent" \/ i.target = 0
  BY <1>1, <1>2, <1>3, <1>4, <1>5, AdapterReadable
<1>6. CASE i.state = "present" /\ i.target # 0 /\ i.type \in Symbolizes
  <2>1. EnrichedItem(items, i, look) = SymbolicItem(i, l.there, target) /\ i.type # "LakehouseTables"
    BY <1>3, <1>6 DEF Symbolizes
  <2> QED BY <1>1, <1>6, <2>1, SymbolicReadable
<1>7. CASE i.state = "present" /\ i.target # 0 /\ i.type = "SparkJobDefinition"
  <2>1. EnrichedItem(items, i, look) = SparkJob(i, l, target)
    BY <1>3, <1>7 DEF Symbolizes
  <2> QED BY <1>1, <1>7, <2>1, SparkReadable
<1>8. CASE i.state = "present" /\ i.target # 0 /\ i.type = "LakehouseTables"
  <2>1. EnrichedItem(items, i, look) = TablesItem(i, l, target, ById(items, i.target).enableSchemas)
    BY <1>3, <1>8 DEF Symbolizes
  <2> QED BY <1>1, <1>8, <2>1, TablesReadable
<1> QED BY <1>1, <1>5, <1>6, <1>7, <1>8 DEF Symbolizes

(* What the reader makes of it once its tags are planned.                   *)
LEMMA ReadableIsRead ==
  ASSUME NEW i, i.state \in {"present", "absent"},
         NEW p, Readable(p, i), p.action # "throws",
         NEW q, About(q, i), q.action = p.action, q.physicalId = p.physicalId, q.observed = p.observed,
         q.tables = p.tables, q.artifacts = p.artifacts,
         \/ q.tagging = NoTags
         \/ i.state = "present" /\ i.type \notin Untaggable /\ IsPlannedTagging(q.tagging)
  PROVE  IsPlannedItem(q) <=> ~Large(q)
<1>1. q.type = i.type /\ q.state = i.state
  BY DEF About
<1>2. q.artifacts = NoArtifacts => ~Large(q)
  BY DEF NoArtifacts, Large
<1>3. q.artifacts # NoArtifacts =>
        i.type = "SparkJobDefinition" /\ (IsPlannedArtifacts(q.artifacts) <=> ~Large(q))
  BY DEF Readable, Large
<1>4. IF q.tables = NoTables THEN q.type = "LakehouseTables" => q.action \in {"blocked", "unknown"}
      ELSE q.type = "LakehouseTables" /\ IsPlannedTables(q.tables)
  BY <1>1 DEF Readable, Unsafe
<1>5. /\ q.action \in {"create", "update", "delete", "no-op", "blocked", "unknown"}
      /\ q.action = "delete" => q.physicalId # 0 /\ q.observed
      /\ q.state = "absent" => q.action \notin {"create", "update"} /\ Bare(q) /\ q.tagging = NoTags
      /\ q.state = "present" => q.action # "delete"
  BY <1>1 DEF Readable, Bare
<1>6. q.tagging # NoTags => q.type \notin Untaggable /\ IsPlannedTagging(q.tagging)
  BY <1>1
<1> QED BY <1>1, <1>2, <1>3, <1>4, <1>5, <1>6 DEF IsPlannedItem, Bare

(* The tags of an item that may carry some.                                 *)
LEMMA TagsRead ==
  ASSUME NEW i, NEW action \in {"update", "no-op", "blocked", "unknown"}, NEW missing \in SUBSET i.tags,
         action = "no-op" => missing = {}, action = "update" => missing # {}, i.tags # {}
  PROVE  IsPlannedTagging(TagsOf(i, action, missing)) /\ TagsOf(i, action, missing).tags = i.tags
BY DEF IsPlannedTagging, TagsOf

(* A tagged item, once it is known which tags it carries.                   *)
LEMMA TaggedRead ==
  ASSUME NEW i, i.state \in {"present", "absent"},
         i.state = "absent" => i.tags = {}, i.tags # {} => i.type \notin Untaggable,
         NEW p, Readable(p, i), p.action # "throws", NEW carried, NEW tagPlans
  PROVE  LET q == Tagged(p, i, carried, tagPlans)
         IN  (IsPlannedItem(q) <=> ~Large(q)) /\ q.tagging.tags \subseteq i.tags
<1> DEFINE q == Tagged(p, i, carried, tagPlans)
<1>1. About(p, i)
  BY DEF Readable
<1>2. CASE i.tags = {}
  <2>1. q = p /\ p.tagging = NoTags
    BY <1>2 DEF Tagged, Readable, AllMissing
  <2> HIDE DEF q
  <2>2. q.tagging.tags = {}
    BY <2>1 DEF NoTags
  <2>3. IsPlannedItem(q) <=> ~Large(q)
    BY <1>1, <2>1, ReadableIsRead
  <2> QED BY <2>2, <2>3 DEF q
<1>3. CASE i.tags # {}
  <2>1. ASSUME NEW tagging
        PROVE  LET r == [p EXCEPT !.tagging = tagging]
               IN  /\ About(r, i) /\ r.tagging = tagging /\ r.action = p.action /\ r.physicalId = p.physicalId
                   /\ r.observed = p.observed /\ r.tables = p.tables /\ r.artifacts = p.artifacts
    BY <1>1 DEF About
  <2>2. ASSUME NEW tagging, IsPlannedTagging(tagging)
        PROVE  LET r == [p EXCEPT !.tagging = tagging] IN (IsPlannedItem(r) <=> ~Large(r)) /\ r.tagging = tagging
    <3> DEFINE r == [p EXCEPT !.tagging = tagging]
    <3> HIDE DEF r
    <3>1. /\ About(r, i) /\ r.tagging = tagging /\ r.action = p.action /\ r.physicalId = p.physicalId
          /\ r.observed = p.observed /\ r.tables = p.tables /\ r.artifacts = p.artifacts
      BY <2>1 DEF r
    <3>2. IsPlannedItem(r) <=> ~Large(r)
      BY <1>3, <2>2, <3>1, ReadableIsRead
    <3> QED BY <3>1, <3>2 DEF r
  <2>3. PICK tagging : q = [p EXCEPT !.tagging = tagging] /\ IsPlannedTagging(tagging) /\ tagging.tags = i.tags
    <3>1. PICK action \in {"update", "no-op", "blocked"}, missing \in SUBSET i.tags :
            /\ q = [p EXCEPT !.tagging = TagsOf(i, action, missing)]
            /\ (action = "no-op" => missing = {}) /\ (action = "update" => missing # {})
      <4>1. AllMissing(i, "blocked") = TagsOf(i, "blocked", i.tags) /\ AllMissing(i, "update") = TagsOf(i, "update", i.tags)
        BY <1>3 DEF AllMissing
      <4>2. i.tags \ carried \in SUBSET i.tags
        OBVIOUS
      <4> QED BY <1>3, <4>1, <4>2 DEF Tagged
    <3>2. IsPlannedTagging(TagsOf(i, action, missing)) /\ TagsOf(i, action, missing).tags = i.tags
      BY <1>3, <3>1, TagsRead
    <3> HIDE DEF q
    <3> QED BY <3>1, <3>2
  <2> HIDE DEF q
  <2>4. (IsPlannedItem(q) <=> ~Large(q)) /\ q.tagging = tagging
    BY <2>2, <2>3
  <2> QED BY <2>3, <2>4 DEF q
<1> QED BY <1>2, <1>3

(* And before that.                                                         *)
LEMMA UntaggedRead ==
  ASSUME NEW i, i.state \in {"present", "absent"},
         i.state = "absent" => i.tags = {}, i.tags # {} => i.type \notin Untaggable,
         NEW p, Readable(p, i), p.action # "throws"
  PROVE  (IsPlannedItem(p) <=> ~Large(p)) /\ p.tagging.tags \subseteq i.tags
<1>1. About(p, i) /\ p.tagging = AllMissing(i, "unknown")
  BY DEF Readable
<1>2. CASE i.tags = {}
  <2>1. p.tagging = NoTags
    BY <1>1, <1>2 DEF AllMissing
  <2> QED BY <1>1, <1>2, <2>1, ReadableIsRead DEF NoTags
<1>3. CASE i.tags # {}
  <2>1. p.tagging = TagsOf(i, "unknown", i.tags)
    BY <1>1, <1>3 DEF AllMissing
  <2>2. IsPlannedTagging(p.tagging) /\ p.tagging.tags = i.tags
    BY <1>3, <2>1, TagsRead
  <2> QED BY <1>1, <1>3, <2>2, ReadableIsRead
<1> QED BY <1>2, <1>3

(* Every item has its plan, and every plan its item.                        *)
ItemsRead(items, planned) ==
  /\ \A p \in planned : IsPlannedItem(p) <=> ~Large(p)
  /\ \A p \in planned : \E i \in items : About(p, i) /\ p.tagging.tags \subseteq i.tags
  /\ \A i \in items : \E p \in planned : About(p, i)

(* isDeploymentPlan, of the stages.                                         *)
LEMMA StagesRead ==
  ASSUME NEW items, IsFiniteSet(items), ItemsValid(items), Acyclic(Stages(items)),
         \A i \in items : i.state \in {"present", "absent"}
  PROVE  /\ UNION Range(Stages(items)) = Ids(items)
         /\ \A k, l \in DOMAIN Stages(items) : k # l => Stages(items)[k] \cap Stages(items)[l] = {}
<1> DEFINE t == Stages(items)
           ids(state) == InState(items, state)
<1>1. PICK s, a, n, m : Split(items, t, s, a, n, m)
  BY StagesSplit
<1>2. ids("present") \cup ids("absent") = Ids(items) /\ ids("present") \cap ids("absent") = {}
  BY DEF InState, Ids, ItemsValid
<1> HIDE DEF t, ids
<1>3. n \in Nat /\ m \in Nat /\ DOMAIN s = 1..n /\ DOMAIN a = 1..m /\ DOMAIN t = 1..n + m
  BY <1>1 DEF Split
<1>4. /\ \A k \in 1..n : t[k] = s[k] /\ s[k] \subseteq ids("present") /\ k \in DOMAIN t
      /\ \A k \in 1..m : t[n + m + 1 - k] = a[k] /\ a[k] \subseteq ids("absent") /\ n + m + 1 - k \in DOMAIN t
  BY <1>1, <1>3 DEF Split, ids
<1>5. /\ \A x \in ids("present") : \E k \in 1..n : x \in s[k]
      /\ \A x \in ids("absent") : \E k \in 1..m : x \in a[k]
      /\ \A k, l \in 1..n : k # l => s[k] \cap s[l] = {}
      /\ \A k, l \in 1..m : k # l => a[k] \cap a[l] = {}
  BY <1>1, <1>3 DEF Split, Ordered, ids
<1>6. \A k \in DOMAIN t : k \in 1..n \/ \E l \in 1..m : k = n + m + 1 - l
  <2> SUFFICES ASSUME NEW k \in 1..n + m, k \notin 1..n PROVE \E l \in 1..m : k = n + m + 1 - l
    BY <1>3
  <2>1. n + m + 1 - k \in 1..m /\ k = n + m + 1 - (n + m + 1 - k)
    BY <1>3
  <2> QED BY <2>1
<1>7. UNION Range(t) = Ids(items)
  <2>1. \A x \in UNION Range(t) : x \in Ids(items)
    BY <1>2, <1>4, <1>6 DEF Range
  <2>2. \A x \in Ids(items) : x \in UNION Range(t)
    BY <1>2, <1>4, <1>5 DEF Range
  <2> QED BY <2>1, <2>2
<1>8. ASSUME NEW k \in DOMAIN t, NEW l \in DOMAIN t, k # l PROVE t[k] \cap t[l] = {}
  <2>1. CASE k \in 1..n /\ l \in 1..n
    BY <1>4, <1>5, <1>8, <2>1
  <2>2. CASE k \in 1..n /\ l \notin 1..n
    BY <1>2, <1>4, <1>6, <2>2
  <2>3. CASE k \notin 1..n /\ l \in 1..n
    BY <1>2, <1>4, <1>6, <2>3
  <2>4. CASE k \notin 1..n /\ l \notin 1..n
    <3>1. PICK x \in 1..m, y \in 1..m : k = n + m + 1 - x /\ l = n + m + 1 - y
      BY <1>6, <2>4
    <3>2. x # y
      BY <1>8, <3>1
    <3> QED BY <1>4, <1>5, <3>1, <3>2
  <2> QED BY <2>1, <2>2, <2>3, <2>4
<1> QED BY <1>7, <1>8 DEF t

(* isDeploymentPlan, of the items.                                          *)
LEMMA ItemsAreRead ==
  ASSUME NEW items, NEW look, Declarable(items, look), Acyclic(Stages(items)),
         NEW planned, ItemsRead(items, planned)
  PROVE  /\ IsPlannedItems(planned, Stages(items)) <=> ~\E p \in planned : Large(p)
         /\ Ids(planned) = Ids(items)
<1>1. Ids(planned) = Ids(items)
  <2>1. \A p \in planned : \E i \in items : p.id = i.id
    BY DEF ItemsRead, About
  <2>2. \A i \in items : \E p \in planned : p.id = i.id
    BY DEF ItemsRead, About
  <2> QED BY <2>1, <2>2 DEF Ids
<1>2. ASSUME NEW p \in planned, NEW g \in p.tagging.tags
      PROVE  g \in p.deps /\ \E q \in planned : q.id = g /\ q.type = "FabricTag"
  <2>1. PICK i \in items : About(p, i) /\ g \in i.tags
    BY <1>2 DEF ItemsRead
  <2>2. g \in i.deps /\ g \in Ids(items) /\ ById(items, g).type = "FabricTag"
    BY <2>1 DEF Declarable, ItemsValid
  <2>3. ById(items, g) \in items /\ ById(items, g).id = g
    BY <2>2 DEF Ids, ById
  <2>4. PICK q \in planned : About(q, ById(items, g))
    BY <2>3 DEF ItemsRead
  <2>5. p.deps = i.deps /\ q.id = g /\ q.type = "FabricTag"
    BY <2>1, <2>2, <2>3, <2>4 DEF About
  <2> QED BY <2>2, <2>5
<1>3. /\ UNION Range(Stages(items)) = Ids(items)
      /\ \A k, l \in DOMAIN Stages(items) : k # l => Stages(items)[k] \cap Stages(items)[l] = {}
  BY StagesRead DEF Declarable
<1>4. (\A p \in planned : IsPlannedItem(p)) <=> ~\E p \in planned : Large(p)
  BY DEF ItemsRead
<1> QED BY <1>1, <1>2, <1>3, <1>4 DEF IsPlannedItems

(* What enrichPlanWithFabric makes of the items, unless it fails.           *)
LEMMA PlannedRead ==
  ASSUME NEW items, NEW look, Declarable(items, look),
         \A p \in PlanItems(items, look) : p.action # "throws"
  PROVE  ItemsRead(items, PlanItems(items, look))
<1> DEFINE e(i) == EnrichedItem(items, i, look)
           q(i) == Tagged(e(i), i, look[i.id].tags, {e(ById(items, g)) : g \in i.tags})
<1>1. PlanItems(items, look) = {q(i) : i \in items}
  BY DEF PlanItems
<1>2. ASSUME NEW i \in items
      PROVE  About(q(i), i) /\ (IsPlannedItem(q(i)) <=> ~Large(q(i))) /\ q(i).tagging.tags \subseteq i.tags
  <2>1. /\ i.state \in {"present", "absent"} /\ (i.state = "absent" => i.tags = {})
        /\ i.tags # {} => i.type \notin Untaggable
    BY DEF Declarable, ItemsValid
  <2>2. Readable(e(i), i)
    BY EnrichedReadable
  <2>3. About(e(i), i)
    BY <2>2 DEF Readable
  <2>4. q(i).action # "throws"
    BY <1>1
  <2> HIDE DEF e
  <2>5. About(q(i), i) /\ q(i).action = e(i).action
    BY <2>3, TaggedShape
  <2> QED BY <2>1, <2>2, <2>4, <2>5, TaggedRead
<1> HIDE DEF q
<1> QED BY <1>1, <1>2 DEF ItemsRead

(* And what is planned of them before, and without a workspace.             *)
LEMMA UnplannedRead ==
  ASSUME NEW items, NEW look, Declarable(items, look)
  PROVE  /\ ItemsRead(items, {OfflineItem(i) : i \in items})
         /\ ItemsRead(items, {BlockUntilWorkspaceExists(OfflineItem(i)) : i \in items})
<1>1. ASSUME NEW i \in items, NEW p, Readable(p, i), Unsafe(p)
      PROVE  About(p, i) /\ (IsPlannedItem(p) <=> ~Large(p)) /\ p.tagging.tags \subseteq i.tags
  <2>1. /\ i.state \in {"present", "absent"} /\ (i.state = "absent" => i.tags = {})
        /\ i.tags # {} => i.type \notin Untaggable
    BY DEF Declarable, ItemsValid
  <2>2. About(p, i) /\ p.action # "throws"
    BY <1>1 DEF Readable, Unsafe
  <2> QED BY <1>1, <2>1, <2>2, UntaggedRead
<1>2. ASSUME NEW i \in items
      PROVE  /\ Readable(OfflineItem(i), i) /\ Unsafe(OfflineItem(i))
             /\ LET b == BlockUntilWorkspaceExists(OfflineItem(i)) IN Readable(b, i) /\ Unsafe(b)
  <2>1. i.state \in {"present", "absent"}
    BY DEF Declarable
  <2> QED BY <2>1, OfflineReadable, OfflineShape, BlockedShape
<1> QED BY <1>1, <1>2 DEF ItemsRead

-----------------------------------------------------------------------------
(* The network.  Names are numbers, and a finite set of them has a largest  *)
(* one, so they can be sorted.                                              *)
LEMMA LargestName ==
  ASSUME NEW S, IsFiniteSet(S), S \subseteq Nat, S # {}
  PROVE  \E m \in S : \A n \in S : n <= m
<1> DEFINE T == {X \in SUBSET S : X # {} /\ ~\E m \in X : \A n \in X : n <= m}
<1>1. SUFFICES ASSUME T # {} PROVE FALSE
  <2>1. S \in T => FALSE
    BY <1>1
  <2> QED BY <2>1
<1>2. PICK X \in T : \A Y \in SUBSET X : Y # X => Y \notin T
  <2>1. T \in SUBSET (SUBSET S)
    OBVIOUS
  <2> HIDE DEF T
  <2> QED BY <1>1, <2>1, MinimalSubset
<1>3. PICK x \in X : TRUE
  BY <1>2
<1>4. x \in Nat /\ X \subseteq Nat
  BY <1>2
<1>5. CASE X = {x}
  BY <1>2, <1>4, <1>5
<1>6. CASE X # {x}
  <2>1. X \ {x} # {} /\ X \ {x} \in SUBSET S /\ X \ {x} # X
    BY <1>2, <1>3, <1>6
  <2>2. PICK m \in X \ {x} : \A n \in X \ {x} : n <= m
    BY <1>2, <2>1
  <2>3. CASE x <= m
    BY <1>2, <1>4, <2>2, <2>3
  <2>4. CASE m <= x
    BY <1>2, <1>4, <2>2, <2>4
  <2> QED BY <1>4, <2>2, <2>3, <2>4
<1> QED BY <1>5, <1>6

(* Every finite set of names has an ascending sequence.                     *)
LEMMA CanBeSorted ==
  ASSUME NEW S, IsFiniteSet(S), S \subseteq Nat
  PROVE  \E s \in [1..Cardinality(S) -> S] : Ascending(s)
<1> DEFINE T == {X \in SUBSET S : ~\E s \in [1..Cardinality(X) -> X] : Ascending(s)}
<1>1. SUFFICES ASSUME T # {} PROVE FALSE
  <2>1. S \in T => FALSE
    BY <1>1
  <2> QED BY <2>1
<1>2. PICK X \in T : \A Y \in SUBSET X : Y # X => Y \notin T
  <2>1. T \in SUBSET (SUBSET S)
    OBVIOUS
  <2> HIDE DEF T
  <2> QED BY <1>1, <2>1, MinimalSubset
<1>3. X \subseteq Nat /\ IsFiniteSet(X) /\ X \in SUBSET S
  BY <1>2, FS_Subset
<1>4. CASE X = {}
  <2>1. Cardinality(X) = 0
    BY <1>4, FS_EmptySet
  <2>2. <<>> \in [1..0 -> X] /\ Ascending(<<>>)
    BY DEF Ascending
  <2> QED BY <1>2, <2>1, <2>2
<1>5. CASE X # {}
  <2>1. PICK m \in X : \A n \in X : n <= m
    BY <1>3, <1>5, LargestName
  <2> DEFINE Y == X \ {m}
             c == Cardinality(Y)
  <2>2. IsFiniteSet(Y) /\ Cardinality(X) = c + 1 /\ c \in Nat
    <3>1. IsFiniteSet(Y) /\ Cardinality(Y) = Cardinality(X) - 1
      BY <1>3, <2>1, FS_RemoveElement
    <3>2. Cardinality(X) \in Nat /\ c \in Nat
      BY <1>3, <3>1, FS_CardinalityType
    <3> QED BY <3>1, <3>2
  <2>3. PICK s \in [1..c -> Y] : Ascending(s)
    BY <1>2, <1>3, <2>1
  <2> DEFINE t == [k \in 1..c + 1 |-> IF k = c + 1 THEN m ELSE s[k]]
  <2> HIDE DEF c
  <2>4. t \in [1..c + 1 -> X]
    BY <2>1, <2>2, <2>3
  <2>5. Len(s) = c /\ Len(t) = c + 1
    BY <2>2, <2>3, <2>4
  <2>6. Ascending(t)
    <3> SUFFICES ASSUME NEW k \in 1..c PROVE t[k] < t[k + 1]
      <4>1. Len(t) - 1 = c
        BY <2>2, <2>5
      <4> HIDE DEF t
      <4> QED BY <4>1 DEF Ascending
    <3>1. t[k] = s[k] /\ k \in Nat /\ m \in Nat /\ s[k] \in Nat /\ s[k] <= m /\ s[k] # m
      <4>1. s[k] \in Y
        BY <2>3 DEF c
      <4>2. k \in Nat /\ k # c + 1
        BY <2>2
      <4>3. m \in Nat /\ s[k] \in Nat /\ s[k] <= m /\ s[k] # m
        BY <1>3, <2>1, <4>1
      <4>4. t[k] = s[k]
        <5>1. k \in 1..c + 1
          BY <2>2
        <5> QED BY <4>2, <5>1
      <4> QED BY <4>2, <4>3, <4>4
    <3>2. CASE k = c
      <4>1. t[k + 1] = m
        BY <2>2, <3>2
      <4> QED BY <3>1, <4>1
    <3>3. CASE k # c
      <4>1. t[k + 1] = s[k + 1] /\ k \in 1..Len(s) - 1
        BY <2>2, <2>5, <3>3
      <4> QED BY <2>3, <3>1, <4>1 DEF Ascending
    <3> QED BY <3>2, <3>3
  <2> QED BY <1>2, <2>2, <2>4, <2>6 DEF c
<1> QED BY <1>4, <1>5

(* Sorted is one of them.                                                   *)
LEMMA SortedIsThere ==
  ASSUME NEW S, IsFiniteSet(S), S \subseteq Nat
  PROVE  /\ Sorted(S) \in [1..Cardinality(S) -> S] /\ DOMAIN Sorted(S) = 1..Cardinality(S)
         /\ Sorted(S) = <<>> => S = {}
         /\ Ascending(Sorted(S))
<1>1. Sorted(S) \in [1..Cardinality(S) -> S] /\ Ascending(Sorted(S))
  BY CanBeSorted DEF Sorted
<1>2. Cardinality(S) \in Nat /\ (Cardinality(S) = 0 => S = {})
  BY FS_CardinalityType, FS_EmptySet
<1>3. Sorted(S) = <<>> => 1..Cardinality(S) = {}
  BY <1>1
<1> QED BY <1>1, <1>2, <1>3

(* And ByName lists elements of its set, by name.                           *)
LEMMA ByNameIsThere ==
  ASSUME NEW set, IsFiniteSet(set), \A e \in set : e.name \in Nat
  PROVE  /\ \E n \in Nat : ByName(set) \in [1..n -> set]
         /\ Ascending([k \in DOMAIN ByName(set) |-> ByName(set)[k].name])
<1> DEFINE names == {e.name : e \in set}
           name == [e \in set |-> e.name]
<1>1. IsFiniteSet(names)
  <2>1. name \in Surjection(set, names)
    BY DEF Surjection
  <2> QED BY <2>1, FS_Surjection DEF ExistsSurjection
<1>2. /\ DOMAIN Sorted(names) = 1..Cardinality(names) /\ Cardinality(names) \in Nat
      /\ Sorted(names) \in [1..Cardinality(names) -> names] /\ Ascending(Sorted(names))
      /\ \A k \in 1..Cardinality(names) : Sorted(names)[k] \in names
  <2>1. names \subseteq Nat
    OBVIOUS
  <2> HIDE DEF names
  <2> QED BY <1>1, <2>1, SortedIsThere, FS_CardinalityType
<1>3. ASSUME NEW k \in 1..Cardinality(names)
      PROVE  LET e == CHOOSE e \in set : e.name = Sorted(names)[k] IN e \in set /\ e.name = Sorted(names)[k]
  <2>1. \E e \in set : e.name = Sorted(names)[k]
    BY <1>2
  <2> QED BY <2>1
<1>4. ByName(set) = [k \in 1..Cardinality(names) |-> CHOOSE e \in set : e.name = Sorted(names)[k]]
  BY <1>2 DEF ByName
<1> HIDE DEF names
<1>5. ByName(set) \in [1..Cardinality(names) -> set]
  BY <1>3, <1>4
<1>6. [k \in DOMAIN ByName(set) |-> ByName(set)[k].name] = Sorted(names)
  BY <1>2, <1>3, <1>4
<1> QED BY <1>2, <1>5, <1>6

(* An endpoint planned is the one declared, and what is to be deleted is as *)
(* declared.                                                                *)
LEMMA EndpointShape ==
  ASSUME NEW e, NEW around
  PROVE  LET p == PlanEndpoint(e, around)
         IN  /\ p.name = e.name /\ p.state = e.state /\ p.target = e.target /\ p.sub = e.sub
             /\ p.action = "delete" =>
                  \E l \in around : l.id = p.physicalId /\ l.target = p.target /\ p.sub \in {0, l.sub}
                                  /\ l.provisioning \notin {"failed", "deleting"}
<1> DEFINE p == PlanEndpoint(e, around)
           named == {l \in around : l.name = e.name}
           one == CHOOSE l \in named : TRUE
           o == ObservedEndpoint(e, one, EndpointAction(e, one))
<1>1. ASSUME NEW action
      PROVE  LET b == EndpointBase(e, action)
             IN  b.name = e.name /\ b.state = e.state /\ b.target = e.target /\ b.sub = e.sub /\ b.action = action
  BY DEF EndpointBase
<1>2. /\ o.name = e.name /\ o.state = e.state /\ o.target = e.target /\ o.sub = e.sub
      /\ o.action = EndpointAction(e, one) /\ o.physicalId = one.id
  BY DEF ObservedEndpoint, EndpointBase
<1>3. CASE named = {}
  <2>1. p = EndpointBase(e, IF e.state = "present" THEN "create" ELSE "no-op")
    BY <1>3 DEF PlanEndpoint
  <2> HIDE DEF p
  <2> QED BY <1>1, <2>1 DEF p
<1>4. CASE named # {} /\ (Cardinality(named) > 1 \/ \E l \in named : ~l.exact)
  <2>1. p = EndpointBase(e, "blocked")
    BY <1>4 DEF PlanEndpoint
  <2> HIDE DEF p
  <2> QED BY <1>1, <2>1 DEF p
<1>5. CASE named # {} /\ ~(Cardinality(named) > 1 \/ \E l \in named : ~l.exact)
  <2>1. p = [o EXCEPT !.approvalRequired = (o.action = "no-op" /\ ApprovalRequired(one))]
    BY <1>5 DEF PlanEndpoint
  <2>2. one \in around
    BY <1>5
  <2> HIDE DEF p, o, one
  <2>3. /\ p.name = e.name /\ p.state = e.state /\ p.target = e.target /\ p.sub = e.sub
        /\ p.action = EndpointAction(e, one) /\ p.physicalId = one.id
    BY <1>2, <2>1
  <2>4. EndpointAction(e, one) = "delete" =>
          ExactMatch(e, one) /\ one.provisioning \notin {"failed", "deleting"}
    BY DEF EndpointAction
  <2> QED BY <2>2, <2>3, <2>4 DEF ExactMatch, p
<1> QED BY <1>3, <1>4, <1>5

(* A sequence of names is empty only if there are none.                     *)
LEMMA BlockersShape ==
  ASSUME NEW n \in Nat, NEW endpoints, DOMAIN endpoints = 1..n,
         \A k \in 1..n : endpoints[k].name \in Nat
  PROVE  /\ Ascending(Blockers(endpoints))
         /\ Blockers(endpoints) = <<>> =>
              \A k \in 1..n : endpoints[k].state = "present" => EndpointApproved(endpoints[k])
<1> DEFINE K == {k \in 1..n : endpoints[k].state = "present" /\ ~EndpointApproved(endpoints[k])}
           names == {endpoints[k].name : k \in K}
           name == [k \in K |-> endpoints[k].name]
<1>1. IsFiniteSet(K)
  <2>1. IsFiniteSet(1..n) /\ K \in SUBSET (1..n)
    BY FS_Interval
  <2> HIDE DEF K
  <2> QED BY <2>1, FS_Subset
<1>2. IsFiniteSet(names)
  <2>1. name \in Surjection(K, names)
    BY DEF Surjection
  <2> HIDE DEF names, K, name
  <2> QED BY <1>1, <2>1, FS_Surjection DEF ExistsSurjection
<1>3. names \subseteq Nat
  OBVIOUS
<1>4. Blockers(endpoints) = Sorted(names)
  BY DEF Blockers
<1>5. Ascending(Sorted(names)) /\ (Sorted(names) = <<>> => names = {})
  <2> HIDE DEF names
  <2> QED BY <1>2, <1>3, SortedIsThere
<1>6. names = {} => K = {}
  OBVIOUS
<1> QED BY <1>4, <1>5, <1>6

(* Outbound access is closed on approved endpoints; what is deleted is what *)
(* was declared.                                                            *)
ClosesOnApproved(n) ==
  n.policy.action = "update" /\ n.policy.desired[2] = "Deny" /\ n.policy.observed[2] = "Allow" =>
    \A k \in DOMAIN n.endpoints : n.endpoints[k].state = "present" => n.endpoints[k].connection = "approved"
DeletesDeclared(n, around) ==
  \A k \in DOMAIN n.endpoints : n.endpoints[k].action = "delete" =>
    \E l \in around : l.id = n.endpoints[k].physicalId /\ l.target = n.endpoints[k].target
                    /\ n.endpoints[k].sub \in {0, l.sub} /\ l.provisioning \notin {"failed", "deleting"}

(* A network that was not looked at changes nothing.                        *)
LEMMA StaticShape ==
  ASSUME NEW d, NEW action \in {"unknown", "blocked"}, NEW bootstrap, NEW around
  PROVE  LET n == StaticNetwork(d, action, bootstrap) IN ClosesOnApproved(n) /\ DeletesDeclared(n, around)
<1> DEFINE n == StaticNetwork(d, action, bootstrap)
<1>1. n.policy.action = action
  BY DEF StaticNetwork, BlankPolicy
<1>2. n.endpoints = [i \in DOMAIN ByName(d.endpoints) |-> StaticEndpoint(ByName(d.endpoints)[i], action, bootstrap)]
  BY DEF StaticNetwork
<1>3. ASSUME NEW e PROVE StaticEndpoint(e, action, bootstrap).action = action
  BY DEF StaticEndpoint, EndpointBase
<1> HIDE DEF n
<1>4. \A k \in DOMAIN n.endpoints : n.endpoints[k].action = action
  BY <1>2, <1>3
<1> QED BY <1>1, <1>4 DEF ClosesOnApproved, DeletesDeclared, n

(* Outbound access that was open is closed only if nothing blocks it.       *)
LEMMA PolicyShape ==
  ASSUME NEW d, NEW there, NEW endpoints
  PROVE  LET p == PlanPolicy(d, there, endpoints)
         IN  p.action = "update" /\ p.desired[2] = "Deny" /\ p.observed[2] = "Allow" => Blockers(endpoints) = <<>>
<1> DEFINE p == PlanPolicy(d, there, endpoints)
           planned == [BlankPolicy(d, Compare(Policy(d) = Policy(there))) EXCEPT
                         !.observed = Policy(there), !.observedHash = Policy(there),
                         !.relaxation = Bool(Relaxes(Policy(there), Policy(d)))]
<1>1. planned.desired = Policy(d) /\ planned.observed = Policy(there)
  BY DEF BlankPolicy
<1>2. planned.action = Compare(Policy(d) = Policy(there)) /\ DOMAIN planned = DOMAIN BlankPolicy(d, "update")
  BY DEF BlankPolicy
<1>3. Policy(d)[2] = d.outbound /\ Policy(there)[2] = there.outbound
  BY DEF Policy
<1>4. p = IF BlockedByEndpoints(d, there, Blockers(endpoints))
          THEN [planned EXCEPT !.action = "blocked", !.blockers = Blockers(endpoints)] ELSE planned
  BY DEF PlanPolicy
<1>5. "action" \in DOMAIN planned
  BY <1>2 DEF BlankPolicy
<1> HIDE DEF planned, p
<1>6. CASE BlockedByEndpoints(d, there, Blockers(endpoints))
  <2>1. p.action = "blocked"
    BY <1>4, <1>5, <1>6
  <2> QED BY <2>1 DEF p
<1>7. CASE ~BlockedByEndpoints(d, there, Blockers(endpoints))
  BY <1>1, <1>3, <1>4, <1>7 DEF BlockedByEndpoints, p
<1> QED BY <1>6, <1>7

(* Of a network planned with a look at Fabric.                              *)
LEMMA NetworkShape ==
  ASSUME NEW d, IsFiniteSet(d.endpoints), \A e \in d.endpoints : e.name \in Nat, NEW there, NEW workspace
  PROVE  LET n == PlanNetwork(d, there, workspace) IN ClosesOnApproved(n) /\ DeletesDeclared(n, there.endpoints)
<1> DEFINE wanted == ByName(d.endpoints)
           endpoints == [i \in DOMAIN wanted |-> PlanEndpoint(wanted[i], there.endpoints)]
           n == PlanNetwork(d, there, workspace)
<1>1. CASE ~there.found
  <2>1. n = StaticNetwork(d, "blocked", FALSE)
    BY <1>1 DEF PlanNetwork
  <2> HIDE DEF n
  <2> QED BY <2>1, StaticShape DEF n
<1>2. CASE there.found
  <2>1. n.policy = PlanPolicy(d, there, endpoints) /\ n.endpoints = endpoints
    BY <1>2 DEF PlanNetwork
  <2>2. PICK m \in Nat : wanted \in [1..m -> d.endpoints]
    BY ByNameIsThere
  <2> HIDE DEF wanted, n
  <2>3. DOMAIN endpoints = 1..m /\ \A k \in 1..m : endpoints[k] = PlanEndpoint(wanted[k], there.endpoints)
    BY <2>2
  <2> HIDE DEF endpoints
  <2>4. \A k \in 1..m : endpoints[k].name \in Nat
    BY <2>2, <2>3, EndpointShape
  <2>5. ClosesOnApproved(n)
    <3>1. ASSUME Blockers(endpoints) = <<>>, NEW k \in 1..m, endpoints[k].state = "present"
          PROVE  endpoints[k].connection = "approved"
      BY <2>3, <2>4, <3>1, BlockersShape DEF EndpointApproved
    <3>2. n.policy.action = "update" /\ n.policy.desired[2] = "Deny" /\ n.policy.observed[2] = "Allow" =>
            Blockers(endpoints) = <<>>
      BY <2>1, PolicyShape
    <3> QED BY <2>1, <2>3, <3>1, <3>2 DEF ClosesOnApproved
  <2>6. DeletesDeclared(n, there.endpoints)
    BY <2>1, <2>3, EndpointShape DEF DeletesDeclared
  <2> QED BY <2>5, <2>6 DEF n
<1> QED BY <1>1, <1>2

-----------------------------------------------------------------------------
(* isPlannedWorkspaceIdentity.                                              *)
LEMMA UnlookedIdentityRead ==
  ASSUME NEW roles, NEW workspace
  PROVE  /\ IsPlannedIdentity(OfflineIdentity(roles, workspace))
         /\ IsPlannedIdentity(BlockedIdentity(OfflineIdentity(roles, workspace)))
<1>1. IsPlannedIdentity(OfflineIdentity(roles, workspace))
  BY DEF OfflineIdentity, IsPlannedIdentity, Identity, Role
<1>2. ASSUME NEW p PROVE IsPlannedIdentity(BlockedIdentity(p))
  BY DEF BlockedIdentity, IsPlannedIdentity, Identity, Role
<1> QED BY <1>1, <1>2

(* What its adapter plans of an identity.                                   *)
LEMMA IdentityRead ==
  ASSUME NEW roles, NEW workspace, NEW exists, NEW there,
         \A r \in roles : there[r] \in {"absent", "same", "differs"},
         ~DuplicateRole(roles, workspace)
  PROVE  IsPlannedIdentity(PlanIdentity(roles, workspace, exists, there))
<1> DEFINE planned == {Role(RoleTarget(r, workspace), RoleAction(there[r])) : r \in roles}
           p == PlanIdentity(roles, workspace, exists, there)
<1>1. CASE ~exists
  <2>1. p = Identity("create", {Role(RoleTarget(r, workspace), "blocked") : r \in roles})
    BY <1>1 DEF PlanIdentity
  <2> HIDE DEF p
  <2>2. IsPlannedIdentity(p)
    BY <2>1 DEF IsPlannedIdentity, Identity, Role
  <2> QED BY <2>2 DEF p
<1>2. CASE exists
  <2>1. \A r, q \in roles : RoleTarget(r, workspace) = RoleTarget(q, workspace) => r = q
    BY DEF RoleTarget, DuplicateRole
  <2>2. \A r \in roles : RoleAction(there[r]) \in {"create", "no-op", "blocked"}
    BY DEF RoleAction
  <2>3. \A x \in planned : \E r \in roles : /\ x = Role(RoleTarget(r, workspace), RoleAction(there[r]))
                                           /\ x.target = RoleTarget(r, workspace) /\ x.action = RoleAction(there[r])
    BY DEF Role
  <2> DEFINE actions == {r.action : r \in planned}
             action == IF "blocked" \in actions THEN "blocked" ELSE IF "create" \in actions THEN "update" ELSE "no-op"
  <2>4. p = Identity(action, planned)
    BY <1>2 DEF PlanIdentity
  <2>5. action \in {"update", "no-op", "blocked"}
    OBVIOUS
  <2> HIDE DEF p, planned, action
  <2>6. p.action = action /\ p.roles = planned
    BY <2>4 DEF Identity
  <2>7. IsPlannedIdentity(p)
    BY <2>1, <2>2, <2>3, <2>5, <2>6 DEF IsPlannedIdentity
  <2> QED BY <2>7 DEF p
<1> QED BY <1>1, <1>2

-----------------------------------------------------------------------------
(* isPlannedVirtualNetworkGateways: what it refuses are two entries with    *)
(* one ID.                                                                  *)
Shared(gateways) == \E g, h \in gateways : g # h /\ g.physicalId # 0 /\ g.physicalId = h.physicalId
Kept(p, g) == p.logicalId = g.logicalId /\ p.like = g.like /\ p.name = g.name /\ p.state = g.state
GatewayRead(p) ==
  /\ p.state = "absent" => p.physicalId # 0 /\ p.action \notin {"create", "update"}
  /\ p.state = "present" => p.action # "delete"
  /\ p.action = "create" => p.physicalId = 0
  /\ p.action \in {"update", "delete", "no-op"} => p.physicalId # 0

(* The gateways taken together.                                             *)
LEMMA GatewaysRead ==
  ASSUME NEW planned, \A p \in planned : GatewayRead(p),
         \A p, q \in planned : p.logicalId = q.logicalId \/ p.name = q.name => p = q
  PROVE  IsPlannedGateways(planned) <=> ~Shared(planned)
BY DEF IsPlannedGateways, Shared, Distinct, GatewayRead

(* planVirtualNetworkGateways, before a look at Fabric                      *)
LEMMA GatewayShape ==
  ASSUME NEW g, g.state \in {"present", "absent"}, g.state = "absent" => g.id # 0
  PROVE  Kept(OfflineGateway(g), g) /\ GatewayRead(OfflineGateway(g))
BY DEF OfflineGateway, PlannedGateway, Kept, GatewayRead

(* and after it.                                                            *)
LEMMA LiveGatewayShape ==
  ASSUME NEW g, g.state \in {"present", "absent"}, g.state = "absent" => g.id # 0,
         NEW around, \A l \in around : l.id # 0
  PROVE  Kept(PlanGateway(g, around), g) /\ GatewayRead(PlanGateway(g, around))
<1> DEFINE found == {l \in around : IF g.id # 0 THEN l.id = g.id ELSE l.name = g.name}
           one == CHOOSE l \in found : TRUE
           p == PlanGateway(g, around)
<1>1. ASSUME NEW action, NEW id
      PROVE  LET q == PlannedGateway(g, action, id) IN Kept(q, g) /\ q.action = action /\ q.physicalId = id
  BY DEF PlannedGateway, Kept
<1>2. CASE found = {}
  <2>1. p = PlannedGateway(g, IF g.state = "absent" THEN "no-op" ELSE IF g.id # 0 THEN "blocked" ELSE "create", g.id)
    BY <1>2 DEF PlanGateway
  <2> HIDE DEF p
  <2> QED BY <1>1, <2>1 DEF Kept, GatewayRead, p
<1>3. CASE found # {} /\ Cardinality(found) > 1
  <2>1. p = PlannedGateway(g, "blocked", g.id)
    BY <1>3 DEF PlanGateway
  <2> HIDE DEF p
  <2> QED BY <1>1, <2>1 DEF Kept, GatewayRead, p
<1>4. CASE found # {} /\ ~(Cardinality(found) > 1)
  <2>1. p = PlannedGateway(g, GatewayAction(g, one), one.id)
    BY <1>4 DEF PlanGateway
  <2>2. one \in around
    BY <1>4
  <2> HIDE DEF p, one
  <2>3. /\ g.state = "absent" => GatewayAction(g, one) \in {"blocked", "delete"}
        /\ g.state = "present" => GatewayAction(g, one) \in {"blocked", "update", "no-op"}
    BY DEF GatewayAction, Compare
  <2> QED BY <1>1, <2>1, <2>2, <2>3 DEF Kept, GatewayRead, p
<1> QED BY <1>2, <1>3, <1>4

-----------------------------------------------------------------------------
(* isPlannedNetworkProtection.                                              *)
LEMMA UnobservedEndpointRead ==
  ASSUME NEW e, e.state \in {"present", "absent"},
         NEW p, p.name = e.name, p.state = e.state, p.target = e.target, p.sub = e.sub,
         p.operation = Operation(e), p.identity = EndpointIdentity(e), p.message = Message(e),
         Unobserved(p), ~p.approvalRequired, p.bootstrapBlocked => p.action = "blocked",
         p.action \in {"unknown", "blocked", IF e.state = "present" THEN "create" ELSE "no-op"}
  PROVE  IsPlannedEndpoint(p)
BY DEF IsPlannedEndpoint, EndpointIdentity, Operation, Message

(* An endpoint of which nothing was found.                                  *)
LEMMA BaseEndpointRead ==
  ASSUME NEW e, e.state \in {"present", "absent"},
         NEW action \in {"unknown", "blocked", IF e.state = "present" THEN "create" ELSE "no-op"}
  PROVE  IsPlannedEndpoint(EndpointBase(e, action))
<1> DEFINE p == EndpointBase(e, action)
<1>1. /\ p.name = e.name /\ p.state = e.state /\ p.target = e.target /\ p.sub = e.sub /\ p.action = action
      /\ p.operation = Operation(e) /\ p.identity = EndpointIdentity(e) /\ p.message = Message(e)
      /\ Unobserved(p) /\ ~p.approvalRequired /\ ~p.bootstrapBlocked
  BY DEF EndpointBase, Unobserved
<1> HIDE DEF p
<1>2. IsPlannedEndpoint(p)
  BY <1>1, UnobservedEndpointRead
<1> QED BY <1>2 DEF p

(* An endpoint that was not looked for.                                     *)
LEMMA StaticEndpointRead ==
  ASSUME NEW e, e.state \in {"present", "absent"},
         NEW action \in {"unknown", "blocked"}, NEW bootstrap, bootstrap => action = "blocked"
  PROVE  IsPlannedEndpoint(StaticEndpoint(e, action, bootstrap)) /\ StaticEndpoint(e, action, bootstrap).name = e.name
<1> DEFINE p == StaticEndpoint(e, action, bootstrap)
<1>1. /\ p.name = e.name /\ p.state = e.state /\ p.target = e.target /\ p.sub = e.sub /\ p.action = action
      /\ p.operation = Operation(e) /\ p.identity = EndpointIdentity(e) /\ p.message = Message(e)
      /\ Unobserved(p) /\ ~p.approvalRequired /\ p.bootstrapBlocked = bootstrap
  BY DEF StaticEndpoint, EndpointBase, Unobserved
<1> HIDE DEF p
<1>2. IsPlannedEndpoint(p)
  BY <1>1, UnobservedEndpointRead
<1> QED BY <1>1, <1>2 DEF p

(* An endpoint that was found under its name: what is to be deleted or left *)
(* as it is has the identity and the state the reader demands.              *)
LEMMA FoundEndpointRead ==
  ASSUME NEW e, e.state \in {"present", "absent"}, NEW l, l.name = e.name, l.id # 0,
         NEW p, p = [ObservedEndpoint(e, l, EndpointAction(e, l)) EXCEPT
                       !.approvalRequired = (EndpointAction(e, l) = "no-op" /\ ApprovalRequired(l))]
  PROVE  IsPlannedEndpoint(p)
<1> DEFINE action == EndpointAction(e, l)
           required == action = "no-op" /\ ApprovalRequired(l)
           o == ObservedEndpoint(e, l, action)
<1>1. /\ o.name = e.name /\ o.state = e.state /\ o.target = e.target /\ o.sub = e.sub /\ o.action = action
      /\ o.operation = Operation(e) /\ o.identity = EndpointIdentity(e) /\ o.message = Message(e)
      /\ o.physicalId = l.id /\ o.observed = EndpointIdentity(l)
      /\ o.provisioning = l.provisioning /\ o.connection = l.connection
      /\ o.bootstrapBlocked = FALSE
      /\ DOMAIN o = {"name", "state", "target", "sub", "action", "operation", "identity", "message", "physicalId",
                     "observed", "provisioning", "connection", "approvalRequired", "bootstrapBlocked"}
  BY DEF ObservedEndpoint, EndpointBase
<1>2. p = [o EXCEPT !.approvalRequired = required]
  OBVIOUS
<1> HIDE DEF o, required, action
<1>3. /\ p.name = e.name /\ p.state = e.state /\ p.target = e.target /\ p.sub = e.sub /\ p.action = action
      /\ p.operation = Operation(e) /\ p.identity = EndpointIdentity(e) /\ p.message = Message(e)
      /\ p.physicalId = l.id /\ p.observed = EndpointIdentity(l)
      /\ p.provisioning = l.provisioning /\ p.connection = l.connection
      /\ p.bootstrapBlocked = FALSE
  BY <1>1, <1>2
<1>4. p.approvalRequired = required
  BY <1>1, <1>2
<1>5. /\ action \in {"no-op", "delete"} =>
           /\ ExactMatch(e, l) /\ l.provisioning \in {"provisioning", "updating", "succeeded"}
           /\ l.connection \in Connections \cup {"none"}
           /\ l.provisioning = "succeeded" => l.connection \in Connections
      /\ action = "delete" => e.state = "absent"
      /\ action = "no-op" => e.state = "present"
      /\ action # "create"
  BY DEF action, EndpointAction, Provisionings
<1>6. EndpointIdentity(l) # <<>>
  BY DEF EndpointIdentity
<1>7. ExactMatch(e, l) /\ e.sub # 0 => EndpointIdentity(l) = EndpointIdentity(e)
  BY DEF ExactMatch, EndpointIdentity
<1>8. action \in {"no-op", "delete"} => SafeState(p)
  BY <1>3, <1>5 DEF SafeState
<1>9. required => action = "no-op"
  BY DEF required
<1>10. action = "no-op" => (required <=> p.provisioning # "succeeded" \/ p.connection = "pending")
  BY <1>3, <1>5 DEF required, ApprovalRequired
<1>11. p.identity = EndpointIdentity(p) /\ p.operation = <<p.name, p.state, p.target, p.sub, p.message>>
  BY <1>3 DEF EndpointIdentity, Operation
<1>12. p.state = "present" <=> p.message # 0
  BY <1>3 DEF Message
<1>13. p.sub # 0 /\ p.action \in {"delete", "no-op"} => p.observed = p.identity
  BY <1>3, <1>5, <1>7
<1>14. p.action = "no-op" => /\ p.state = "present" /\ p.physicalId # 0 /\ p.observed # <<>> /\ SafeState(p)
                             /\ p.approvalRequired <=> p.provisioning # "succeeded" \/ p.connection = "pending"
  BY <1>3, <1>4, <1>5, <1>6, <1>8, <1>10
<1>15. p.action = "delete" => p.state = "absent" /\ p.physicalId # 0 /\ p.observed # <<>> /\ SafeState(p)
  BY <1>3, <1>5, <1>6, <1>8
<1>16. p.action # "create" /\ (p.approvalRequired => p.action = "no-op") /\ ~p.bootstrapBlocked
  BY <1>3, <1>4, <1>5, <1>9
<1> QED BY <1>11, <1>12, <1>13, <1>14, <1>15, <1>16 DEF IsPlannedEndpoint

(* planEndpoint.                                                            *)
LEMMA EndpointRead ==
  ASSUME NEW e, e.state \in {"present", "absent"}, NEW around, \A l \in around : l.id # 0
  PROVE  IsPlannedEndpoint(PlanEndpoint(e, around))
<1> DEFINE named == {l \in around : l.name = e.name}
           one == CHOOSE l \in named : TRUE
           o == ObservedEndpoint(e, one, EndpointAction(e, one))
           p == PlanEndpoint(e, around)
<1>2. CASE named = {}
  <2> DEFINE action == IF e.state = "present" THEN "create" ELSE "no-op"
  <2>1. p = EndpointBase(e, action)
    BY <1>2 DEF PlanEndpoint
  <2> HIDE DEF p
  <2> QED BY <2>1, BaseEndpointRead DEF p
<1>3. CASE named # {} /\ (Cardinality(named) > 1 \/ \E l \in named : ~l.exact)
  <2>1. p = EndpointBase(e, "blocked")
    BY <1>3 DEF PlanEndpoint
  <2> HIDE DEF p
  <2> QED BY <2>1, BaseEndpointRead DEF p
<1>4. CASE named # {} /\ ~(Cardinality(named) > 1 \/ \E l \in named : ~l.exact)
  <2>1. p = [o EXCEPT !.approvalRequired = (o.action = "no-op" /\ ApprovalRequired(one))]
    BY <1>4 DEF PlanEndpoint
  <2>2. o.action = EndpointAction(e, one)
    BY DEF ObservedEndpoint, EndpointBase
  <2>3. one \in around /\ one.name = e.name
    BY <1>4
  <2> HIDE DEF p, o, one
  <2>4. p = [o EXCEPT !.approvalRequired = (EndpointAction(e, one) = "no-op" /\ ApprovalRequired(one))]
    BY <2>1, <2>2
  <2>5. IsPlannedEndpoint(p)
    BY <2>3, <2>4, FoundEndpointRead DEF o
  <2> QED BY <2>5 DEF p
<1> QED BY <1>2, <1>3, <1>4

(* The policy, with the endpoints that block it.                            *)
LEMMA BlankPolicyRead ==
  ASSUME NEW d, NEW action \in {"unknown", "blocked"}
  PROVE  LET p == BlankPolicy(d, action)
         IN  IsPlannedPolicy(p) /\ p.blockers = <<>> /\ p.desired = Policy(d) /\ p.action = action
BY DEF BlankPolicy, IsPlannedPolicy, IsPolicyBlock, SurfaceActions, Discovered, Undiscovered

(* What is planned of the policy when it was found.                         *)
LEMMA PolicyRead ==
  ASSUME NEW d, NEW there, NEW endpoints, Ascending(Blockers(endpoints))
  PROVE  LET p == PlanPolicy(d, there, endpoints)
         IN  IsPlannedPolicy(p) /\ p.blockers \in {<<>>, Blockers(endpoints)} /\ p.desired = Policy(d)
<1> DEFINE p == PlanPolicy(d, there, endpoints)
           found == Policy(there)
           planned == [BlankPolicy(d, Compare(Policy(d) = found)) EXCEPT
                         !.observed = found, !.observedHash = found,
                         !.relaxation = Bool(Relaxes(found, Policy(d)))]
           blockers == Blockers(endpoints)
<1>1. /\ planned.desired = Policy(d) /\ planned.hash = Policy(d) /\ planned.observed = found
      /\ planned.observedHash = found /\ planned.blockers = <<>>
      /\ planned.relaxation = Bool(Relaxes(found, Policy(d))) /\ planned.action = Compare(Policy(d) = found)
      /\ DOMAIN planned = {"action", "desired", "hash", "observed", "observedHash", "relaxation", "blockers"}
  BY DEF BlankPolicy
<1>2. p = IF BlockedByEndpoints(d, there, blockers)
          THEN [planned EXCEPT !.action = "blocked", !.blockers = blockers] ELSE planned
  BY DEF PlanPolicy
<1>3. found # <<>> /\ found[2] = there.outbound /\ Policy(d)[2] = d.outbound
  BY DEF Policy
<1> HIDE DEF p, planned, found, blockers
<1>4. CASE BlockedByEndpoints(d, there, blockers)
  <2>1. /\ p.desired = Policy(d) /\ p.hash = Policy(d) /\ p.observed = found /\ p.observedHash = found
        /\ p.blockers = blockers /\ p.relaxation = Bool(Relaxes(found, Policy(d))) /\ p.action = "blocked"
    BY <1>1, <1>2, <1>4
  <2>2. blockers # <<>> /\ found[2] = "Allow" /\ Policy(d)[2] = "Deny"
    BY <1>3, <1>4 DEF BlockedByEndpoints
  <2>3. IsPolicyBlock(p)
    BY <2>1, <2>2 DEF IsPolicyBlock, blockers
  <2>4. IsPlannedPolicy(p)
    BY <1>3, <2>1, <2>2, <2>3 DEF IsPlannedPolicy, SurfaceActions, Undiscovered
  <2> QED BY <2>1, <2>4 DEF p, blockers
<1>5. CASE ~BlockedByEndpoints(d, there, blockers)
  <2>1. p = planned /\ planned.action \in {"update", "no-op"} /\ (planned.action = "no-op" <=> Policy(d) = found)
    BY <1>1, <1>2, <1>5 DEF Compare
  <2>2. IsPlannedPolicy(p)
    BY <1>1, <1>3, <2>1 DEF IsPlannedPolicy, SurfaceActions, Discovered, Undiscovered
  <2> QED BY <1>1, <2>1, <2>2 DEF p
<1> QED BY <1>4, <1>5

(* The rules of the firewall and the shares.                                *)
LEMMA StaticSurfaceRead ==
  ASSUME NEW value, NEW action \in {"unknown", "blocked"}
  PROVE  LET s == IF value = 0 THEN NoSurface ELSE BlankSurface(value, action)
         IN  IsPlannedFirewall(s) /\ IsPlannedSurface(s) /\ (value = 2 => s # NoSurface /\ s.count > 0)
BY DEF NoSurface, BlankSurface, IsPlannedFirewall, IsPlannedSurface, SurfaceActions, Discovered, Undiscovered

(* What is planned of the firewall when it was found.                       *)
LEMMA SurfaceRead ==
  ASSUME NEW value, NEW there, there # 0
  PROVE  LET s == PlanSurface(value, there)
         IN  IsPlannedFirewall(s) /\ (value = 2 => s # NoSurface /\ s.count > 0)
<1> DEFINE s == PlanSurface(value, there)
<1>1. CASE value = 0
  <2>1. s = NoSurface
    BY <1>1 DEF PlanSurface
  <2> HIDE DEF s
  <2> QED BY <1>1, <2>1 DEF NoSurface, BlankSurface, IsPlannedFirewall, IsPlannedSurface, Discovered, s
<1>2. CASE value # 0
  <2>1. s = [BlankSurface(value, Compare(value = there)) EXCEPT !.observed = there]
    BY <1>2 DEF PlanSurface
  <2>2. s.action = Compare(value = there) /\ s.hash = value /\ s.observed = there /\ s.count = value - 1
    BY <2>1 DEF BlankSurface
  <2>3. s # NoSurface
    <3>1. NoSurface.action = "none"
      BY DEF NoSurface, BlankSurface
    <3> HIDE DEF s
    <3> QED BY <2>2, <3>1 DEF Compare
  <2> HIDE DEF s
  <2>4. IsPlannedFirewall(s)
    BY <1>2, <2>2 DEF IsPlannedFirewall, IsPlannedSurface, SurfaceActions, Discovered, Compare
  <2> QED BY <2>2, <2>3, <2>4 DEF s
<1> QED BY <1>1, <1>2

(* The gateway rules are kept with what was found of them.                  *)
LEMMA RulesRead ==
  ASSUME NEW d, NEW there
  PROVE  IsPlannedSurface(PlanRules(d, there))
<1>1. ASSUME NEW value, NEW observed, value # 0, NEW action \in Discovered
      PROVE  IsPlannedSurface([BlankSurface(value, action) EXCEPT !.observed = observed])
  BY <1>1 DEF BlankSurface, IsPlannedSurface, SurfaceActions
<1>2. IsPlannedSurface(NoSurface)
  BY DEF IsPlannedSurface
<1>3. "update" \in Discovered /\ Compare(d.rules = there.rules) \in Discovered
  BY DEF Discovered, Compare
<1> QED BY <1>1, <1>2, <1>3 DEF PlanRules, PlanSurface

(* The shares, before and after a look at Fabric.                           *)
LEMMA SharesRead ==
  ASSUME NEW value, NEW there, there # "none", NEW action \in {"unknown", "blocked"}
  PROVE  /\ IsPlannedShares(BlankShares(value, IF value = "none" THEN "none" ELSE action))
         /\ IsPlannedShares(PlanShares(value, there))
<1>1. IsPlannedShares(BlankShares(value, IF value = "none" THEN "none" ELSE action))
  BY DEF BlankShares, IsPlannedShares, Undiscovered
<1>2. CASE value = "none"
  BY <1>1, <1>2 DEF PlanShares, BlankShares, IsPlannedShares
<1>3. CASE value # "none"
  <2> DEFINE s == PlanShares(value, there)
  <2>1. /\ s.action = Compare(value = there) /\ s.desired = value /\ s.observed = there
        /\ s.relaxation = Bool(there = "Deny" /\ value = "Allow")
    BY <1>3 DEF PlanShares
  <2> HIDE DEF s
  <2>2. s.action \in Discovered /\ (s.action = "no-op" <=> s.desired = s.observed)
    BY <2>1 DEF Discovered, Compare
  <2>3. IsPlannedShares(s)
    BY <2>1, <2>2 DEF IsPlannedShares
  <2> QED BY <1>1, <2>3 DEF s
<1> QED BY <1>1, <1>2, <1>3

(* What a manifest declares of the network, and the answer on what is there.*)
NetworkDeclarable(d) ==
  /\ IsFiniteSet(d.endpoints) /\ NetworkValid(d)
  /\ \A e \in d.endpoints : e.name \in Nat /\ e.state \in {"present", "absent"}
NetworkAnswers(there) ==
  there.firewall # 0 /\ there.shares # "none" /\ \A l \in there.endpoints : l.id # 0

(* The endpoints in their order.                                            *)
LEMMA EndpointsRead ==
  ASSUME NEW d, NetworkDeclarable(d), NEW endpoints, DOMAIN endpoints = DOMAIN ByName(d.endpoints),
         \A k \in DOMAIN endpoints : endpoints[k].name = ByName(d.endpoints)[k].name,
         \A k \in DOMAIN endpoints : IsPlannedEndpoint(endpoints[k])
  PROVE  IsPlannedEndpoints(endpoints) /\ Ascending(Blockers(endpoints))
<1> DEFINE wanted == ByName(d.endpoints)
<1>1. PICK n \in Nat : wanted \in [1..n -> d.endpoints]
  BY ByNameIsThere DEF NetworkDeclarable
<1>2. Ascending([k \in DOMAIN wanted |-> wanted[k].name])
  BY ByNameIsThere DEF NetworkDeclarable
<1> HIDE DEF wanted
<1>3. DOMAIN endpoints = 1..n /\ \A k \in 1..n : endpoints[k].name = wanted[k].name /\ wanted[k] \in d.endpoints
  BY <1>1 DEF wanted
<1>4. [k \in DOMAIN endpoints |-> endpoints[k].name] = [k \in DOMAIN wanted |-> wanted[k].name]
  BY <1>1, <1>3
<1>5. \A k \in 1..n : endpoints[k].name \in Nat
  BY <1>3 DEF NetworkDeclarable
<1> QED BY <1>2, <1>3, <1>4, <1>5, BlockersShape DEF IsPlannedEndpoints

(* The protection of a workspace that was not looked at                     *)
LEMMA StaticNetworkRead ==
  ASSUME NEW d, NetworkDeclarable(d),
         NEW action \in {"unknown", "blocked"}, NEW bootstrap, bootstrap => action = "blocked"
  PROVE  IsPlannedNetwork(StaticNetwork(d, action, bootstrap))
<1> DEFINE wanted == ByName(d.endpoints)
           endpoints == [i \in DOMAIN wanted |-> StaticEndpoint(wanted[i], action, bootstrap)]
           n == StaticNetwork(d, action, bootstrap)
<1>1. \A k \in DOMAIN wanted : wanted[k] \in d.endpoints
  BY ByNameIsThere DEF NetworkDeclarable
<1> HIDE DEF wanted
<1>2. DOMAIN endpoints = DOMAIN wanted
  OBVIOUS
<1>3. ASSUME NEW k \in DOMAIN wanted
      PROVE  /\ endpoints[k].name = wanted[k].name /\ IsPlannedEndpoint(endpoints[k])
             /\ endpoints[k].action = action
  <2>1. endpoints[k] = StaticEndpoint(wanted[k], action, bootstrap) /\ wanted[k].state \in {"present", "absent"}
    BY <1>1 DEF NetworkDeclarable
  <2> HIDE DEF endpoints
  <2>2. StaticEndpoint(wanted[k], action, bootstrap).action = action
    BY DEF StaticEndpoint, EndpointBase
  <2> QED BY <2>1, <2>2, StaticEndpointRead
<1>4. /\ n.workspace = d.workspace /\ n.policy = BlankPolicy(d, action) /\ n.endpoints = endpoints
      /\ n.firewall = (IF d.firewall = 0 THEN NoSurface ELSE BlankSurface(d.firewall, action))
      /\ n.rules = (IF d.rules = 0 THEN NoSurface ELSE BlankSurface(d.rules, action))
      /\ n.shares = BlankShares(d.shares, IF d.shares = "none" THEN "none" ELSE action)
  BY DEF StaticNetwork, wanted
<1> HIDE DEF n, endpoints
<1>5. IsPlannedEndpoints(n.endpoints)
  BY <1>2, <1>3, <1>4, EndpointsRead DEF wanted
<1>6. IsPlannedPolicy(n.policy) /\ n.policy.blockers = <<>> /\ n.policy.desired = Policy(d) /\ n.policy.action = action
  BY <1>4, BlankPolicyRead
<1>7. IsPlannedFirewall(n.firewall) /\ (d.firewall = 2 => n.firewall # NoSurface /\ n.firewall.count > 0)
  BY <1>4, StaticSurfaceRead
<1>8. IsPlannedSurface(n.rules) /\ IsPlannedShares(n.shares)
  <2>1. IsPlannedShares(n.shares)
    BY <1>4, "Allow" # "none", SharesRead
  <2> QED BY <1>4, <2>1, StaticSurfaceRead
<1>9. Policy(d)[1] = "Deny" => d.firewall = 2
  BY DEF Policy, NetworkDeclarable, NetworkValid
<1>10. /\ n.policy.action \notin Discovered /\ ~IsPolicyBlock(n.policy)
       /\ \A k \in DOMAIN n.endpoints : n.endpoints[k].action \in Undiscovered
  BY <1>2, <1>3, <1>4, <1>6 DEF Discovered, Undiscovered, IsPolicyBlock
<1>11. IsPlannedNetwork(n)
  BY <1>5, <1>6, <1>7, <1>8, <1>9, <1>10 DEF IsPlannedNetwork
<1> QED BY <1>11 DEF n

(* and of one that was.                                                     *)
LEMMA PlanNetworkRead ==
  ASSUME NEW d, NetworkDeclarable(d), NEW there, NetworkAnswers(there),
         NEW workspace, workspace # 0 \/ d.workspace # 0
  PROVE  IsPlannedNetwork(PlanNetwork(d, there, workspace))
<1> DEFINE wanted == ByName(d.endpoints)
           endpoints == [i \in DOMAIN wanted |-> PlanEndpoint(wanted[i], there.endpoints)]
           n == PlanNetwork(d, there, workspace)
<1>1. CASE ~there.found
  <2>1. n = StaticNetwork(d, "blocked", FALSE)
    BY <1>1 DEF PlanNetwork
  <2> HIDE DEF n
  <2> QED BY <2>1, StaticNetworkRead DEF n
<1>2. CASE there.found
  <2>1. \A k \in DOMAIN wanted : wanted[k] \in d.endpoints
    BY ByNameIsThere DEF NetworkDeclarable
  <2>2. /\ n.workspace = (IF d.workspace = 0 THEN workspace ELSE d.workspace)
        /\ n.policy = PlanPolicy(d, there, endpoints) /\ n.endpoints = endpoints
        /\ n.firewall = PlanSurface(d.firewall, there.firewall) /\ n.rules = PlanRules(d, there)
        /\ n.shares = PlanShares(d.shares, there.shares)
    BY <1>2 DEF PlanNetwork
  <2> HIDE DEF wanted, n
  <2>3. DOMAIN endpoints = DOMAIN wanted
    OBVIOUS
  <2>4. ASSUME NEW k \in DOMAIN wanted
        PROVE  endpoints[k].name = wanted[k].name /\ IsPlannedEndpoint(endpoints[k])
    <3>1. endpoints[k] = PlanEndpoint(wanted[k], there.endpoints) /\ wanted[k].state \in {"present", "absent"}
      BY <2>1 DEF NetworkDeclarable
    <3> HIDE DEF endpoints
    <3> QED BY <3>1, EndpointRead, EndpointShape DEF NetworkAnswers
  <2> HIDE DEF endpoints
  <2>5. IsPlannedEndpoints(n.endpoints) /\ Ascending(Blockers(endpoints))
    BY <2>2, <2>3, <2>4, EndpointsRead DEF wanted
  <2>6. /\ IsPlannedPolicy(n.policy) /\ n.policy.blockers \in {<<>>, Blockers(n.endpoints)}
        /\ n.policy.desired = Policy(d)
    BY <2>2, <2>5, PolicyRead
  <2>7. IsPlannedFirewall(n.firewall) /\ (d.firewall = 2 => n.firewall # NoSurface /\ n.firewall.count > 0)
    BY <2>2, SurfaceRead DEF NetworkAnswers
  <2>8. IsPlannedSurface(n.rules) /\ IsPlannedShares(n.shares)
    <3>1. IsPlannedShares(n.shares)
      BY <2>2, "blocked" = "blocked", SharesRead DEF NetworkAnswers
    <3> QED BY <2>2, <3>1, RulesRead
  <2>9. Policy(d)[1] = "Deny" => d.firewall = 2
    BY DEF Policy, NetworkDeclarable, NetworkValid
  <2>10. n.workspace # 0
    BY <2>2
  <2>11. IsPlannedNetwork(n)
    BY <2>5, <2>6, <2>7, <2>8, <2>9, <2>10 DEF IsPlannedNetwork
  <2> QED BY <2>11 DEF n
<1> QED BY <1>1, <1>2

-----------------------------------------------------------------------------
(* The plan.  What it says of the items is of the items declared, in their  *)
(* stages; before Fabric was looked at, and without a workspace, nothing is *)
(* to be written.                                                           *)
PlanFacts ==
  /\ plan.stages = Stages(declared.items) /\ Acyclic(plan.stages)
  /\ \A p \in plan.items : \E i \in declared.items : About(p, i)
  /\ (\A p \in plan.items : Unsafe(p)) \/ plan.items = PlanItems(declared.items, seen.items)
  /\ \A n \in plan.network : ClosesOnApproved(n) /\ DeletesDeclared(n, seen.network.endpoints)
(* And the reader can take it, part by part: the items and the gateways but *)
(* for what WrittenIsAccepted names, all the rest.                          *)
ReadFacts ==
  /\ \A p \in plan.identity : IsPlannedIdentity(p)
  /\ \A n \in plan.network : IsPlannedNetwork(n)
  /\ ItemsRead(declared.items, plan.items)
  /\ IsPlannedGateways(plan.gateways) <=> ~Shared(plan.gateways)
  /\ {g.like : g \in plan.gateways} = {g.like : g \in declared.gateways}
ArtifactInv ==
  /\ \E c \in Cases : declared = c.declared /\ seen = c.seen
  /\ stage \in {"loaded", "offline", "planned", "accepted", "refused"} => ManifestValid
  /\ stage = "offline" => plan = OfflinePlan
  /\ stage \in {"offline", "planned", "accepted", "refused"} => PlanFacts /\ ReadFacts
  /\ stage = "accepted" => IsDeploymentPlan
  /\ stage = "refused" => ~IsDeploymentPlan

(* What a valid manifest declares is what the lemmas ask for.               *)
LEMMA DeclaredIsDeclarable ==
  ASSUME ArtifactInv, ManifestValid
  PROVE  /\ Declarable(declared.items, seen.items)
         /\ \A d \in declared.network : IsFiniteSet(d.endpoints) /\ \A e \in d.endpoints : e.name \in Nat
<1>1. PICK c \in Cases : declared = c.declared /\ seen = c.seen
  BY DEF ArtifactInv
<1> QED BY <1>1, CasesAssumption DEF ManifestValid, Declarable, Seen

(* What a valid manifest declares of the rest, and what the adapters answer.*)
LEMMA RestIsDeclarable ==
  ASSUME ArtifactInv, ManifestValid
  PROVE  /\ \A d \in declared.network : NetworkDeclarable(d)
         /\ NetworkAnswers(seen.network)
         /\ \A r \in declared.roles : seen.roles[r] \in {"absent", "same", "differs"}
         /\ GatewaysValid(declared.gateways) /\ \A l \in seen.gateways : l.id # 0
         /\ \A g \in declared.gateways : g.state \in {"present", "absent"} /\ (g.state = "absent" => g.id # 0)
<1>1. PICK c \in Cases : declared = c.declared /\ seen = c.seen
  BY DEF ArtifactInv
<1>2. GatewaysValid(declared.gateways) /\ \A d \in declared.network : NetworkValid(d)
  BY DEF ManifestValid
<1>3. \A g \in declared.gateways : g.state = "absent" => g.id # 0
  BY <1>2 DEF GatewaysValid
<1>4. seen.network.shares # "none" /\ seen.network.firewall # 0 /\ \A l \in seen.network.endpoints : l.id # 0
  BY <1>1, CasesAssumption
<1>5. /\ \A r \in declared.roles : seen.roles[r] \in {"absent", "same", "differs"}
      /\ \A l \in seen.gateways : l.id # 0
      /\ \A g \in declared.gateways : g.state \in {"present", "absent"}
  BY <1>1, CasesAssumption
<1>6. \A d \in declared.network :
         IsFiniteSet(d.endpoints) /\ \A e \in d.endpoints : e.name \in Nat /\ e.state \in {"present", "absent"}
  BY <1>1, CasesAssumption
<1> QED BY <1>2, <1>3, <1>4, <1>5, <1>6 DEF NetworkDeclarable, NetworkAnswers

(* The gateways, before and after a look at Fabric.                         *)
LEMMA AllGatewaysRead ==
  ASSUME ArtifactInv, ManifestValid, NEW planned,
         \/ \A p : p \in planned <=> \E g \in declared.gateways : p = OfflineGateway(g)
         \/ \A p : p \in planned <=> \E g \in declared.gateways : p = PlanGateway(g, seen.gateways)
  PROVE  /\ IsPlannedGateways(planned) <=> ~Shared(planned)
         /\ \A x : (\E p \in planned : p.like = x) <=> \E g \in declared.gateways : g.like = x
<1>1. /\ GatewaysValid(declared.gateways) /\ \A l \in seen.gateways : l.id # 0
      /\ \A g \in declared.gateways : g.state \in {"present", "absent"} /\ (g.state = "absent" => g.id # 0)
  BY RestIsDeclarable
<1>2. /\ \A p \in planned : GatewayRead(p) /\ \E g \in declared.gateways : Kept(p, g)
      /\ \A g \in declared.gateways : \E p \in planned : Kept(p, g)
      /\ \A p, q \in planned : \A g \in declared.gateways : Kept(p, g) /\ Kept(q, g) => p = q
  <2>1. ASSUME NEW f, DOMAIN f = declared.gateways, \A g \in declared.gateways : Kept(f[g], g) /\ GatewayRead(f[g]),
               planned = {f[g] : g \in declared.gateways}
        PROVE  /\ \A p \in planned : GatewayRead(p) /\ \E g \in declared.gateways : Kept(p, g)
               /\ \A g \in declared.gateways : \E p \in planned : Kept(p, g)
               /\ \A p, q \in planned : \A g \in declared.gateways : Kept(p, g) /\ Kept(q, g) => p = q
    <3>1. \A g, h, i \in declared.gateways : Kept(f[g], i) /\ Kept(f[h], i) => g = i /\ h = i
      BY <1>1, <2>1 DEF Kept, GatewaysValid, Distinct
    <3> QED BY <2>1, <3>1
  <2>2. CASE \A p : p \in planned <=> \E g \in declared.gateways : p = OfflineGateway(g)
    <3> DEFINE f == [g \in declared.gateways |-> OfflineGateway(g)]
    <3>1. DOMAIN f = declared.gateways /\ \A g \in declared.gateways : f[g] = OfflineGateway(g)
      OBVIOUS
    <3> HIDE DEF f
    <3>2. planned = {f[g] : g \in declared.gateways}
      BY <2>2, <3>1
    <3> QED BY <2>1, <3>1, <3>2, <1>1, GatewayShape
  <2>3. CASE \A p : p \in planned <=> \E g \in declared.gateways : p = PlanGateway(g, seen.gateways)
    <3> DEFINE f == [g \in declared.gateways |-> PlanGateway(g, seen.gateways)]
    <3>1. DOMAIN f = declared.gateways /\ \A g \in declared.gateways : f[g] = PlanGateway(g, seen.gateways)
      OBVIOUS
    <3> HIDE DEF f
    <3>2. planned = {f[g] : g \in declared.gateways}
      BY <2>3, <3>1
    <3> QED BY <2>1, <3>1, <3>2, <1>1, LiveGatewayShape
  <2> QED BY <2>2, <2>3
<1>3. \A p, q \in planned : p.logicalId = q.logicalId \/ p.name = q.name => p = q
  <2> SUFFICES ASSUME NEW p \in planned, NEW q \in planned, p.logicalId = q.logicalId \/ p.name = q.name PROVE p = q
    OBVIOUS
  <2>1. PICK g \in declared.gateways, h \in declared.gateways : Kept(p, g) /\ Kept(q, h)
    BY <1>2
  <2>2. g = h
    BY <1>1, <2>1 DEF Kept, GatewaysValid, Distinct
  <2> QED BY <1>2, <2>1, <2>2
<1>4. \A x : (\E p \in planned : p.like = x) <=> \E g \in declared.gateways : g.like = x
  BY <1>2 DEF Kept
<1> QED BY <1>2, <1>3, <1>4, GatewaysRead

(* buildPlan.                                                               *)
LEMMA OfflineFacts ==
  ASSUME ArtifactInv, BuildPlan, stage' = "offline"
  PROVE  plan' = OfflinePlan /\ PlanFacts'
<1>1. plan' = OfflinePlan /\ Acyclic(Stages(declared.items)) /\ UNCHANGED <<declared, seen>>
  BY DEF BuildPlan
<1>2. /\ plan'.stages = Stages(declared.items) /\ plan'.items = {OfflineItem(i) : i \in declared.items}
      /\ plan'.network = {StaticNetwork(d, "unknown", FALSE) : d \in declared.network}
  BY <1>1 DEF OfflinePlan
<1>3. \A p \in plan'.items : Unsafe(p) /\ \E i \in declared.items : About(p, i)
  BY <1>2, OfflineShape
<1>4. \A n \in plan'.network : ClosesOnApproved(n) /\ DeletesDeclared(n, seen.network.endpoints)
  <2>1. ASSUME NEW d PROVE LET n == StaticNetwork(d, "unknown", FALSE)
                           IN  ClosesOnApproved(n) /\ DeletesDeclared(n, seen.network.endpoints)
    BY StaticShape
  <2> QED BY <1>2, <2>1
<1> QED BY <1>1, <1>2, <1>3, <1>4 DEF PlanFacts

(* enrichPlanWithFabric, with a workspace and without one.                  *)
LEMMA EnrichedFacts ==
  ASSUME ArtifactInv, EnrichPlan, stage' = "planned"
  PROVE  PlanFacts'
<1>1. plan = OfflinePlan /\ PlanFacts /\ ManifestValid /\ UNCHANGED <<declared, seen>>
  BY DEF ArtifactInv, EnrichPlan
<1>2. DOMAIN plan = {"workspaceId", "workspace", "identity", "gateways", "network", "stages", "items"}
  BY <1>1 DEF OfflinePlan
<1>3. /\ Declarable(declared.items, seen.items)
      /\ \A d \in declared.network : IsFiniteSet(d.endpoints) /\ \A e \in d.endpoints : e.name \in Nat
  BY <1>1, DeclaredIsDeclarable
<1>4. DOMAIN LivePlan = DOMAIN plan /\ LivePlan.stages = plan.stages
  BY <1>2 DEF LivePlan
<1>5. ASSUME NEW d \in declared.network, NEW workspace
      PROVE  LET n == PlanNetwork(d, seen.network, workspace)
             IN  ClosesOnApproved(n) /\ DeletesDeclared(n, seen.network.endpoints)
  BY <1>3, NetworkShape
<1>6. CASE plan' = WithoutWorkspace
  <2>1. /\ WithoutWorkspace.stages = plan.stages
        /\ WithoutWorkspace.items = {BlockUntilWorkspaceExists(p) : p \in plan.items}
        /\ WithoutWorkspace.network =
             {IF d.workspace = 0 THEN StaticNetwork(d, "blocked", TRUE)
              ELSE PlanNetwork(d, seen.network, d.workspace) : d \in declared.network}
    BY <1>2, <1>4 DEF WithoutWorkspace
  <2>2. \A p \in plan'.items : Unsafe(p) /\ \E i \in declared.items : About(p, i)
    BY <1>1, <1>6, <2>1, BlockedShape DEF PlanFacts
  <2>3. ASSUME NEW d PROVE LET n == StaticNetwork(d, "blocked", TRUE)
                           IN  ClosesOnApproved(n) /\ DeletesDeclared(n, seen.network.endpoints)
    BY StaticShape
  <2>4. \A n \in plan'.network : ClosesOnApproved(n) /\ DeletesDeclared(n, seen.network.endpoints)
    BY <1>5, <1>6, <2>1, <2>3
  <2> QED BY <1>1, <1>6, <2>1, <2>2, <2>4 DEF PlanFacts
<1>7. CASE plan' = WithWorkspace
  <2>1. /\ WithWorkspace.stages = plan.stages
        /\ WithWorkspace.items = PlanItems(declared.items, seen.items)
        /\ WithWorkspace.network = {PlanNetwork(d, seen.network, Workspace) : d \in declared.network}
    BY <1>2, <1>4 DEF WithWorkspace
  <2>2. \A p \in plan'.items : \E i \in declared.items : About(p, i)
    BY <1>3, <1>7, <2>1, PlannedShape
  <2>3. \A n \in plan'.network : ClosesOnApproved(n) /\ DeletesDeclared(n, seen.network.endpoints)
    BY <1>5, <1>7, <2>1
  <2> QED BY <1>1, <1>7, <2>1, <2>2, <2>3 DEF PlanFacts
<1> QED BY <1>6, <1>7 DEF EnrichPlan

(* buildPlan, read at once.                                                 *)
LEMMA OfflineRead ==
  ASSUME ArtifactInv, ManifestValid, plan' = OfflinePlan, UNCHANGED <<declared, seen>>
  PROVE  ReadFacts'
<1>1. /\ plan'.identity = (IF declared.identity THEN {OfflineIdentity(declared.roles, OfflineWorkspace)} ELSE {})
      /\ plan'.gateways = {OfflineGateway(g) : g \in declared.gateways}
      /\ plan'.network = {StaticNetwork(d, "unknown", FALSE) : d \in declared.network}
      /\ plan'.items = {OfflineItem(i) : i \in declared.items}
  BY DEF OfflinePlan
<1>2. \A p \in plan'.identity : IsPlannedIdentity(p)
  BY <1>1, UnlookedIdentityRead
<1>3. \A n \in plan'.network : IsPlannedNetwork(n)
  <2>1. ASSUME NEW d \in declared.network PROVE IsPlannedNetwork(StaticNetwork(d, "unknown", FALSE))
    BY RestIsDeclarable, StaticNetworkRead
  <2> QED BY <1>1, <2>1
<1>4. ItemsRead(declared.items, plan'.items)
  BY <1>1, DeclaredIsDeclarable, UnplannedRead
<1>5. /\ IsPlannedGateways(plan'.gateways) <=> ~Shared(plan'.gateways)
      /\ {g.like : g \in plan'.gateways} = {g.like : g \in declared.gateways}
  <2> DEFINE planned == plan'.gateways
  <2>1. \A p : p \in planned <=> \E g \in declared.gateways : p = OfflineGateway(g)
    BY <1>1
  <2>2. /\ GatewaysValid(declared.gateways) /\ \A l \in seen.gateways : l.id # 0
        /\ \A g \in declared.gateways : g.state \in {"present", "absent"} /\ (g.state = "absent" => g.id # 0)
    BY RestIsDeclarable
  <2> HIDE DEF planned
  <2>3. /\ IsPlannedGateways(planned) <=> ~Shared(planned)
        /\ \A x : (\E p \in planned : p.like = x) <=> \E g \in declared.gateways : g.like = x
    BY <1>1, <2>1, AllGatewaysRead
  <2> QED BY <2>3 DEF planned
<1> QED BY <1>2, <1>3, <1>4, <1>5 DEF ReadFacts

(* enrichPlanWithFabric, part by part.                                      *)
LEMMA EnrichedParts ==
  ASSUME plan = OfflinePlan
  PROVE  /\ WithoutWorkspace.gateways = {PlanGateway(g, seen.gateways) : g \in declared.gateways}
         /\ WithoutWorkspace.identity = {BlockedIdentity(p) : p \in plan.identity}
         /\ WithoutWorkspace.network =
              {IF d.workspace = 0 THEN StaticNetwork(d, "blocked", TRUE)
               ELSE PlanNetwork(d, seen.network, d.workspace) : d \in declared.network}
         /\ WithoutWorkspace.items = {BlockUntilWorkspaceExists(p) : p \in plan.items}
         /\ WithWorkspace.gateways = {PlanGateway(g, seen.gateways) : g \in declared.gateways}
         /\ WithWorkspace.identity =
              (IF declared.identity
               THEN {PlanIdentity(declared.roles, Workspace, seen.identity, seen.roles)} ELSE {})
         /\ WithWorkspace.network = {PlanNetwork(d, seen.network, Workspace) : d \in declared.network}
         /\ WithWorkspace.items = PlanItems(declared.items, seen.items)
<1>1. DOMAIN plan = {"workspaceId", "workspace", "identity", "gateways", "network", "stages", "items"}
  BY DEF OfflinePlan
<1>2. DOMAIN LivePlan = DOMAIN plan /\ LivePlan.gateways = {PlanGateway(g, seen.gateways) : g \in declared.gateways}
  BY <1>1 DEF LivePlan
<1>3. /\ WithoutWorkspace.gateways = LivePlan.gateways
      /\ WithoutWorkspace.identity = {BlockedIdentity(p) : p \in plan.identity}
      /\ WithoutWorkspace.network =
           {IF d.workspace = 0 THEN StaticNetwork(d, "blocked", TRUE)
            ELSE PlanNetwork(d, seen.network, d.workspace) : d \in declared.network}
      /\ WithoutWorkspace.items = {BlockUntilWorkspaceExists(p) : p \in plan.items}
  BY <1>1, <1>2 DEF WithoutWorkspace
<1>4. /\ WithWorkspace.gateways = LivePlan.gateways
      /\ WithWorkspace.identity =
           (IF declared.identity
            THEN {PlanIdentity(declared.roles, Workspace, seen.identity, seen.roles)} ELSE {})
      /\ WithWorkspace.network = {PlanNetwork(d, seen.network, Workspace) : d \in declared.network}
      /\ WithWorkspace.items = PlanItems(declared.items, seen.items)
  BY <1>1, <1>2 DEF WithWorkspace
<1> QED BY <1>2, <1>3, <1>4

(* With a workspace or without one, the reader can take what is planned.    *)
LEMMA EnrichedRead ==
  ASSUME ArtifactInv, EnrichPlan, stage' = "planned"
  PROVE  ReadFacts'
<1>1. plan = OfflinePlan /\ ManifestValid /\ UNCHANGED <<declared, seen>>
  BY DEF ArtifactInv, EnrichPlan
<1>2. plan' \in {WithoutWorkspace, WithWorkspace}
  BY DEF EnrichPlan
<1>3. /\ IsPlannedGateways(plan'.gateways) <=> ~Shared(plan'.gateways)
      /\ {g.like : g \in plan'.gateways} = {g.like : g \in declared.gateways}
  <2> DEFINE planned == plan'.gateways
  <2>1. \A p : p \in planned <=> \E g \in declared.gateways : p = PlanGateway(g, seen.gateways)
    BY <1>1, <1>2, EnrichedParts
  <2>2. /\ GatewaysValid(declared.gateways) /\ \A l \in seen.gateways : l.id # 0
        /\ \A g \in declared.gateways : g.state \in {"present", "absent"} /\ (g.state = "absent" => g.id # 0)
    BY <1>1, RestIsDeclarable
  <2> HIDE DEF planned
  <2>3. /\ IsPlannedGateways(planned) <=> ~Shared(planned)
        /\ \A x : (\E p \in planned : p.like = x) <=> \E g \in declared.gateways : g.like = x
    BY <1>1, <2>1, AllGatewaysRead
  <2> QED BY <2>3 DEF planned
<1>4. CASE plan' = WithoutWorkspace
  <2>1. \A p \in plan'.identity : IsPlannedIdentity(p)
    <3>1. \A p \in plan.identity : p = OfflineIdentity(declared.roles, OfflineWorkspace)
      BY <1>1 DEF OfflinePlan
    <3> QED BY <1>1, <1>4, <3>1, EnrichedParts, UnlookedIdentityRead
  <2>2. \A n \in plan'.network : IsPlannedNetwork(n)
    <3>1. ASSUME NEW d \in declared.network
          PROVE  /\ IsPlannedNetwork(StaticNetwork(d, "blocked", TRUE))
                 /\ d.workspace # 0 => IsPlannedNetwork(PlanNetwork(d, seen.network, d.workspace))
      BY <1>1, RestIsDeclarable, StaticNetworkRead, PlanNetworkRead
    <3> QED BY <1>1, <1>4, <3>1, EnrichedParts
  <2>3. ItemsRead(declared.items, plan'.items)
    <3>1. plan.items = {OfflineItem(i) : i \in declared.items}
      BY <1>1 DEF OfflinePlan
    <3>2. plan'.items = {BlockUntilWorkspaceExists(OfflineItem(i)) : i \in declared.items}
      BY <1>1, <1>4, <3>1, EnrichedParts
    <3> QED BY <1>1, <3>2, DeclaredIsDeclarable, UnplannedRead
  <2> QED BY <1>1, <1>3, <2>1, <2>2, <2>3 DEF ReadFacts
<1>5. CASE plan' = WithWorkspace /\ ~Throws
  <2>1. \A p \in plan'.identity : IsPlannedIdentity(p)
    <3>1. declared.identity => ~DuplicateRole(declared.roles, Workspace)
      BY <1>5 DEF Throws
    <3> QED BY <1>1, <1>5, <3>1, EnrichedParts, RestIsDeclarable, IdentityRead
  <2>2. \A n \in plan'.network : IsPlannedNetwork(n)
    <3>1. Workspace # 0
      BY DEF Workspace, Given, Found
    <3>2. ASSUME NEW d \in declared.network PROVE IsPlannedNetwork(PlanNetwork(d, seen.network, Workspace))
      BY <1>1, <3>1, RestIsDeclarable, PlanNetworkRead
    <3> QED BY <1>1, <1>5, <3>2, EnrichedParts
  <2>3. ItemsRead(declared.items, plan'.items)
    <3>1. plan'.items = PlanItems(declared.items, seen.items)
      BY <1>1, <1>5, EnrichedParts
    <3>2. \A p \in plan'.items : p.action # "throws"
      BY <1>5 DEF Throws
    <3> QED BY <1>1, <3>1, <3>2, DeclaredIsDeclarable, PlannedRead
  <2> QED BY <1>1, <1>3, <2>1, <2>2, <2>3 DEF ReadFacts
<1> QED BY <1>4, <1>5 DEF EnrichPlan

(* The facts hold from the manifest to the plan that is accepted.           *)
LEMMA ArtifactInit == PlanInit => ArtifactInv
BY DEF PlanInit, ArtifactInv

(* Every step from the manifest to the accepted plan keeps them.            *)
LEMMA ArtifactNext ==
  ASSUME ArtifactInv, PlanNext
  PROVE  ArtifactInv'
<1>1. UNCHANGED <<declared, seen>>
  BY DEF PlanNext, LoadPlanned, BuildPlan, EnrichPlan, LoadApprovedPlan
<1>2. (\E c \in Cases : declared = c.declared /\ seen = c.seen)'
  BY <1>1 DEF ArtifactInv
<1>3. ManifestValid' = ManifestValid
  BY <1>1 DEF ManifestValid, DeclaredWorkspace
<1>4. CASE LoadPlanned
  BY <1>2, <1>3, <1>4 DEF LoadPlanned, ArtifactInv
<1>5. CASE BuildPlan
  <2>1. CASE stage' = "offline"
    <3>1. OfflinePlan' = OfflinePlan
      BY <1>1 DEF OfflinePlan, OfflineWorkspace
    <3>2. plan' = OfflinePlan /\ PlanFacts' /\ ManifestValid
      BY <1>5, <2>1, OfflineFacts DEF BuildPlan, ArtifactInv
    <3>3. ReadFacts'
      BY <1>1, <3>2, OfflineRead
    <3> QED BY <1>2, <1>3, <2>1, <3>1, <3>2, <3>3 DEF ArtifactInv
  <2>2. CASE stage' # "offline"
    BY <1>2, <1>5, <2>2 DEF BuildPlan, ArtifactInv
  <2> QED BY <2>1, <2>2
<1>6. CASE EnrichPlan
  BY <1>2, <1>3, <1>6, EnrichedFacts, EnrichedRead DEF EnrichPlan, ArtifactInv
<1>7. CASE LoadApprovedPlan
  <2>1. stage \in {"offline", "planned"} /\ stage' \in {"accepted", "refused"} /\ UNCHANGED plan
    BY <1>7 DEF LoadApprovedPlan
  <2>2. PlanFacts' /\ ReadFacts'
    BY <1>1, <2>1 DEF ArtifactInv, PlanFacts, ReadFacts
  <2>3. IsDeploymentPlan' = IsDeploymentPlan
    BY <2>1 DEF IsDeploymentPlan
  <2>4. stage' = IF IsDeploymentPlan THEN "accepted" ELSE "refused"
    BY <1>7 DEF LoadApprovedPlan
  <2>5. ManifestValid'
    BY <1>3, <2>1 DEF ArtifactInv
  <2> QED BY <1>2, <2>1, <2>2, <2>3, <2>4, <2>5 DEF ArtifactInv
<1> QED BY <1>4, <1>5, <1>6, <1>7 DEF PlanNext

(* What follows.                                                            *)
LEMMA StagesInOrder ==
  ASSUME ArtifactInv, ManifestValid, PlanFacts
  PROVE  StagesRespectDependencies
<1>1. Declarable(declared.items, seen.items)
  BY DeclaredIsDeclarable
<1> SUFFICES ASSUME NEW p \in plan.items, NEW q \in plan.items
             PROVE  /\ q.id \in p.deps /\ p.state = q.state =>
                         IF Present(p) THEN Comes(q.id, p.id) ELSE Comes(p.id, q.id)
                    /\ Present(q) /\ ~Present(p) => Comes(q.id, p.id)
  BY DEF StagesRespectDependencies
<1>2. PICK i \in declared.items : About(p, i)
  BY DEF PlanFacts
<1>3. PICK j \in declared.items : About(q, j)
  BY DEF PlanFacts
<1>4. /\ p.id = i.id /\ p.state = i.state /\ p.deps = i.deps /\ q.id = j.id /\ q.state = j.state
      /\ i.state \in {"present", "absent"} /\ j.state \in {"present", "absent"}
      /\ ById(declared.items, i.id) = i
  BY <1>1, <1>2, <1>3, FoundById DEF About, Declarable
<1>5. \A early, late : ComesIn(Stages(declared.items), early, late) = Comes(early, late)
  BY DEF ComesIn, Comes, PlanFacts
<1>6. IsFiniteSet(declared.items) /\ Acyclic(Stages(declared.items))
  BY <1>1 DEF Declarable, PlanFacts
<1>7. /\ j.state = "present" /\ i.state = "absent" => Comes(j.id, i.id)
      /\ i.state = "present" /\ j.state = "present" /\ j.id \in i.deps => Comes(j.id, i.id)
      /\ i.state = "absent" /\ j.state = "absent" /\ j.id \in i.deps => Comes(i.id, j.id)
  BY <1>4, <1>5, <1>6, StagesOrdered
<1> QED BY <1>4, <1>7 DEF Present

(* What is to be written stands on safe ground.                             *)
LEMMA WritesSafely ==
  ASSUME ArtifactInv, ManifestValid, PlanFacts
  PROVE  WritesOnSafeGround
<1>1. Declarable(declared.items, seen.items)
  BY DeclaredIsDeclarable
<1> SUFFICES ASSUME NEW i \in declared.items, NEW p \in plan.items,
                    p.id = i.id, Present(p), p.action \in {"create", "update"}
             PROVE  /\ \A q \in plan.items : q.id = i.target => q.action \notin {"blocked", "unknown"}
                    /\ \A k \in DOMAIN p.tables.operations : p.tables.operations[k].action \in {"create", "no-op"}
                    /\ \A k \in DOMAIN p.artifacts.files : p.artifacts.files[k].action # "blocked"
  BY DEF WritesOnSafeGround
<1>2. plan.items = PlanItems(declared.items, seen.items)
  BY DEF PlanFacts, Unsafe
<1>3. Harmless(p)
  BY <1>1, <1>2, PlannedShape
<1>4. \A q \in plan.items : q.id = i.target => q.action \notin {"blocked", "unknown"}
  BY <1>1, <1>2, ItemsOnSafeGround DEF Present
<1> QED BY <1>3, <1>4 DEF Harmless, Writes

(* What the reader refuses.                                                 *)
LEMMA WhatIsRefused ==
  ASSUME ArtifactInv, ManifestValid, PlanFacts, ReadFacts
  PROVE  IsDeploymentPlan <=> ~(SharedGateway \/ CaseOnlyApart \/ LargeArtifact)
<1>1. Declarable(declared.items, seen.items) /\ plan.stages = Stages(declared.items) /\ Acyclic(Stages(declared.items))
  BY DeclaredIsDeclarable DEF PlanFacts
<1>2. /\ IsPlannedItems(plan.items, plan.stages) <=> ~LargeArtifact
      /\ Ids(plan.items) = Ids(declared.items)
  BY <1>1, ItemsAreRead DEF ReadFacts, LargeArtifact, Large
<1>3. IsPlannedGateways(plan.gateways) <=> ~SharedGateway
  BY DEF ReadFacts, Shared, SharedGateway
<1>4. (\A g \in plan.gateways : ~\E p \in plan.items : p.id = g.like) <=> ~CaseOnlyApart
  <2>1. (\E g \in plan.gateways : \E p \in plan.items : p.id = g.like)
          <=> \E x \in {g.like : g \in plan.gateways} : x \in Ids(plan.items)
    BY DEF Ids
  <2>2. CaseOnlyApart <=> \E x \in {g.like : g \in declared.gateways} : x \in Ids(declared.items)
    BY DEF CaseOnlyApart
  <2>3. {g.like : g \in plan.gateways} = {g.like : g \in declared.gateways}
    BY DEF ReadFacts
  <2> QED BY <1>2, <2>1, <2>2, <2>3
<1>5. (\A p \in plan.identity : IsPlannedIdentity(p)) /\ \A n \in plan.network : IsPlannedNetwork(n)
  BY DEF ReadFacts
<1> QED BY <1>2, <1>3, <1>4, <1>5 DEF IsDeploymentPlan

(* And all of it.                                                           *)
LEMMA ArtifactIsCautious == ArtifactInv => PlanIsCautious
<1> SUFFICES ASSUME ArtifactInv, stage \in {"planned", "accepted"}
             PROVE  StagesRespectDependencies /\ WritesOnSafeGround /\ NetworkIsCautious
  BY DEF PlanIsCautious
<1>1. ManifestValid /\ PlanFacts
  BY DEF ArtifactInv
<1>2. NetworkIsCautious
  BY <1>1 DEF PlanFacts, ClosesOnApproved, DeletesDeclared, NetworkIsCautious
<1> QED BY <1>1, <1>2, StagesInOrder, WritesSafely

-----------------------------------------------------------------------------
(* The approval: the steps of a run that applies.                           *)
Applying == {"identity", "recover", "verify", "items", "write item", "verify item", "succeed"}
Preflighted == Applying \ {"identity"}

(* Types, as far as the argument needs them.                                *)
ShapeInv ==
  /\ at \in Items /\ reverted \in BOOLEAN /\ manifest \in {1, 2} /\ mode \in {"plan", "apply"}
  /\ dir \in [Items -> Revisions] /\ between \in [Items -> Revisions] /\ loaded \in Reads
  /\ live = [i \in Items |-> live[i]] /\ completedAs = [i \in Items |-> completedAs[i]]
  /\ checkpoint = [plan |-> checkpoint.plan, done |-> checkpoint.done, pending |-> checkpoint.pending]
  /\ checkpoint.done \subseteq Items
  /\ approvedFile = [text |-> approvedFile.text, hash |-> approvedFile.hash]
  /\ resultFile = [plan |-> resultFile.plan, status |-> resultFile.status]

(* A run that applies holds the plan the hash stands for, and so does its   *)
(* checkpoint; the result file is in its hands.                             *)
BoundInv ==
  /\ pc \in Applying => mode = "apply"
  /\ pc # "idle" /\ mode = "apply" =>
       /\ approved = approvedFile.hash /\ checkpoint.plan = approved
       /\ resultFile = [plan |-> approved, status |-> "in_progress"]

(* The plan a run has made is of what it has loaded, and from the preflight *)
(* on the approved plan is of the same.                                     *)
Planned == \A i \in Items : current.items[i].content = ContentHash(i)
SourceInv ==
  /\ pc = "observe" /\ at # 1 =>
       Planned /\ current.items = [i \in Items |-> current.items[i]]
  /\ pc \in {"write plan"} \cup Applying => Planned
  /\ pc \in Preflighted => \A i \in Items : approved.items[i].content = ContentHash(i)

(* While no edit is taken back, revisions only grow: what is read before    *)
(* the moment between the two passes is not later, what is read after it is *)
(* not earlier, and when both readings agree nothing has moved.             *)
AfterHashing == {"metadata", "body", "recheck"}
GrowthInv ==
  /\ pc = "hash" => \A i \in Items : i < at => loaded.hash[i] <= dir[i]
  /\ pc \in AfterHashing => \A i \in Items : loaded.hash[i] <= between[i] /\ between[i] <= dir[i]
  /\ pc \in AfterHashing => \A i \in Items :
       i < at \/ pc # "metadata" => between[i] <= loaded.meta[i] /\ loaded.meta[i] <= dir[i]
  /\ pc \in {"body", "recheck"} => \A i \in Items :
       i < at \/ pc # "body" => between[i] <= loaded.body[i] /\ loaded.body[i] <= dir[i]
  /\ pc \in {"recheck", "observe", "write plan"} => \A i \in Items :
       i < at \/ pc # "recheck" => loaded.meta[i] = between[i] /\ loaded.body[i] = between[i]
SnapshotInv == (pc = "manifest" => at = 1) /\ (~reverted => GrowthInv)

-----------------------------------------------------------------------------
(* Loops.                                                                   *)

(* The items are numbers from 1.                                            *)
LEMMA Numbered == 1 \in Items /\ Items \subseteq Nat /\ \A i \in Items : i >= 1
<1>1. Cardinality(Items) \in Nat
  BY ApprovalAssumption, FS_CardinalityType
<1> QED BY <1>1, ApprovalAssumption

(* A loop visits every item before the run goes on.                         *)
LEMMA Looped ==
  ASSUME at \in Items, NEW again, NEW after, Loop(again, after)
  PROVE  /\ at' \in Items
         /\ \/ pc' = again /\ at' = at + 1 /\ at' # 1 /\ \A i \in Items : i < at' => i < at \/ i = at
            \/ pc' = after /\ at' = 1 /\ \A i \in Items : i < at \/ i = at
         /\ \A i \in Items : ~(i < 1)
<1>1. Cardinality(Items) \in Nat
  BY ApprovalAssumption, FS_CardinalityType
<1>2. at \in Nat /\ at >= 1
  BY Numbered
<1>3. CASE at + 1 \in Items
  BY <1>2, <1>3, Numbered DEF Loop, Goto
<1>4. CASE at + 1 \notin Items
  <2>1. at = Cardinality(Items)
    BY <1>1, <1>2, <1>4, ApprovalAssumption
  <2>2. \A i \in Items : i < at \/ i = at
    BY <1>1, <2>1, ApprovalAssumption
  <2> QED BY <1>4, <2>2, Numbered DEF Loop, Goto
<1> QED BY <1>3, <1>4

-----------------------------------------------------------------------------
(* Types.                                                                   *)

(* Types, of a first state.                                                 *)
LEMMA ShapeInit == ApprovalInit => ShapeInv
<1> SUFFICES ASSUME ApprovalInit PROVE ShapeInv OBVIOUS
<1>1. loaded \in Reads
  BY ApprovalAssumption DEF ApprovalInit, Nothing, Reads
<1>2. dir \in [Items -> Revisions] /\ between \in [Items -> Revisions]
  BY ApprovalAssumption DEF ApprovalInit, Revisions
<1>3. live = [i \in Items |-> live[i]] /\ completedAs = [i \in Items |-> completedAs[i]]
  BY DEF ApprovalInit
<1> QED BY <1>1, <1>2, <1>3, Numbered DEF ApprovalInit, ShapeInv, NoCheckpoint

(* And of every other.                                                      *)
LEMMA ShapeNext ==
  ASSUME ShapeInv, ApprovalNext
  PROVE  ShapeInv'
<1> USE ApprovalAssumption, Numbered
<1>1. ASSUME NEW again, NEW after, Loop(again, after) PROVE at' \in Items
  BY <1>1, Looped DEF ShapeInv
<1>2. dir[at] \in 0..MaxRevision
  BY DEF ShapeInv, Revisions
<1>3. CASE ReadManifest \/ HashItem \/ ReadMetadata \/ ReadBody
  <2>1. loaded' \in Reads
    <3>1. CASE ReadManifest
      <4>1. manifest \in 0..2
        BY DEF ShapeInv
      <4> QED BY <3>1, <4>1 DEF ReadManifest, Reads, ShapeInv
    <3>2. CASE HashItem
      BY <1>2, <3>2 DEF HashItem, Reads, ShapeInv
    <3>3. CASE ReadMetadata
      BY <1>2, <3>3 DEF ReadMetadata, Reads, ShapeInv
    <3>4. CASE ReadBody
      BY <1>2, <3>4 DEF ReadBody, Reads, ShapeInv
    <3> QED BY <1>3, <3>1, <3>2, <3>3, <3>4
  <2>2. at' \in Items
    BY <1>1, <1>3 DEF ReadManifest, HashItem, ReadMetadata, ReadBody, ShapeInv
  <2>3. between' \in [Items -> Revisions]
    BY <1>3 DEF ReadManifest, HashItem, ReadMetadata, ReadBody, ShapeInv
  <2> QED BY <1>3, <2>1, <2>2, <2>3
    DEF ReadManifest, HashItem, ReadMetadata, ReadBody, ReadsSources, ShapeInv, files, sourceVars
<1>4. CASE RecheckItem \/ ObserveItem \/ WritePlan
  BY <1>1, <1>4 DEF RecheckItem, ObserveItem, WritePlan, files, sourceVars, memory, historyVars,
     ShapeInv, Throw, Settled
<1>5. CASE StartPlan \/ StartApply
  <2>1. Nothing \in Reads
    BY DEF Nothing, Reads
  <2> QED BY <1>5, <2>1 DEF StartPlan, StartApply, files, sourceVars, historyVars, ShapeInv
<1>6. CASE Approve \/ DiscardCheckpoint \/ ReplaceText
  BY <1>6 DEF Approve, DiscardCheckpoint, ReplaceText, OnlyFiles, NoCheckpoint, sourceVars, memory,
     historyVars, ShapeInv
<1>7. CASE PreflightApproved \/ VerifyCompleted
  BY <1>1, <1>7 DEF PreflightApproved, VerifyCompleted, Applies, sourceVars, ShapeInv, Throw, Settled
<1>8. CASE RecoverItem \/ VerifyWritten
  <2>1. at' \in Items
    BY <1>1, <1>8 DEF RecoverItem, VerifyWritten, ShapeInv, Throw
  <2>2. live' = [i \in Items |-> live'[i]]
    BY <1>8 DEF RecoverItem, VerifyWritten, ShapeInv
  <2>3. /\ completedAs' = [i \in Items |-> completedAs'[i]] /\ checkpoint'.done \subseteq Items
        /\ checkpoint' = [plan |-> checkpoint'.plan, done |-> checkpoint'.done, pending |-> checkpoint'.pending]
    <3>1. CASE UNCHANGED <<checkpoint, completedAs>>
      BY <3>1 DEF ShapeInv
    <3>2. CASE Complete(at)
      BY <3>2 DEF Complete, ShapeInv
    <3> QED BY <1>8, <3>1, <3>2 DEF RecoverItem, VerifyWritten
  <2>4. resultFile' = [plan |-> resultFile'.plan, status |-> resultFile'.status]
    BY <1>8 DEF RecoverItem, VerifyWritten, ShapeInv, Throw, Settled
  <2>5. UNCHANGED <<manifest, dir, mode, loaded, approvedFile, between, reverted>>
    BY <1>8 DEF RecoverItem, VerifyWritten, Applies, sourceVars
  <2> QED BY <2>1, <2>2, <2>3, <2>4, <2>5 DEF ShapeInv
<1>9. CASE BeginItem \/ WriteItem \/ Succeed
  BY <1>1, <1>9 DEF BeginItem, WriteItem, Succeed, Applies, sourceVars, ShapeInv, Throw, Settled
<1>10. CASE RunThrows \/ CrashApproval
  BY <1>10 DEF RunThrows, CrashApproval, OnlyEnds, sourceVars, ShapeInv, Throw, Settled
<1>11. ASSUME NEW i \in Items, EditSource(i) \/ EditLive(i) \/ EditManifest PROVE ShapeInv'
  <2>1. dir' \in [Items -> Revisions]
    <3>1. CASE EditSource(i)
      <4>1. dir[i] \in Int /\ 1 <= dir[i] /\ dir[i] <= MaxRevision
        BY DEF ShapeInv, Revisions
      <4>2. \A r \in Int : 1 <= r /\ r <= MaxRevision => [dir EXCEPT ![i] = r] \in [Items -> Revisions]
        BY DEF ShapeInv, Revisions
      <4> QED BY <3>1, <4>1, <4>2 DEF EditSource
    <3>2. CASE EditLive(i) \/ EditManifest
      BY <3>2 DEF EditLive, EditManifest, sourceVars, ShapeInv
    <3> QED BY <1>11, <3>1, <3>2
  <2>2. manifest' \in {1, 2}
    BY <1>11 DEF EditSource, EditLive, EditManifest, sourceVars, ShapeInv
  <2>3. live' = [j \in Items |-> live'[j]]
    BY <1>11 DEF EditSource, EditLive, EditManifest, ShapeInv
  <2>4. UNCHANGED <<memory, files, between, completedAs>> /\ reverted' \in BOOLEAN
    BY <1>11 DEF EditSource, EditLive, EditManifest, historyVars, ShapeInv
  <2> QED BY <2>1, <2>2, <2>3, <2>4 DEF memory, files, ShapeInv
<1> QED BY <1>3, <1>4, <1>5, <1>6, <1>7, <1>8, <1>9, <1>10, <1>11
  DEF ApprovalNext, ReadApproval, ApplyApproval, Operator, ApprovalDisturbed

-----------------------------------------------------------------------------
(* The plan that binds a run.                                               *)

(* Whoever catches an error settles the result file.                        *)
LEMMA BoundNext ==
  ASSUME ShapeInv, BoundInv, ResultSettled, ApprovalNext
  PROVE  BoundInv' /\ ResultSettled'
<1> USE DEF BoundInv, ResultSettled, Applying, Goto
<1>1. ASSUME NEW again, NEW after, Loop(again, after) PROVE pc' \in {again, after}
  BY <1>1 DEF Loop
<1>2. CASE ReadManifest \/ HashItem \/ ReadMetadata \/ ReadBody
  <2>1. pc \in {"manifest", "hash", "metadata", "body"} /\ pc' \in {"hash", "metadata", "body", "recheck"}
    BY <1>1, <1>2 DEF ReadManifest, HashItem, ReadMetadata, ReadBody
  <2>2. UNCHANGED <<mode, approved, files, killed>>
    BY <1>2 DEF ReadManifest, HashItem, ReadMetadata, ReadBody, ReadsSources
  <2> QED BY <2>1, <2>2 DEF files
<1>3. CASE RecheckItem
  <2>1. pc = "recheck" /\ UNCHANGED <<mode, approved, approvedFile, checkpoint, killed>>
    BY <1>3 DEF RecheckItem, historyVars
  <2>2. \/ pc' \in {"recheck", "observe"} /\ UNCHANGED resultFile
        \/ Throw
    BY <1>1, <1>3 DEF RecheckItem
  <2> QED BY <2>1, <2>2 DEF Throw, Settled, ShapeInv
<1>4. CASE ObserveItem \/ WritePlan
  <2>1. /\ pc \in {"observe", "write plan"} /\ pc' \in {"observe", "write plan", "identity", "idle"}
        /\ pc' = "idle" => mode # "apply"
        /\ pc' = "identity" => mode = "apply"
    <3>1. mode \in {"plan", "apply"} /\ (ObserveItem => pc' \in {"observe", "write plan"})
      BY <1>1 DEF ObserveItem, ShapeInv
    <3> QED BY <1>4, <3>1 DEF ObserveItem, WritePlan
  <2>2. UNCHANGED <<mode, approved, approvedFile, checkpoint, resultFile, killed>>
    BY <1>4 DEF ObserveItem, WritePlan, files, memory, historyVars
  <2> QED BY <2>1, <2>2
<1>5. CASE StartPlan \/ StartApply
  BY <1>5 DEF StartPlan, StartApply, HashMatches, files, historyVars, ShapeInv
<1>6. CASE Approve \/ DiscardCheckpoint \/ ReplaceText
  BY <1>6 DEF Approve, DiscardCheckpoint, ReplaceText, OnlyFiles, memory, historyVars
<1>7. CASE ApplyApproval
  <2>1. /\ pc \in Applying /\ UNCHANGED <<mode, approved, approvedFile, killed>>
        /\ checkpoint'.plan = checkpoint.plan
    BY <1>7 DEF ApplyApproval, PreflightApproved, RecoverItem, VerifyCompleted, BeginItem, WriteItem,
       VerifyWritten, Succeed, Applies, Complete, ShapeInv
  <2>2. \/ pc' \in Applying /\ UNCHANGED resultFile
        \/ Throw
        \/ pc' = "idle" /\ resultFile' = [resultFile EXCEPT !.status = "succeeded"]
    BY <1>1, <1>7 DEF ApplyApproval, PreflightApproved, RecoverItem, VerifyCompleted, BeginItem,
       WriteItem, VerifyWritten, Succeed
  <2> QED BY <2>1, <2>2 DEF Throw, Settled, ShapeInv
<1>8. CASE RunThrows \/ CrashApproval
  BY <1>8 DEF RunThrows, CrashApproval, OnlyEnds, Throw, Settled, ShapeInv
<1>9. ASSUME NEW i \in Items, EditSource(i) \/ EditLive(i) \/ EditManifest PROVE BoundInv' /\ ResultSettled'
  BY <1>9 DEF EditSource, EditLive, EditManifest, memory, files, historyVars
<1> QED BY Numbered, <1>2, <1>3, <1>4, <1>5, <1>6, <1>7, <1>8, <1>9
  DEF ApprovalNext, ReadApproval, Operator, ApprovalDisturbed

-----------------------------------------------------------------------------
(* What a plan is made of.                                                  *)

(* Once loaded, the sources are not looked at again.                        *)
LEMMA SourceNext ==
  ASSUME ShapeInv, BoundInv, SourceInv, ApprovalNext
  PROVE  SourceInv'
<1> USE DEF SourceInv, Planned, ContentHash, Applying, Preflighted, Goto
<1>1. ASSUME pc' \in {"idle", "manifest", "hash", "metadata", "body", "recheck"} PROVE SourceInv'
  BY <1>1
<1>2. CASE ReadManifest \/ HashItem \/ ReadMetadata \/ ReadBody
  BY <1>1, <1>2 DEF ReadManifest, HashItem, ReadMetadata, ReadBody, Loop
<1>3. CASE RecheckItem
  BY <1>1, <1>3 DEF RecheckItem, Loop, Throw
<1>4. CASE ObserveItem
  <2> DEFINE before == IF at = 1 THEN [i \in Items |-> PlanItem(i, Absent)] ELSE current.items
             items == [before EXCEPT ![at] = PlanItem(at, live[at])]
  <2>1. /\ before = [i \in Items |-> before[i]]
        /\ \A i \in Items : before[i].content = ContentHash(i)
    BY <1>4 DEF ObserveItem, PlanItem
  <2>2. PlanItem(at, live[at]).content = ContentHash(at) /\ at \in Items
    BY DEF PlanItem, ShapeInv
  <2>3. /\ items = [i \in Items |-> items[i]]
        /\ \A i \in Items : items[i].content = ContentHash(i)
    BY <2>1, <2>2
  <2>4. current'.items = items /\ loaded' = loaded /\ pc' \in {"observe", "write plan"}
    BY <1>4 DEF ObserveItem, PlanOf, Loop
  <2> HIDE DEF items
  <2> QED BY <2>3, <2>4
<1>5. CASE WritePlan
  BY <1>5 DEF WritePlan, memory
<1>6. CASE Operator
  BY <1>1, <1>6 DEF Operator, StartPlan, StartApply, Approve, DiscardCheckpoint, OnlyFiles
<1>7. CASE PreflightApproved
  <2>1. CASE pc' = "idle"
    BY <1>1, <2>1
  <2>2. CASE pc' # "idle"
    <3>1. Approvable /\ pc = "identity"
      BY <1>7, <2>2 DEF PreflightApproved, Throw
    <3>2. \A i \in Items : approved.items[i].content = current.items[i].content
      BY <3>1 DEF Approvable, SameState, SameSource
    <3> QED BY <1>7, <2>2, <3>1, <3>2 DEF PreflightApproved, Throw, Applies
  <2> QED BY <2>1, <2>2
<1>8. CASE RecoverItem \/ VerifyCompleted \/ BeginItem \/ WriteItem \/ VerifyWritten \/ Succeed
  <2>1. pc \in Preflighted /\ pc' \in Preflighted \cup {"idle"}
    BY <1>8 DEF RecoverItem, VerifyCompleted, BeginItem, WriteItem, VerifyWritten, Succeed, Loop, Throw
  <2>2. UNCHANGED <<loaded, current, approved>>
    BY <1>8 DEF RecoverItem, VerifyCompleted, BeginItem, WriteItem, VerifyWritten, Succeed, Applies
  <2> QED BY <2>1, <2>2
<1>9. CASE RunThrows \/ CrashApproval
  BY <1>1, <1>9 DEF RunThrows, CrashApproval, Throw
<1>10. ASSUME NEW i \in Items, EditSource(i) \/ EditLive(i) \/ EditManifest \/ ReplaceText PROVE SourceInv'
  BY <1>10 DEF EditSource, EditLive, EditManifest, ReplaceText, OnlyFiles, memory
<1> QED BY Numbered, <1>2, <1>3, <1>4, <1>5, <1>6, <1>7, <1>8, <1>9, <1>10
  DEF ApprovalNext, ReadApproval, ApplyApproval, ApprovalDisturbed

(* What is completed was written from what was approved.                    *)
LEMMA CompletedNext ==
  ASSUME ShapeInv, BoundInv, SourceInv, CompletedAsPlanned, ApprovalNext
  PROVE  CompletedAsPlanned'
<1> USE DEF CompletedAsPlanned
<1>1. ASSUME checkpoint'.done \subseteq checkpoint.done, checkpoint'.plan = checkpoint.plan, completedAs' = completedAs
      PROVE  CompletedAsPlanned'
  BY <1>1
<1>2. CASE ReadApproval
  BY <1>1, <1>2 DEF ReadApproval, ReadManifest, HashItem, ReadMetadata, ReadBody, RecheckItem, ObserveItem,
     WritePlan, ReadsSources, files, historyVars
<1>3. CASE StartPlan \/ Approve \/ ReplaceText
  BY <1>1, <1>3 DEF StartPlan, Approve, ReplaceText, OnlyFiles, files, historyVars
<1>4. CASE StartApply
  <2>1. checkpoint.done = {} \/ checkpoint.plan = approvedFile.text
    BY <1>4 DEF StartApply, CheckpointMatches, NoCheckpoint
  <2> QED BY <1>4, <2>1 DEF StartApply, ShapeInv
<1>5. CASE DiscardCheckpoint
  BY <1>5 DEF DiscardCheckpoint, NoCheckpoint
<1>6. ASSUME Complete(at), live'[at] = Wanted(at), pc \in Preflighted PROVE CompletedAsPlanned'
  <2>1. approved.items[at].content = ContentHash(at) /\ checkpoint.plan = approved /\ at \in Items
    BY <1>6 DEF SourceInv, BoundInv, ShapeInv, Preflighted, Applying
  <2>2. /\ checkpoint'.done = checkpoint.done \cup {at} /\ checkpoint'.plan = checkpoint.plan
        /\ completedAs'[at] = Definition(ContentHash(at))
        /\ \A i \in Items : i # at => completedAs'[i] = completedAs[i]
    BY <1>6, <2>1 DEF Complete, ShapeInv, Wanted
  <2> QED BY <2>1, <2>2 DEF ShapeInv
<1>7. CASE RecoverItem
  <2>1. ASSUME Complete(at), live' = [live EXCEPT ![at] = Wanted(at)] PROVE live'[at] = Wanted(at)
    BY <2>1 DEF ShapeInv
  <2> QED BY <1>1, <1>6, <1>7, <2>1 DEF RecoverItem, Preflighted, Applying
<1>8. CASE VerifyWritten
  BY <1>1, <1>6, <1>8 DEF VerifyWritten, Preflighted, Applying
<1>9. CASE PreflightApproved \/ VerifyCompleted \/ BeginItem \/ WriteItem \/ Succeed
  BY <1>1, <1>9 DEF PreflightApproved, VerifyCompleted, BeginItem, WriteItem, Succeed, ShapeInv
<1>10. CASE RunThrows \/ CrashApproval
  BY <1>1, <1>10 DEF RunThrows, CrashApproval, OnlyEnds
<1>11. ASSUME NEW i \in Items, EditSource(i) \/ EditLive(i) \/ EditManifest PROVE CompletedAsPlanned'
  BY <1>1, <1>11 DEF EditSource, EditLive, EditManifest, files, historyVars
<1> QED BY Numbered, <1>2, <1>3, <1>4, <1>5, <1>7, <1>8, <1>9, <1>10, <1>11
  DEF ApprovalNext, ApplyApproval, Operator, ApprovalDisturbed

-----------------------------------------------------------------------------
(* A plan is of one state of the checkout.                                  *)

(* Every revision is a number.                                              *)
LEMMA Readings ==
  ASSUME ShapeInv
  PROVE  /\ at \in Items /\ \A i \in Items : i \in Nat /\ ~(i < 1)
         /\ \A i \in Items : dir[i] \in Nat /\ between[i] \in Nat
         /\ \A i \in Items : loaded.hash[i] \in Nat /\ loaded.meta[i] \in Nat /\ loaded.body[i] \in Nat
<1>1. Revisions \subseteq Nat /\ 0..MaxRevision \subseteq Nat
  BY ApprovalAssumption DEF Revisions
<1>2. /\ loaded.hash \in [Items -> 0..MaxRevision] /\ loaded.meta \in [Items -> 0..MaxRevision]
      /\ loaded.body \in [Items -> 0..MaxRevision]
  BY DEF ShapeInv, Reads
<1>3. \A i \in Items : i \in Nat /\ ~(i < 1)
  BY Numbered
<1> QED BY <1>1, <1>2, <1>3 DEF ShapeInv

(* An edit that is not taken back makes a directory later.                  *)
LEMMA Later ==
  ASSUME ShapeInv, NEW i \in Items, EditSource(i), ~reverted'
  PROVE  /\ ~reverted /\ \A j \in Items : dir'[j] \in Nat
         /\ \A j \in Items, n \in Nat : n <= dir[j] => n <= dir'[j]
<1>1. reverted' # TRUE
  OBVIOUS
<1>2. ~reverted /\ dir' = [dir EXCEPT ![i] = dir[i] + 1]
  BY <1>1 DEF EditSource
<1>3. \A j \in Items : dir[j] \in Nat
  BY Readings
<1>4. ASSUME NEW j \in Items PROVE dir'[j] \in Nat /\ \A n \in Nat : n <= dir[j] => n <= dir'[j]
  <2>1. dir'[j] = dir[j] \/ dir'[j] = dir[j] + 1
    BY <1>2 DEF ShapeInv
  <2> QED BY <1>3, <2>1
<1> QED BY <1>2, <1>4

(* Reading the sources in two passes.                                       *)
LEMMA SnapshotRead ==
  ASSUME ShapeInv, SnapshotInv,
         ReadManifest \/ HashItem \/ ReadMetadata \/ ReadBody \/ RecheckItem
  PROVE  SnapshotInv'
<1> USE DEF SnapshotInv, GrowthInv, AfterHashing, Goto
<1>1. /\ at \in Items /\ \A i \in Items : i \in Nat /\ ~(i < 1)
      /\ \A i \in Items : dir[i] \in Nat /\ between[i] \in Nat
      /\ \A i \in Items : loaded.hash[i] \in Nat /\ loaded.meta[i] \in Nat /\ loaded.body[i] \in Nat
  BY Readings
<1>2. CASE ReadManifest
  BY <1>1, <1>2 DEF ReadManifest, ReadsSources, sourceVars, ShapeInv, Reads
<1>3. CASE HashItem
  <2>1. /\ UNCHANGED <<dir, reverted>> /\ pc = "hash" /\ Loop("hash", "metadata")
        /\ \A i \in Items : loaded'.hash[i] = IF i = at THEN dir[at] ELSE loaded.hash[i]
        /\ at + 1 \notin Items => between' = dir
    BY <1>3 DEF HashItem, ReadsSources, sourceVars, ShapeInv, Reads
  <2>2. CASE at + 1 \in Items
    BY <1>1, <2>1, <2>2, Looped DEF Loop
  <2>3. CASE at + 1 \notin Items
    BY <1>1, <2>1, <2>3, Looped DEF Loop
  <2> QED BY <2>2, <2>3
<1>4. CASE ReadMetadata
  <2>1. /\ UNCHANGED <<dir, reverted, between>> /\ pc = "metadata" /\ Loop("metadata", "body")
        /\ loaded'.hash = loaded.hash
        /\ \A i \in Items : loaded'.meta[i] = IF i = at THEN dir[at] ELSE loaded.meta[i]
    BY <1>4 DEF ReadMetadata, ReadsSources, sourceVars, ShapeInv, Reads
  <2>2. ~reverted => \A i \in Items : between[i] <= dir[i]
    BY <2>1
  <2>3. CASE pc' = "metadata" /\ \A i \in Items : i < at' => i < at \/ i = at
    BY <1>1, <2>1, <2>2, <2>3
  <2>4. CASE pc' = "body" /\ at' = 1 /\ \A i \in Items : i < at \/ i = at
    BY <1>1, <2>1, <2>2, <2>4
  <2> QED BY <1>1, <2>1, <2>3, <2>4, Looped
<1>5. CASE ReadBody
  <2>1. /\ UNCHANGED <<dir, reverted, between>> /\ pc = "body" /\ Loop("body", "recheck")
        /\ loaded'.hash = loaded.hash /\ loaded'.meta = loaded.meta
        /\ \A i \in Items : loaded'.body[i] = IF i = at THEN dir[at] ELSE loaded.body[i]
    BY <1>5 DEF ReadBody, ReadsSources, sourceVars, ShapeInv, Reads
  <2>2. ~reverted => \A i \in Items : between[i] <= dir[i]
    BY <2>1
  <2>3. CASE pc' = "body" /\ \A i \in Items : i < at' => i < at \/ i = at
    BY <1>1, <2>1, <2>2, <2>3
  <2>4. CASE pc' = "recheck" /\ at' = 1 /\ \A i \in Items : i < at \/ i = at
    BY <1>1, <2>1, <2>2, <2>4
  <2>5. \/ pc' = "body" /\ \A i \in Items : i < at' => i < at \/ i = at
        \/ pc' = "recheck" /\ at' = 1 /\ \A i \in Items : i < at \/ i = at
    BY <1>1, <2>1, Looped
  <2> QED BY <2>3, <2>4, <2>5
<1>6. CASE RecheckItem
  <2>1. UNCHANGED <<dir, reverted, between, loaded>> /\ pc = "recheck"
    BY <1>6 DEF RecheckItem, sourceVars, historyVars
  <2>2. CASE Throw
    BY <2>1, <2>2 DEF Throw
  <2>3. CASE Recheck /\ Loop("recheck", "observe")
    <3>1. ~reverted => loaded.meta[at] = between[at] /\ loaded.body[at] = between[at]
      BY <1>1, <2>1, <2>3 DEF Recheck
    <3>2. CASE pc' = "recheck" /\ \A i \in Items : i < at' => i < at \/ i = at
      BY <1>1, <2>1, <3>1, <3>2
    <3>3. CASE pc' = "observe" /\ \A i \in Items : i < at \/ i = at
      BY <1>1, <2>1, <3>1, <3>3
    <3> QED BY <1>1, <2>3, <3>2, <3>3, Looped
  <2> QED BY <1>6, <2>2, <2>3 DEF RecheckItem
<1> QED BY <1>2, <1>3, <1>4, <1>5, <1>6

(* And everything else: an edit only makes what is there later.             *)
LEMMA SnapshotNext ==
  ASSUME ShapeInv, SnapshotInv, ApprovalNext
  PROVE  SnapshotInv'
<1> USE DEF SnapshotInv, GrowthInv, AfterHashing, Goto
<1>1. ASSUME pc' \in {"idle"} \cup Applying PROVE SnapshotInv'
  BY <1>1 DEF Applying
<1>2. CASE ReadManifest \/ HashItem \/ ReadMetadata \/ ReadBody \/ RecheckItem
  BY <1>2, SnapshotRead
<1>3. CASE ObserveItem
  BY <1>3 DEF ObserveItem, Loop, historyVars
<1>4. CASE WritePlan
  BY <1>1, <1>4 DEF WritePlan, Applying
<1>5. CASE Operator
  BY <1>5 DEF Operator, StartPlan, StartApply, Approve, DiscardCheckpoint, OnlyFiles
<1>6. CASE ApplyApproval
  BY <1>1, <1>6 DEF ApplyApproval, PreflightApproved, RecoverItem, VerifyCompleted, BeginItem, WriteItem,
     VerifyWritten, Succeed, Loop, Throw, Applying
<1>7. CASE RunThrows \/ CrashApproval
  BY <1>1, <1>7 DEF RunThrows, CrashApproval, Throw
<1>8. ASSUME NEW i \in Items, EditSource(i) PROVE SnapshotInv'
  <2>1. UNCHANGED <<pc, at, loaded, between>>
    BY <1>8 DEF EditSource, memory
  <2>2. CASE reverted'
    BY <2>1, <2>2
  <2>3. CASE ~reverted'
    <3>1. /\ ~reverted /\ \A j \in Items : dir'[j] \in Nat
          /\ \A j \in Items, n \in Nat : n <= dir[j] => n <= dir'[j]
      BY <1>8, <2>3, Later
    <3> QED BY <2>1, <2>3, <3>1, Readings
  <2> QED BY <2>2, <2>3
<1>9. ASSUME NEW i \in Items, EditLive(i) \/ EditManifest \/ ReplaceText PROVE SnapshotInv'
  BY <1>9 DEF EditLive, EditManifest, ReplaceText, OnlyFiles, sourceVars, memory, historyVars
<1> QED BY Numbered, <1>2, <1>3, <1>4, <1>5, <1>6, <1>7, <1>8, <1>9
  DEF ApprovalNext, ReadApproval, ApprovalDisturbed

-----------------------------------------------------------------------------
(* The types of what the approval keeps: a plan is complete when it is      *)
(* written, and the hashes in it are of what was read.                      *)
Statuses == {"none", "in_progress", "succeeded", "failed"}
BeforeHashes == {"idle", "manifest", "hash"}
PlansInv ==
  /\ live \in [Items -> Contents]
  /\ IsPlan(approved) /\ IsPlan(planFile) /\ IsPlan(approvedFile.text) /\ IsPlan(approvedFile.hash)
  /\ IsPlan(checkpoint.plan) /\ checkpoint.pending \subseteq Items
  /\ checkpoint.done \cap checkpoint.pending = {}
  /\ resultFile.status \in Statuses
ReadInv ==
  /\ pc \notin {"idle", "manifest"} => loaded.manifest \in {1, 2}
  /\ pc = "hash" => \A i \in Items : i < at => loaded.hash[i] \in Revisions
  /\ pc \notin BeforeHashes => \A i \in Items : loaded.hash[i] \in Revisions
  /\ pc = "manifest" => at = 1
  /\ pc = "observe" /\ at # 1 => IsPlan(current) /\ current # NoPlan
  /\ pc = "write plan" => IsPlan(current)
TypesInv == PlansInv /\ ReadInv

(* Nothing is planned yet.                                                  *)
LEMMA TypesInit == RunInit /\ ApprovalInit => TypesInv
<1> SUFFICES ASSUME RunInit, ApprovalInit PROVE TypesInv OBVIOUS
<1>1. Theirs \in Contents /\ Absent \in Contents
  BY ApprovalAssumption DEF Theirs, Absent, Contents
<1>2. live \in [Items -> Contents]
  BY <1>1 DEF ApprovalInit
<1>3. IsPlan(NoPlan)
  BY DEF IsPlan
<1> QED BY <1>2, <1>3 DEF RunInit, ApprovalInit, TypesInv, PlansInv, ReadInv, NoCheckpoint, Statuses, BeforeHashes

(* What a run writes, and what it plans of an item, are contents.           *)
LEMMA ContentsThere ==
  ASSUME ShapeInv, NEW i \in Items
  PROVE  /\ Wanted(i) \in Contents /\ Absent \in Contents /\ Theirs \in Contents
         /\ Wanted(i) = Definition(ContentHash(i))
<1>1. loaded.meta[i] \in 0..MaxRevision /\ loaded.body[i] \in 0..MaxRevision
  BY DEF ShapeInv, Reads
<1>2. MaxRevision \in Nat
  BY ApprovalAssumption
<1>3. Wanted(i) = [meta |-> loaded.meta[i], body |-> loaded.body[i]]
  BY DEF Wanted, Definition, ContentHash
<1> QED BY <1>1, <1>2, <1>3 DEF Contents, Absent, Theirs, Wanted

IsItemPlan(i, p) ==
  /\ Definition(p.content) \in Contents
  /\ p.content.hash = 0 <=> i \in Symbolic
  /\ p.observed \in Contents
  /\ p.action \in {"create", "update", "no-op"}

(* What is planned of an item that was read.                                *)
LEMMA ItemIsPlanned ==
  ASSUME ShapeInv, NEW i \in Items, loaded.hash[i] \in Revisions, NEW there \in Contents
  PROVE  IsItemPlan(i, PlanItem(i, there))
<1>1. /\ PlanItem(i, there).content = ContentHash(i) /\ PlanItem(i, there).observed = there
      /\ PlanItem(i, there).action \in {"create", "update", "no-op"}
  BY DEF PlanItem
<1>2. ContentHash(i).hash = 0 <=> i \in Symbolic
  <2>1. loaded.hash[i] # 0
    BY ApprovalAssumption DEF Revisions
  <2> QED BY <2>1 DEF ContentHash
<1>3. Definition(ContentHash(i)) \in Contents
  BY ContentsThere
<1> QED BY <1>1, <1>2, <1>3 DEF IsItemPlan

(* A plan of all items.                                                     *)
LEMMA PlanIsPlan ==
  ASSUME NEW items, DOMAIN items = Items, \A i \in Items : IsItemPlan(i, items[i]),
         loaded.manifest \in {1, 2}
  PROVE  IsPlan(PlanOf(items)) /\ PlanOf(items) # NoPlan
<1>1. PlanOf(items).manifest = loaded.manifest /\ PlanOf(items).items = items
  BY DEF PlanOf
<1>2. PlanOf(items) # NoPlan
  BY <1>1 DEF NoPlan
<1> QED BY <1>1, <1>2 DEF IsPlan, IsItemPlan

(* The plan is complete when the last item was observed.                    *)
LEMMA ObserveKeepsTypes ==
  ASSUME ShapeInv, TypesInv, ObserveItem
  PROVE  TypesInv'
<1> DEFINE before == IF at = 1 THEN [i \in Items |-> PlanItem(i, Absent)] ELSE current.items
           items == [before EXCEPT ![at] = PlanItem(at, live[at])]
<1>1. /\ pc = "observe" /\ Loop("observe", "write plan") /\ current' = PlanOf(items)
      /\ UNCHANGED <<live, loaded, approved, files>>
  BY DEF ObserveItem
<1>2. \A i \in Items : loaded.hash[i] \in Revisions
  BY <1>1 DEF TypesInv, ReadInv, BeforeHashes
<1>3. loaded.manifest \in {1, 2} /\ at \in Items /\ live[at] \in Contents /\ Absent \in Contents
  BY <1>1, ContentsThere DEF TypesInv, ReadInv, PlansInv, ShapeInv
<1>4. DOMAIN before = Items /\ \A i \in Items : IsItemPlan(i, before[i])
  <2>1. CASE at = 1
    BY <1>2, <1>3, <2>1, ItemIsPlanned
  <2>2. CASE at # 1
    BY <1>1, <2>2 DEF TypesInv, ReadInv, IsPlan, IsItemPlan
  <2> QED BY <2>1, <2>2
<1>5. IsItemPlan(at, PlanItem(at, live[at]))
  BY <1>2, <1>3, ItemIsPlanned
<1> HIDE DEF before
<1>6. DOMAIN items = Items /\ \A i \in Items : IsItemPlan(i, items[i])
  BY <1>3, <1>4, <1>5
<1> HIDE DEF items
<1>7. IsPlan(current') /\ current' # NoPlan
  BY <1>1, <1>3, <1>6, PlanIsPlan
<1>8. pc' \in {"observe", "write plan"}
  BY <1>1 DEF Loop, Goto
<1>9. PlansInv'
  BY <1>1 DEF TypesInv, PlansInv, files
<1>10. ReadInv'
  BY <1>1, <1>2, <1>3, <1>7, <1>8 DEF ReadInv
<1> QED BY <1>9, <1>10 DEF TypesInv

(* Every step of a run, and whatever comes between, keeps the types.        *)
LEMMA TypesNext ==
  ASSUME ShapeInv, TypesInv, ApprovalNext
  PROVE  TypesInv'
<1> USE DEF TypesInv, Goto
<1>1. IsPlan(NoPlan) /\ NoPlan = NoPlan
  BY DEF IsPlan
<1>2. ASSUME ReadManifest \/ HashItem \/ ReadMetadata \/ ReadBody PROVE TypesInv'
  <2>1. PlansInv'
    BY <1>2 DEF ReadManifest, HashItem, ReadMetadata, ReadBody, ReadsSources, PlansInv, files
  <2>2. CASE ReadManifest
    <3>1. loaded'.manifest \in {1, 2} /\ pc' = "hash" /\ at' = 1
      BY <2>2 DEF ReadManifest, ShapeInv, ReadInv, Reads
    <3>2. \A i \in Items : ~(i < 1)
      BY Numbered
    <3> QED BY <2>1, <3>1, <3>2 DEF ReadInv, BeforeHashes
  <2>3. CASE HashItem
    <3>1. /\ pc = "hash" /\ loaded'.manifest = loaded.manifest /\ Loop("hash", "metadata")
          /\ at \in Items /\ dir[at] \in Revisions
          /\ \A i \in Items : loaded'.hash[i] = IF i = at THEN dir[at] ELSE loaded.hash[i]
      BY <2>3 DEF HashItem, ShapeInv, Reads
    <3>2. \A i \in Items : i < at \/ i = at => loaded'.hash[i] \in Revisions
      BY <3>1 DEF ReadInv
    <3>3. \/ pc' = "hash" /\ at' = at + 1 /\ \A i \in Items : i < at' => i < at \/ i = at
          \/ pc' = "metadata" /\ at' = 1 /\ \A i \in Items : i < at \/ i = at
      BY <3>1, Looped
    <3>4. CASE pc' = "hash" /\ at' = at + 1 /\ \A i \in Items : i < at' => i < at \/ i = at
      BY <2>1, <3>1, <3>2, <3>4 DEF ReadInv, BeforeHashes
    <3>5. CASE pc' = "metadata" /\ at' = 1 /\ \A i \in Items : i < at \/ i = at
      BY <2>1, <3>1, <3>2, <3>5 DEF ReadInv, BeforeHashes
    <3> QED BY <3>3, <3>4, <3>5
  <2>4. CASE ReadMetadata \/ ReadBody
    <3>1. /\ pc \in {"metadata", "body"} /\ pc' \in {"metadata", "body", "recheck"}
          /\ loaded'.manifest = loaded.manifest /\ loaded'.hash = loaded.hash
      BY <2>4 DEF ReadMetadata, ReadBody, Loop, ShapeInv, Reads
    <3> QED BY <2>1, <3>1 DEF ReadInv, BeforeHashes
  <2> QED BY <1>2, <2>2, <2>3, <2>4
<1>3. CASE RecheckItem
  <2>1. /\ pc = "recheck" /\ UNCHANGED <<loaded, live, approved, planFile, approvedFile, checkpoint, current>>
        /\ pc' \in {"recheck", "observe", "idle"} /\ (pc' = "observe" => at' = 1)
    BY <1>3 DEF RecheckItem, Loop, Throw
  <2>2. resultFile'.status \in Statuses
    BY <1>3 DEF RecheckItem, Throw, Settled, PlansInv, Statuses, ShapeInv
  <2> QED BY <2>1, <2>2 DEF PlansInv, ReadInv, BeforeHashes
<1>4. CASE ObserveItem
  BY <1>4, ObserveKeepsTypes
<1>5. CASE WritePlan
  BY <1>5 DEF WritePlan, memory, PlansInv, ReadInv, BeforeHashes
<1>6. CASE StartPlan \/ StartApply
  <2>1. ReadInv'
    BY <1>6 DEF StartPlan, StartApply, ReadInv, BeforeHashes
  <2>2. CASE StartPlan
    BY <1>1, <2>1, <2>2 DEF StartPlan, files, PlansInv
  <2>3. CASE StartApply
    <3>1. /\ checkpoint'.plan = approvedFile.text /\ checkpoint'.done = checkpoint.done
          /\ checkpoint'.pending = checkpoint.pending /\ resultFile'.status = "in_progress"
      BY <2>3 DEF StartApply, ShapeInv
    <3>2. UNCHANGED <<live, planFile, approvedFile>> /\ approved' = approvedFile.text
      BY <2>3 DEF StartApply
    <3> QED BY <2>1, <3>1, <3>2 DEF PlansInv, Statuses
  <2> QED BY <1>6, <2>2, <2>3
<1>7. CASE Approve \/ DiscardCheckpoint \/ ReplaceText
  <2>1. UNCHANGED <<pc, at, live, loaded, current, approved, planFile, resultFile>>
    BY <1>7 DEF Approve, DiscardCheckpoint, ReplaceText, OnlyFiles, memory
  <2>2. ReadInv'
    BY <2>1 DEF ReadInv, BeforeHashes
  <2>3. IsPlan(approvedFile'.text) /\ IsPlan(approvedFile'.hash)
    <3>1. approvedFile' \in {approvedFile, [text |-> planFile, hash |-> planFile],
                              [text |-> planFile, hash |-> approvedFile.hash]}
      BY <1>7 DEF Approve, DiscardCheckpoint, ReplaceText, ShapeInv
    <3> QED BY <3>1 DEF PlansInv
  <2>4. /\ IsPlan(checkpoint'.plan) /\ checkpoint'.pending \subseteq Items
        /\ checkpoint'.done \cap checkpoint'.pending = {}
    <3>1. checkpoint' \in {checkpoint, NoCheckpoint}
      BY <1>7 DEF Approve, DiscardCheckpoint, ReplaceText
    <3>2. NoCheckpoint.plan = NoPlan /\ NoCheckpoint.done = {} /\ NoCheckpoint.pending = {}
      BY DEF NoCheckpoint
    <3> QED BY <1>1, <3>1, <3>2 DEF PlansInv
  <2> QED BY <2>1, <2>2, <2>3, <2>4 DEF PlansInv
<1>8. CASE ApplyApproval
  <2>1. /\ pc \in Applying /\ pc' \in Applying \cup {"idle"}
        /\ UNCHANGED <<loaded, current, approved, planFile, approvedFile>>
    BY <1>8 DEF ApplyApproval, PreflightApproved, RecoverItem, VerifyCompleted, BeginItem, WriteItem,
       VerifyWritten, Succeed, Applies, Loop, Throw, Applying
  <2>2. ReadInv'
    BY <2>1 DEF ReadInv, BeforeHashes, Applying
  <2>3. resultFile'.status \in Statuses
    <3>1. UNCHANGED resultFile \/ Throw \/ resultFile' = [resultFile EXCEPT !.status = "succeeded"]
      BY <1>8 DEF ApplyApproval, PreflightApproved, RecoverItem, VerifyCompleted, BeginItem, WriteItem,
         VerifyWritten, Succeed
    <3> QED BY <3>1 DEF Throw, Settled, PlansInv, Statuses, ShapeInv
  <2>4. live' \in [Items -> Contents]
    <3>1. UNCHANGED live \/ live' = [live EXCEPT ![at] = Wanted(at)]
      BY <1>8 DEF ApplyApproval, PreflightApproved, RecoverItem, VerifyCompleted, BeginItem, WriteItem,
         VerifyWritten, Succeed
    <3> QED BY <3>1, ContentsThere DEF PlansInv, ShapeInv
  <2>5. /\ checkpoint'.plan = checkpoint.plan /\ checkpoint'.pending \subseteq Items
        /\ checkpoint'.done \cap checkpoint'.pending = {}
    <3>1. \/ UNCHANGED checkpoint
          \/ Complete(at)
          \/ at \notin checkpoint.done /\ checkpoint' = [checkpoint EXCEPT !.pending = @ \cup {at}]
      BY <1>8 DEF ApplyApproval, PreflightApproved, RecoverItem, VerifyCompleted, BeginItem, WriteItem,
         VerifyWritten, Succeed
    <3>2. CASE Complete(at)
      <4>1. /\ checkpoint'.plan = checkpoint.plan /\ checkpoint'.done = checkpoint.done \cup {at}
            /\ checkpoint'.pending = checkpoint.pending \ {at}
        BY <3>2 DEF Complete, ShapeInv
      <4> QED BY <4>1 DEF PlansInv
    <3>3. CASE at \notin checkpoint.done /\ checkpoint' = [checkpoint EXCEPT !.pending = @ \cup {at}]
      <4>1. /\ checkpoint'.plan = checkpoint.plan /\ checkpoint'.done = checkpoint.done
            /\ checkpoint'.pending = checkpoint.pending \cup {at} /\ at \in Items
        BY <3>3 DEF ShapeInv
      <4> QED BY <3>3, <4>1 DEF PlansInv
    <3> QED BY <3>1, <3>2, <3>3 DEF PlansInv
  <2> QED BY <2>1, <2>2, <2>3, <2>4, <2>5 DEF PlansInv
<1>9. CASE RunThrows \/ CrashApproval
  <2>1. /\ pc' = "idle" /\ UNCHANGED <<live, loaded, approved, approvedFile, checkpoint>>
        /\ planFile' \in {planFile, NoPlan}
    BY <1>9 DEF RunThrows, CrashApproval, OnlyEnds, Throw
  <2>2. resultFile'.status \in Statuses
    BY <1>9 DEF RunThrows, CrashApproval, Throw, Settled, PlansInv, Statuses, ShapeInv
  <2> QED BY <1>1, <2>1, <2>2 DEF PlansInv, ReadInv, BeforeHashes
<1>10. ASSUME NEW i \in Items, EditSource(i) \/ EditLive(i) \/ EditManifest PROVE TypesInv'
  <2>1. UNCHANGED <<pc, memory, files>>
    BY <1>10 DEF EditSource, EditLive, EditManifest
  <2>2. live' \in [Items -> Contents]
    BY <1>10, ContentsThere DEF EditSource, EditLive, EditManifest, PlansInv
  <2> QED BY <2>1, <2>2 DEF PlansInv, ReadInv, memory, files
<1> QED BY Numbered, <1>2, <1>3, <1>4, <1>5, <1>6, <1>7, <1>8, <1>9, <1>10
  DEF ApprovalNext, ReadApproval, Operator, ApprovalDisturbed

-----------------------------------------------------------------------------
(* Either part, at every step of it.                                        *)
ApprovalInv ==
  /\ ShapeInv /\ TypesInv
  /\ BoundInv /\ SourceInv /\ SnapshotInv /\ CompletedAsPlanned /\ ResultSettled
WholeInv ==
  /\ part \in {"artifact", "approval"}
  /\ part = "artifact" => ArtifactInv
  /\ part = "approval" => stage = "declared"
  /\ ApprovalInv

(* The approval, from its first state on.                                   *)
LEMMA ApprovalStarts == RunInit /\ ApprovalInit => ApprovalInv
<1> SUFFICES ASSUME RunInit, ApprovalInit PROVE ApprovalInv OBVIOUS
<1>1. BoundInv /\ SourceInv /\ SnapshotInv /\ CompletedAsPlanned /\ ResultSettled
  BY DEF RunInit, ApprovalInit, BoundInv, SourceInv, SnapshotInv, GrowthInv, AfterHashing, Applying,
     Preflighted, CompletedAsPlanned, ResultSettled, NoCheckpoint
<1> QED BY <1>1, ShapeInit, TypesInit DEF ApprovalInv

(* Each step of it keeps what it keeps.                                     *)
LEMMA ApprovalSteps ==
  ASSUME ApprovalInv, ApprovalNext
  PROVE  ApprovalInv'
BY ShapeNext, TypesNext, BoundNext, SourceNext, SnapshotNext, CompletedNext DEF ApprovalInv

(* The steps of the other part do not touch it.                             *)
LEMMA ApprovalKept ==
  ASSUME ApprovalInv, UNCHANGED <<runVars, approvalVars>>
  PROVE  ApprovalInv'
<1>1. UNCHANGED <<pc, sourceVars, live, memory, files, historyVars>>
  BY DEF runVars, approvalVars
<1>2. ShapeInv' /\ BoundInv' /\ CompletedAsPlanned' /\ ResultSettled'
  BY <1>1 DEF ApprovalInv, sourceVars, memory, files, historyVars, ShapeInv, BoundInv,
     CompletedAsPlanned, ResultSettled
<1>3. TypesInv'
  BY <1>1 DEF ApprovalInv, memory, files, TypesInv, PlansInv, ReadInv
<1>4. SourceInv'
  BY <1>1 DEF ApprovalInv, memory, SourceInv, Planned, ContentHash
<1>5. SnapshotInv'
  BY <1>1 DEF ApprovalInv, sourceVars, memory, historyVars, SnapshotInv, GrowthInv, AfterHashing
<1> QED BY <1>2, <1>3, <1>4, <1>5 DEF ApprovalInv

(* Nor do those of the approval touch the artifact.                         *)
LEMMA ArtifactKept ==
  ASSUME ArtifactInv, UNCHANGED planVars
  PROVE  ArtifactInv'
<1>1. UNCHANGED <<stage, declared, seen, plan>>
  BY DEF planVars
<1>2. ManifestValid' = ManifestValid /\ OfflinePlan' = OfflinePlan
  BY <1>1 DEF ManifestValid, DeclaredWorkspace, OfflinePlan, OfflineWorkspace
<1>3. PlanFacts' = PlanFacts /\ ReadFacts' = ReadFacts /\ IsDeploymentPlan' = IsDeploymentPlan
  BY <1>1 DEF PlanFacts, ReadFacts, IsDeploymentPlan
<1> QED BY <1>1, <1>2, <1>3 DEF ArtifactInv

(* All of it, at every step of any number of plans, approvals and runs.     *)
THEOREM PlanInvariant == Spec => []WholeInv
<1>1. Init => WholeInv
  BY ApprovalStarts, ArtifactInit DEF Init, WholeInv
<1>2. WholeInv /\ [Next]_vars => WholeInv'
  <2> SUFFICES ASSUME WholeInv, [Next]_vars PROVE WholeInv' OBVIOUS
  <2>1. CASE OfArtifact(PlanNext)
    <3>1. part = "artifact" /\ PlanNext /\ UNCHANGED part /\ UNCHANGED <<runVars, approvalVars>>
      BY <2>1 DEF OfArtifact, Of
    <3> QED BY <3>1, ArtifactNext, ApprovalKept DEF WholeInv
  <2>2. CASE OfApproval(ApprovalNext)
    <3>1. part = "approval" /\ ApprovalNext /\ UNCHANGED part /\ UNCHANGED planVars
      BY <2>2 DEF OfApproval, Of
    <3> QED BY <3>1, ApprovalSteps DEF WholeInv, planVars
  <2>3. CASE UNCHANGED vars
    <3>1. UNCHANGED part /\ UNCHANGED planVars /\ UNCHANGED <<runVars, approvalVars>>
      BY <2>3 DEF vars
    <3> QED BY <3>1, ArtifactKept, ApprovalKept DEF WholeInv, planVars
  <2> QED BY <2>1, <2>2, <2>3 DEF Next
<1> QED BY <1>1, <1>2, PTL DEF Spec

-----------------------------------------------------------------------------
(* Whatever is edited while a run reads the sources, what it writes is what *)
(* the approved hash was made of (assertPlanIdentity in apply.ts).          *)
THEOREM ApprovedContentOnlyCorrect == Spec => ApprovedContentOnly
<1> DEFINE Approved == \A i \in Items : (WriteItem \/ RecoverItem) /\ i = at /\ live'[i] # live[i] =>
                         live'[i] = Definition(approvedFile.hash.items[i].content)
<1>1. WholeInv /\ [Next]_vars => [Approved]_approvalVars
  <2> SUFFICES ASSUME ApprovalInv, NEW i \in Items, WriteItem \/ RecoverItem, i = at, live'[i] # live[i]
               PROVE  live'[i] = Definition(approvedFile.hash.items[i].content)
    BY DEF WholeInv
  <2>1. pc \in Preflighted /\ pc # "idle" /\ mode = "apply"
    BY DEF WriteItem, RecoverItem, Preflighted, Applying, ApprovalInv, BoundInv
  <2>2. live' = [live EXCEPT ![at] = Wanted(at)]
    BY DEF WriteItem, RecoverItem
  <2>3. live'[i] = Definition(ContentHash(i))
    BY <2>2 DEF Wanted, ApprovalInv, ShapeInv
  <2>4. approved = approvedFile.hash /\ approved.items[i].content = ContentHash(i)
    BY <2>1 DEF ApprovalInv, BoundInv, SourceInv
  <2> QED BY <2>3, <2>4
<1> QED BY <1>1, PlanInvariant, PTL DEF Spec, ApprovedContentOnly

(* What was read twice and found the same is one state.                     *)
LEMMA ApprovalPlansSnapshot == ApprovalInv => PlannedIsSnapshot
<1> SUFFICES ASSUME ApprovalInv, pc = "write plan", ~reverted, NEW i \in Items
             PROVE  Definition(current.items[i].content) = [meta |-> between[i], body |-> between[i]]
  BY DEF PlannedIsSnapshot
<1>1. current.items[i].content = ContentHash(i)
  BY DEF ApprovalInv, SourceInv, Planned
<1>2. loaded.meta[i] = between[i] /\ loaded.body[i] = between[i]
  BY DEF ApprovalInv, SnapshotInv, GrowthInv
<1>3. ContentHash(i).meta = between[i] /\ ContentHash(i).body = between[i]
  BY <1>2 DEF ContentHash
<1> QED BY <1>1, <1>3 DEF Definition

(* What a run plans is one state of the checkout: the two passes of         *)
(* loadManifest over the directories (manifest.ts) leave no mixture.        *)
THEOREM PlannedIsSnapshotCorrect == Spec => []PlannedIsSnapshot
<1>1. WholeInv => PlannedIsSnapshot
  BY ApprovalPlansSnapshot DEF WholeInv
<1> QED BY <1>1, PlanInvariant, PTL

(* The checkpoint calls completed what was completed as its plan says       *)
(* (completedItems in apply.ts, bound to the plan by checkpoint.ts).        *)
THEOREM CompletedAsPlannedCorrect == Spec => []CompletedAsPlanned
<1>1. WholeInv => CompletedAsPlanned
  BY DEF WholeInv, ApprovalInv
<1> QED BY <1>1, PlanInvariant, PTL

(* Every run that ends on its own settles the result file (main.ts).        *)
THEOREM ResultSettledCorrect == Spec => []ResultSettled
<1>1. WholeInv => ResultSettled
  BY DEF WholeInv, ApprovalInv
<1> QED BY <1>1, PlanInvariant, PTL

(* Whatever is declared and found, the stages of an accepted plan respect   *)
(* every dependency (planner.ts, graph.ts), it writes nothing on what is    *)
(* blocked or unknown (live-planner.ts), and it closes no access on an      *)
(* endpoint that is not approved (network-protection.ts).                   *)
THEOREM PlanIsCautiousCorrect == Spec => []PlanIsCautious
<1>1. WholeInv => PlanIsCautious
  BY ArtifactIsCautious DEF WholeInv, PlanIsCautious
<1> QED BY <1>1, PlanInvariant, PTL

(* Whatever is declared and found, the reader (isDeploymentPlan in          *)
(* plan-artifact.ts) takes what the planner writes (planner.ts and          *)
(* live-planner.ts), but for two entries that mean one gateway, IDs that    *)
(* differ by their case alone, and a file too large for its Lakehouse; and  *)
(* those it refuses.                                                        *)
THEOREM WrittenIsAcceptedCorrect == Spec => []WrittenIsAccepted
<1>1. WholeInv => WrittenIsAccepted
  <2>1. ASSUME WholeInv, stage \in {"accepted", "refused"}
        PROVE  stage = "refused" <=> SharedGateway \/ CaseOnlyApart \/ LargeArtifact
    <3>1. ArtifactInv /\ ManifestValid /\ PlanFacts /\ ReadFacts
      BY <2>1 DEF WholeInv, ArtifactInv
    <3>2. stage = "refused" <=> ~IsDeploymentPlan
      BY <2>1, <3>1 DEF ArtifactInv
    <3> QED BY <3>1, <3>2, WhatIsRefused
  <2> QED BY <2>1 DEF WrittenIsAccepted
<1> QED BY <1>1, PlanInvariant, PTL

(* All that is asked of a plan: of what it says, of what it was made of, of *)
(* who may apply it, and of what the files say of that afterwards.          *)
THEOREM PlanInvCorrect == Spec => []PlanInv
<1>1. WholeInv => ApprovalTypeOK
  BY DEF WholeInv, ApprovalInv, ShapeInv, TypesInv, PlansInv, Statuses, ApprovalTypeOK
<1> QED BY <1>1, PlanInvariant, PlannedIsSnapshotCorrect, CompletedAsPlannedCorrect, ResultSettledCorrect,
  PlanIsCautiousCorrect, PTL DEF PlanInv
=============================================================================
