--------------------------- MODULE SchedPoolProofs ---------------------------
(***************************************************************************)
(* When tasks are created with kthread_run only, which blocks the core's   *)
(* scheduler around the insertion, the pool is a list sorted by priority   *)
(* that holds exactly the registered tasks, a dead task is met once, and   *)
(* the walk switches to a task that no task able to run outranks: for any  *)
(* number of tasks and any priorities.  With task_run, as the application  *)
(* loader calls it, a tick may come inside the insertion and a reap beside *)
(* the place that was found: then a task is lost from the list.  A core    *)
(* that hangs on a spin lock hangs for good.                               *)
(***************************************************************************)
EXTENDS SchedProofs, FiniteSetTheorems, WellFoundedInduction

\* The nodes M, linked by nx and pv from h on, are sorted by priority; rk ranks them
\* in the order of the list.
Sorted(M, h, nx, pv, rk) ==
    /\ M = {} \/ h \in M
    /\ \A t, u \in M : /\ rk[t] = rk[u] => t = u
                       /\ rk[t] < rk[u] => Prio[t] >= Prio[u]
    /\ \A t \in M : nx[t] # NULL =>
          /\ nx[t] \in M /\ pv[nx[t]] = t /\ rk[t] < rk[nx[t]]
          /\ \A u \in M : rk[u] <= rk[t] \/ rk[nx[t]] <= rk[u]
    /\ \A t \in M : pv[t] # NULL => pv[t] \in M /\ nx[pv[t]] = t
    /\ \A t \in M : pv[t] = NULL <=> t = h
    /\ \A t \in M : rk[h] <= rk[t]

\* nx2 and pv2 are nx and pv with n put in before p.
Spliced(M, nx, pv, n, p, nx2, pv2) ==
    /\ nx2[n] = p /\ pv2[n] = pv[p] /\ pv2[p] = n
    /\ pv[p] # NULL => nx2[pv[p]] = n
    /\ \A t \in M : t # pv[p] => nx2[t] = nx[t]
    /\ \A t \in M : t # p => pv2[t] = pv[t]

\* Doubling leaves room for a rank in between.
LEMMA Between ==
    \A a, b \in Nat : /\ 2 * a # 2 * b + 1
                      /\ 2 * a < 2 * b + 1 <=> a <= b
                      /\ 2 * b + 1 < 2 * a <=> b < a
                      /\ 2 * a + 1 < 2 * b + 1 <=> a < b
                      /\ 2 * a + 1 = 2 * b + 1 <=> a = b
  OBVIOUS

\* A new node n put before p, where everything before p ranks above n and p does not,
\* leaves a sorted list (add_a_task_node).
LEMMA InsertSorted ==
    ASSUME NEW M \in SUBSET Tasks, NEW h \in TaskOrNull, NEW rk \in [Tasks -> Nat],
           NEW nx \in [Tasks -> TaskOrNull], NEW pv \in [Tasks -> TaskOrNull],
           Sorted(M, h, nx, pv, rk),
           NEW n \in Tasks \ M, NEW p \in M,
           pv[p] # NULL => Prio[pv[p]] > Prio[n], Prio[p] <= Prio[n],
           NEW nx2 \in [Tasks -> TaskOrNull], NEW pv2 \in [Tasks -> TaskOrNull],
           Spliced(M, nx, pv, n, p, nx2, pv2)
    PROVE  \E r2 \in [Tasks -> Nat] :
              Sorted(M \cup {n}, IF pv[p] = NULL THEN n ELSE h, nx2, pv2, r2)
  <1> DEFINE r2 == [t \in Tasks |-> IF t = n THEN 2 * rk[p] ELSE 2 * rk[t] + 1]
             M2 == M \cup {n}
             h2 == IF pv[p] = NULL THEN n ELSE h
  <1> USE PoolAssumption DEF Spliced
  <1>1. r2 \in [Tasks -> Nat] /\ r2[n] = 2 * rk[p] /\ \A t \in M : r2[t] = 2 * rk[t] + 1
    OBVIOUS
  <1>2. \A t \in M : rk[t] \in Nat /\ Prio[t] \in Nat
    OBVIOUS
  <1>3. n \notin M /\ n \in M2 /\ p \in M2 /\ Prio[n] \in Nat /\ M2 \subseteq Tasks /\ n # NULL
    BY DEF TaskOrNull
  <1> HIDE DEF r2
  <1>4. \A t \in M : rk[t] < rk[p] => Prio[t] >= Prio[n]
    <2> TAKE t \in M
    <2> HAVE rk[t] < rk[p]
    <2>1. pv[p] # NULL
      BY <1>2 DEF Sorted
    <2>2. pv[p] \in M /\ nx[pv[p]] = p
      BY <2>1 DEF Sorted
    <2>3. rk[t] <= rk[pv[p]]
      BY <1>2, <1>3, <2>2 DEF Sorted, TaskOrNull
    <2>4. Prio[t] >= Prio[pv[p]]
      BY <1>2, <2>2, <2>3 DEF Sorted
    <2>5. QED
      BY <1>2, <1>3, <2>1, <2>2, <2>4
  <1>5. \A t \in M : rk[p] <= rk[t] => Prio[n] >= Prio[t]
    BY <1>2, <1>3 DEF Sorted
  <1>6. h2 \in M2
    BY DEF Sorted
  <1>7. \A t, u \in M2 : /\ r2[t] = r2[u] => t = u
                         /\ r2[t] < r2[u] => Prio[t] >= Prio[u]
    <2>1. ASSUME NEW t \in M, NEW u \in M PROVE
            (r2[t] = r2[u] => t = u) /\ (r2[t] < r2[u] => Prio[t] >= Prio[u])
      <3>1. /\ r2[u] = 2 * rk[u] + 1 /\ r2[t] = 2 * rk[t] + 1 /\ rk[u] \in Nat /\ rk[t] \in Nat
        BY <1>1, <1>2
      <3>2. (r2[t] = r2[u] => rk[t] = rk[u]) /\ (r2[t] < r2[u] => rk[t] < rk[u])
        BY <3>1, Between
      <3>3. QED
        BY <3>2 DEF Sorted
    <2>2. ASSUME NEW u \in M PROVE
            r2[n] # r2[u] /\ (r2[n] < r2[u] => Prio[n] >= Prio[u]) /\ (r2[u] < r2[n] => Prio[u] >= Prio[n])
      <3>1. r2[u] = 2 * rk[u] + 1 /\ r2[n] = 2 * rk[p] /\ rk[u] \in Nat /\ rk[p] \in Nat
        BY <1>1, <1>2
      <3>2. r2[n] # r2[u] /\ (r2[n] < r2[u] => rk[p] <= rk[u]) /\ (r2[u] < r2[n] => rk[u] < rk[p])
        BY <3>1, Between
      <3>3. QED
        BY <1>4, <1>5, <3>2
    <2>3. r2[n] \in Nat /\ ~(r2[n] < r2[n])
      BY <1>1
    <2>4. QED
      BY <2>1, <2>2, <2>3
  <1>8. ASSUME NEW t \in M2, nx2[t] # NULL
        PROVE  /\ nx2[t] \in M2 /\ pv2[nx2[t]] = t /\ r2[t] < r2[nx2[t]]
               /\ \A u \in M2 : r2[u] <= r2[t] \/ r2[nx2[t]] <= r2[u]
    <2>1. CASE t = n
      BY <1>1, <1>2, <2>1
    <2>2. CASE t # n /\ t = pv[p]
      <3>1. t \in M /\ nx[t] = p /\ nx2[t] = n /\ pv2[n] = t
        BY <1>8, <2>2 DEF Sorted, TaskOrNull
      <3>2. rk[t] < rk[p] /\ \A u \in M : rk[u] <= rk[t] \/ rk[p] <= rk[u]
        BY <1>3, <3>1 DEF Sorted, TaskOrNull
      <3>3. r2[t] < r2[n]
        BY <1>1, <1>2, <3>1, <3>2, Between
      <3>4. \A u \in M : r2[u] <= r2[t] \/ r2[n] <= r2[u]
        BY <1>1, <1>2, <3>1, <3>2, Between
      <3>5. QED
        BY <1>1, <3>1, <3>3, <3>4
    <2>3. CASE t # n /\ t # pv[p]
      <3>1. t \in M /\ nx2[t] = nx[t] /\ nx[t] \in M /\ pv[nx[t]] = t /\ rk[t] < rk[nx[t]]
            /\ \A u \in M : rk[u] <= rk[t] \/ rk[nx[t]] <= rk[u]
        BY <1>8, <2>3 DEF Sorted
      <3>2. nx[t] # p
        BY <2>3, <3>1
      <3>3. pv2[nx[t]] = t
        BY <3>1, <3>2
      <3>4. r2[n] <= r2[t] \/ r2[nx[t]] <= r2[n]
        <4>1. rk[p] <= rk[t] \/ rk[nx[t]] < rk[p]
          BY <1>2, <3>1, <3>2 DEF Sorted
        <4>2. QED
          BY <1>1, <1>2, <3>1, <4>1
      <3>5. r2[t] < r2[nx[t]] /\ \A u \in M : r2[u] <= r2[t] \/ r2[nx[t]] <= r2[u]
        BY <1>1, <1>2, <3>1
      <3>6. QED
        BY <3>1, <3>3, <3>4, <3>5
    <2>4. QED
      BY <2>1, <2>2, <2>3
  <1>9. \A t \in M2 : pv2[t] # NULL => pv2[t] \in M2 /\ nx2[pv2[t]] = t
    <2> SUFFICES ASSUME NEW t \in M2, pv2[t] # NULL PROVE pv2[t] \in M2 /\ nx2[pv2[t]] = t
      OBVIOUS
    <2>1. CASE t = n \/ t = p
      BY <2>1 DEF Sorted
    <2>2. CASE t # n /\ t # p
      <3>1. t \in M /\ pv2[t] = pv[t] /\ pv[t] \in M /\ nx[pv[t]] = t
        BY <2>2 DEF Sorted
      <3>2. pv[t] # pv[p]
        BY <2>2, <3>1 DEF Sorted
      <3>3. QED
        BY <3>1, <3>2
    <2>3. QED
      BY <2>1, <2>2
  <1>10. \A t \in M2 : pv2[t] = NULL <=> t = h2
    BY <1>3 DEF Sorted, TaskOrNull
  <1>11. \A t \in M2 : r2[h2] <= r2[t]
    <2>1. CASE pv[p] = NULL
      BY <1>1, <1>2, <2>1 DEF Sorted
    <2>2. CASE pv[p] # NULL
      <3>1. h \in M /\ h # p /\ \A t \in M : rk[h] <= rk[t]
        BY <2>2 DEF Sorted
      <3>2. rk[h] < rk[p]
        BY <1>2, <3>1 DEF Sorted
      <3>3. QED
        BY <1>1, <1>2, <2>2, <3>1, <3>2
    <2>3. QED
      BY <2>1, <2>2
  <1>12. Sorted(M2, h2, nx2, pv2, r2)
    BY <1>6, <1>7, <1>8, <1>9, <1>10, <1>11 DEF Sorted
  <1>13. QED
    BY <1>1, <1>12

\* Taking out a node that has a successor leaves a sorted list (remove_task_from_pool).
LEMMA RemoveSorted ==
    ASSUME NEW M \in SUBSET Tasks, NEW h \in TaskOrNull, NEW rk \in [Tasks -> Nat],
           NEW nx \in [Tasks -> TaskOrNull], NEW pv \in [Tasks -> TaskOrNull],
           Sorted(M, h, nx, pv, rk), NEW x \in M, nx[x] # NULL
    PROVE  Sorted(M \ {x}, IF h = x THEN nx[x] ELSE h,
                  Write(nx, pv[x], nx[x]), Write(pv, nx[x], pv[x]), rk)
  <1> DEFINE nx2 == Write(nx, pv[x], nx[x])
             pv2 == Write(pv, nx[x], pv[x])
             M2 == M \ {x}
             h2 == IF h = x THEN nx[x] ELSE h
  <1> USE PoolAssumption
  <1>1. nx[x] \in M2 /\ pv[nx[x]] = x /\ rk[x] < rk[nx[x]]
        /\ \A u \in M : rk[u] <= rk[x] \/ rk[nx[x]] <= rk[u]
    BY DEF Sorted
  <1>2. \A t \in M : rk[t] \in Nat /\ t # NULL
    BY DEF TaskOrNull
  <1>3. pv[x] # NULL => /\ pv[x] \in M2 /\ nx[pv[x]] = x /\ rk[pv[x]] < rk[x]
                        /\ \A u \in M : rk[u] <= rk[pv[x]] \/ rk[x] <= rk[u]
    BY <1>2 DEF Sorted
  <1>4. \A t \in M2 : nx2[t] = IF t = pv[x] THEN nx[x] ELSE nx[t]
    BY <1>2, <1>3 DEF Write
  <1>5. \A t \in M2 : pv2[t] = IF t = nx[x] THEN pv[x] ELSE pv[t]
    BY <1>1, <1>2 DEF Write
  <1> HIDE DEF nx2, pv2
  <1>6. h2 \in M2
    BY <1>1 DEF Sorted
  <1>7. ASSUME NEW t \in M2, nx2[t] # NULL
        PROVE  /\ nx2[t] \in M2 /\ pv2[nx2[t]] = t /\ rk[t] < rk[nx2[t]]
               /\ \A u \in M2 : rk[u] <= rk[t] \/ rk[nx2[t]] <= rk[u]
    <2>1. CASE t = pv[x]
      <3>1. nx2[t] = nx[x] /\ pv2[nx[x]] = t
        BY <1>1, <1>4, <1>5, <2>1
      <3>2. rk[t] < rk[nx[x]]
        BY <1>1, <1>2, <1>3, <2>1
      <3>3. \A u \in M2 : rk[u] # rk[x]
        BY DEF Sorted
      <3>4. \A u \in M2 : rk[u] <= rk[t] \/ rk[nx[x]] <= rk[u]
        BY <1>1, <1>2, <1>3, <2>1, <3>3
      <3>5. QED
        BY <1>1, <3>1, <3>2, <3>4
    <2>2. CASE t # pv[x]
      <3>1. nx2[t] = nx[t] /\ nx[t] \in M /\ pv[nx[t]] = t
        BY <1>4, <1>7, <2>2 DEF Sorted
      <3>2. nx[t] # x /\ nx[t] # nx[x]
        BY <1>1, <2>2, <3>1
      <3>3. pv2[nx[t]] = t
        BY <1>5, <3>1, <3>2
      <3>4. QED
        BY <1>7, <3>1, <3>2, <3>3 DEF Sorted
    <2>3. QED
      BY <2>1, <2>2
  <1>8. ASSUME NEW t \in M2, pv2[t] # NULL PROVE pv2[t] \in M2 /\ nx2[pv2[t]] = t
    <2>1. CASE t = nx[x]
      BY <1>3, <1>4, <1>5, <1>8, <2>1
    <2>2. CASE t # nx[x]
      <3>1. pv2[t] = pv[t] /\ pv[t] \in M /\ nx[pv[t]] = t
        BY <1>5, <1>8, <2>2 DEF Sorted
      <3>2. pv[t] # x
        BY <2>2, <3>1
      <3>3. pv[t] # pv[x]
        BY <1>3, <1>8, <3>1
      <3>4. QED
        BY <1>4, <3>1, <3>2, <3>3
    <2>3. QED
      BY <2>1, <2>2
  <1>9. \A t \in M2 : pv2[t] = NULL <=> t = h2
    BY <1>1, <1>3, <1>5 DEF Sorted
  <1>10. \A t \in M2 : rk[h2] <= rk[t]
    BY <1>1, <1>2 DEF Sorted
  <1>11. \A t, u \in M2 : /\ rk[t] = rk[u] => t = u
                          /\ rk[t] < rk[u] => Prio[t] >= Prio[u]
    BY DEF Sorted
  <1>12. Sorted(M2, h2, nx2, pv2, rk)
    BY <1>6, <1>7, <1>8, <1>9, <1>10, <1>11 DEF Sorted
  <1>13. QED
    BY <1>12 DEF nx2, pv2

-----------------------------------------------------------------------------
\* A nonempty set of naturals has a least element.
LEMMA LeastNat ==
    ASSUME NEW S \in SUBSET Nat, S # {}
    PROVE  \E m \in S : \A k \in S : m <= k
  <1> DEFINE R == OpToRel(<, Nat)
  <1>1. R = {ss \in Nat \X Nat : ss[1] < ss[2]}
    BY DEF OpToRel
  <1>2. IsWellFoundedOn(R, Nat)
    BY NatLessThanWellFounded, Zenon
  <1> HIDE DEF R
  <1>3. PICK x \in S : \A y \in S : ~ (<<y, x>> \in R)
    BY <1>2, WFMin, Zenon
  <1>4. \A y \in S : ~(y < x)
    BY <1>1, <1>3
  <1>5. QED
    BY <1>4

\* The walk from head along next is defined for every number of steps.
LEMMA WalkExists ==
    ASSUME NEW N \in Nat
    PROVE  \E f : f = [i \in 0 .. N |-> IF i = 0 THEN head
                                        ELSE IF f[i - 1] = NULL THEN NULL ELSE nxt[f[i - 1]]]
  <1> DEFINE Rec(f, n) == f = [i \in 0 .. n |-> IF i = 0 THEN head
                                ELSE IF f[i - 1] = NULL THEN NULL ELSE nxt[f[i - 1]]]
             Bad == {n \in Nat : ~ \E f : Rec(f, n)}
  <1>1. ASSUME Bad # {} PROVE FALSE
    <2>1. Bad \in SUBSET Nat
      OBVIOUS
    <2> HIDE DEF Bad
    <2>2. PICK m \in Bad : \A k \in Bad : m <= k
      BY <1>1, <2>1, LeastNat
    <2> USE DEF Bad
    <2>3. CASE m = 0
      <3>1. Rec([i \in 0 .. 0 |-> head], 0)
        OBVIOUS
      <3>2. QED
        BY <2>2, <2>3, <3>1
    <2>4. CASE m # 0
      <3>1. m - 1 \in Nat /\ m - 1 \notin Bad
        BY <2>2, <2>4
      <3>2. PICK f : Rec(f, m - 1)
        BY <3>1
      <3> DEFINE g == [i \in 0 .. m |-> IF i = 0 THEN head
                                        ELSE IF f[i - 1] = NULL THEN NULL ELSE nxt[f[i - 1]]]
      <3>3. \A i \in 0 .. m : i # 0 => i - 1 \in 0 .. m - 1 /\ i - 1 \in 0 .. m
        BY <2>2
      <3>4. \A i \in 0 .. m - 1 : f[i] = g[i]
        BY <2>2, <3>2
      <3>5. \A i \in 0 .. m : i # 0 => f[i - 1] = g[i - 1]
        BY <3>3, <3>4
      <3>6. Rec(g, m)
        BY <3>5
      <3>7. QED
        BY <2>2, <3>6
    <2>5. QED
      BY <2>3, <2>4
  <1>2. QED
    BY <1>1

\* PoolNode follows next from the head.
LEMMA PoolNodeIs ==
    ASSUME IsFiniteSet(Tasks)
    PROVE  /\ PoolNode[0] = head
           /\ \A i \in 1 .. Cardinality(Tasks) :
                 PoolNode[i] = IF PoolNode[i - 1] = NULL THEN NULL ELSE nxt[PoolNode[i - 1]]
  <1>1. Cardinality(Tasks) \in Nat
    BY FS_CardinalityType
  <1> DEFINE N == Cardinality(Tasks)
             Rec(f) == f = [i \in 0 .. N |-> IF i = 0 THEN head
                              ELSE IF f[i - 1] = NULL THEN NULL ELSE nxt[f[i - 1]]]
  <1> HIDE DEF N
  <1>2. \E f : Rec(f)
    <2>1. N \in Nat
      BY <1>1 DEF N
    <2>2. QED
      BY <2>1, WalkExists, Zenon
  <1>3. PoolNode = CHOOSE f : Rec(f)
    BY DEF PoolNode, N
  <1>4. Rec(PoolNode)
    BY <1>2, <1>3, Zenon
  <1>5. QED
    BY <1>1, <1>4 DEF N

\* Induction up to N, for a set.
LEMMA UpTo ==
    ASSUME NEW N \in Nat, NEW S, 0 \in S, \A i \in 0 .. N - 1 : i \in S => i + 1 \in S
    PROVE  \A i \in 0 .. N : i \in S
  <1> DEFINE Bad == {i \in 0 .. N : i \notin S}
  <1>1. ASSUME Bad # {} PROVE FALSE
    <2>1. Bad \in SUBSET Nat
      OBVIOUS
    <2> HIDE DEF Bad
    <2>2. PICK m \in Bad : \A k \in Bad : m <= k
      BY <1>1, <2>1, LeastNat
    <2> USE DEF Bad
    <2>3. m \in 0 .. N /\ m # 0 /\ m - 1 \in 0 .. N - 1 /\ m - 1 \notin Bad
      BY <2>2
    <2>4. QED
      BY <2>2, <2>3
  <1>2. QED
    BY <1>1

\* The tasks met by following next from the head are the nodes of the sorted list.
LEMMA PoolIsList ==
    ASSUME TypeOK, IsFiniteSet(Tasks), NEW M \in SUBSET Tasks, NEW rk \in [Tasks -> Nat],
           Sorted(M, head, nxt, prv, rk), M # {}
    PROVE  InPool = M
  <1> DEFINE N == Cardinality(Tasks)
  <1>1. N \in Nat
    BY FS_CardinalityType
  <1>2. /\ PoolNode[0] = head
        /\ \A i \in 0 .. N - 1 : PoolNode[i + 1] = IF PoolNode[i] = NULL THEN NULL ELSE nxt[PoolNode[i]]
    <2>1. \A i \in 0 .. N - 1 : i + 1 \in 1 .. N /\ (i + 1) - 1 = i
      BY <1>1
    <2>2. QED
      BY <2>1, PoolNodeIs
  <1>3. \A t \in M : t # NULL /\ rk[t] \in Nat
    BY PoolAssumption
  <1>4. InPool = {PoolNode[i] : i \in 0 .. N} \ {NULL}
    BY DEF InPool
  <1> HIDE DEF N
  <1> DEFINE Good == {i \in 0 .. N : PoolNode[i] \in M \cup {NULL}}
  <1>5. \A i \in 0 .. N : PoolNode[i] \in M \cup {NULL}
    <2>1. 0 \in Good
      BY <1>1, <1>2 DEF Sorted
    <2>2. \A i \in 0 .. N - 1 : i \in Good => i + 1 \in Good
      BY <1>1, <1>2 DEF Sorted
    <2> HIDE DEF Good
    <2>3. \A i \in 0 .. N : i \in Good
      BY <1>1, <2>1, <2>2, UpTo
    <2>4. QED
      BY <2>3 DEF Good
  <1> DEFINE Up == {j \in 0 .. N : PoolNode[j] # NULL =>
                        \A i \in 0 .. j - 1 : PoolNode[i] # NULL /\ rk[PoolNode[i]] < rk[PoolNode[j]]}
  <1>6. \A j \in 0 .. N : j \in Up
    <2>1. 0 \in Up
      BY <1>1
    <2>2. ASSUME NEW j \in 0 .. N - 1, j \in Up PROVE j + 1 \in Up
      <3> SUFFICES ASSUME PoolNode[j + 1] # NULL, NEW i \in 0 .. j
                   PROVE  PoolNode[i] # NULL /\ rk[PoolNode[i]] < rk[PoolNode[j + 1]]
        BY <1>1
      <3>1. PoolNode[j] # NULL /\ PoolNode[j + 1] = nxt[PoolNode[j]]
        BY <1>2
      <3>2. PoolNode[j] \in M /\ j \in 0 .. N
        BY <1>1, <1>5, <3>1
      <3>3. PoolNode[j + 1] \in M /\ rk[PoolNode[j]] < rk[PoolNode[j + 1]]
        BY <3>1, <3>2 DEF Sorted
      <3>4. CASE i = j
        BY <3>1, <3>3, <3>4
      <3>5. CASE i # j
        <4>1. i \in 0 .. j - 1 /\ i \in 0 .. N
          BY <1>1, <3>5
        <4>2. PoolNode[i] # NULL /\ rk[PoolNode[i]] < rk[PoolNode[j]]
          BY <2>2, <3>1, <4>1
        <4>3. PoolNode[i] \in M
          BY <1>5, <4>1, <4>2
        <4>4. QED
          BY <1>3, <3>2, <3>3, <4>2, <4>3
      <3>6. QED
        BY <3>4, <3>5
    <2> HIDE DEF Up
    <2>3. QED
      BY <1>1, <2>1, <2>2, UpTo
  <1>7. PoolNode[N] = NULL
    <2> SUFFICES ASSUME PoolNode[N] # NULL PROVE FALSE
      OBVIOUS
    <2>1. \A i \in 0 .. N : PoolNode[i] \in M
      BY <1>1, <1>5, <1>6
    <2> DEFINE f == [i \in 0 .. N |-> PoolNode[i]]
    <2>2. f \in [0 .. N -> Tasks] /\ \A i \in 0 .. N : f[i] = PoolNode[i]
      BY <2>1
    <2>3. IsFiniteSet(0 .. N) /\ Cardinality(0 .. N) = N + 1
      BY <1>1, FS_Interval
    <2> HIDE DEF f
    <2>4. PICK i, j \in 0 .. N : i # j /\ f[i] = f[j]
      BY <1>1, <2>2, <2>3, FS_PigeonHole DEF N
    <2>5. i < j \/ j < i
      BY <1>1, <2>4
    <2>6. rk[PoolNode[i]] # rk[PoolNode[j]]
      BY <1>1, <1>3, <1>6, <2>1, <2>5
    <2>7. QED
      BY <2>2, <2>4, <2>6
  <1>8. ASSUME NEW t \in M, t \notin InPool PROVE FALSE
    <2> DEFINE Bad == {rk[u] : u \in {v \in M : v \notin InPool}}
    <2>1. Bad \in SUBSET Nat /\ Bad # {}
      BY <1>3, <1>8
    <2> HIDE DEF Bad
    <2>2. PICK m \in Bad : \A k \in Bad : m <= k
      BY <2>1, LeastNat
    <2>3. PICK u \in M : u \notin InPool /\ m = rk[u]
      BY <2>2 DEF Bad
    <2>4. head \in InPool
      BY <1>1, <1>2, <1>3, <1>4 DEF Sorted
    <2>5. prv[u] \in M /\ nxt[prv[u]] = u /\ rk[prv[u]] < rk[u]
      BY <1>3, <2>3, <2>4 DEF Sorted
    <2>6. prv[u] \in InPool
      BY <1>3, <2>2, <2>3, <2>5 DEF Bad
    <2>7. PICK i \in 0 .. N : prv[u] = PoolNode[i]
      BY <1>4, <2>6
    <2>8. i # N
      BY <1>3, <1>7, <2>5, <2>7
    <2>9. i \in 0 .. N - 1 /\ i + 1 \in 0 .. N
      BY <1>1, <2>8
    <2>10. PoolNode[i + 1] = u
      BY <1>2, <1>3, <2>5, <2>7, <2>9
    <2>11. QED
      BY <1>3, <1>4, <2>3, <2>9, <2>10
  <1>9. QED
    BY <1>3, <1>4, <1>5, <1>8

-----------------------------------------------------------------------------
(* One insertion at a time, with the scheduler blocked.                    *)

\* kthread_run is the only way to create a task after boot.
KthreadOnly == Ways = {"kthread"}

\* Where the creator of a task may stand: it goes on, or a lock has refused it.
CreatorAt == {"create", "refused", "retry"}

\* While a task is being created nothing else happens on the core: the creator is
\* inside kthread_run and its scheduler is blocked.  It pends PendSV, which then does
\* nothing, only while a lock refuses it and before n is on any list.
Solo ==
    /\ \A m, n \in Creating : m = n
    /\ ~started => current = NULL /\ walk = NULL /\ ~pendsv
    /\ \A n \in Creating :
          /\ walk = NULL
          /\ pendsv => add[n].step = "take"
          /\ add[n].step # "take" => tlist[n] = "alive"
          /\ started => add[n].by = current /\ s_flag = "BLOCKED"
          /\ started => current # NULL /\ pc[current] \in CreatorAt
          /\ started /\ pc[current] # "create" => add[n].step = "take"
          /\ ~started => add[n].by = NULL
    /\ \A n \in Tasks \ {Default} : add[n].step # "none" => add[n].way = "kthread"
    /\ \A n \in Tasks : add[n].step \in {"none", "take"} <=> tlist[n] = "none"
    /\ \A n \in Tasks : ~Linked(n) => prv[n] = NULL

\* No task is being created during a walk, nor while a task runs code of its own.
LEMMA NobodyCreates ==
    ASSUME Solo, walk # NULL \/ (s_flag = "RUN" /\ started)
                 \/ (started /\ current # NULL /\ pc[current] \notin CreatorAt)
    PROVE  Creating = {}
  BY DEF Solo

\* Solo is preserved by every step.
LEMMA SoloStep == ASSUME KthreadOnly, Inv, Solo, [Next]_vars PROVE Solo'
  <1> USE PoolAssumption, DefaultAssumption
      DEF Inv, TypeOK, TaskOrNull, taskvars, corevars, AddStep, Creating, Linked
  <1>1. ASSUME NEW n \in Tasks, NEW c \in TaskOrNull, NEW w \in Way, BeginTask(n, c, w), Creating = {},
               walk = NULL, ~pendsv,
               started => c = current /\ c # NULL /\ w = "kthread",
               ~started => c = NULL, n # Default => w = "kthread"
        PROVE  Solo'
    <2>1. Creating' = {n}
      BY <1>1 DEF BeginTask
    <2>2. /\ add'[n].by = c /\ add'[n].way = w /\ add'[n].step = "take"
          /\ \A m \in Tasks \ {n} : add'[m] = add[m]
          /\ UNCHANGED <<started, current, walk, pendsv, prv, tlist>>
          /\ w = "kthread" => s_flag' = "BLOCKED"
          /\ c # NULL => pc'[c] = "create"
          /\ add[n].step = "none"
      BY <1>1 DEF BeginTask, Write
    <2>3. \A m \in Tasks : ~Linked(m)' => prv'[m] = NULL
      BY <2>2 DEF Solo
    <2>4. \A m \in Tasks : add'[m].step \in {"none", "take"} <=> tlist'[m] = "none"
      BY <2>2 DEF Solo
    <2>5. \A m \in Tasks \ {Default} : add'[m].step # "none" => add'[m].way = "kthread"
      BY <1>1, <2>2 DEF Solo
    <2>6. ~started' => current' = NULL /\ walk' = NULL /\ ~pendsv'
      BY <2>2 DEF Solo
    <2> HIDE DEF Creating, Linked
    <2>7. QED
      BY <1>1, <2>1, <2>2, <2>3, <2>4, <2>5, <2>6 DEF Solo, CreatorAt
  <1>2. ASSUME NEW n \in Tasks, BootTask(n) PROVE Solo'
    <2>1. PICK w \in Way : BeginTask(n, NULL, w) /\ (n # Default => w = "kthread")
      BY <1>2 DEF BootTask, Way
    <2>2. Creating = {} /\ ~started /\ walk = NULL /\ ~pendsv
      BY <1>2 DEF BootTask, Solo
    <2>3. PICK c \in TaskOrNull : c = NULL
      OBVIOUS
    <2>4. BeginTask(n, c, w)
      BY <2>1, <2>3
    <2>5. QED
      BY <1>1, <2>1, <2>2, <2>3, <2>4
  <1>3. ASSUME NEW n \in Tasks, NEW c \in Tasks, LocalTask(c, n) PROVE Solo'
    <2>1. walk = NULL /\ ~pendsv /\ started /\ c = current /\ pc[c] \notin CreatorAt
      BY <1>3 DEF LocalTask, Running, CreatorAt
    <2> HIDE DEF Creating
    <2>2. Creating = {}
      BY <2>1, NobodyCreates
    <2>3. BeginTask(n, c, "kthread")
      BY <1>3 DEF LocalTask, KthreadOnly
    <2>4. QED
      BY <1>1, <2>1, <2>2, <2>3 DEF Way
  <1>4. ASSUME NEW n \in Tasks, AddTask(n) PROVE Solo'
    <2>1. /\ Creating = {n} /\ add[n].step # "none" /\ ~pendsv /\ walk = NULL
          /\ started => pc[current] = "create" /\ add[n].by = current
      BY <1>4 DEF AddTask, CreateTask, Refused, SearchPlace, LinkNew, LinkPrev, LinkPlace, Publish,
                  Unblock, CanCreate, Running, Solo
    <2>2. /\ UNCHANGED <<started, current, walk, pendsv>>
          /\ \A m \in Tasks \ {n} : add'[m] = add[m] /\ tlist'[m] = tlist[m]
          /\ add'[n].by = add[n].by /\ add'[n].way = add[n].way
          /\ tlist'[n] = IF CreateTask(n) THEN "alive" ELSE tlist[n]
          /\ CreateTask(n) => add'[n].step = "search"
          /\ Refused(n) => add'[n].step = "take" /\ add[n].step = "take"
          /\ ~CreateTask(n) /\ ~Refused(n) =>
                add'[n].step \notin {"none", "take"} /\ add[n].step \notin {"none", "take"}
      <3>1. CASE CreateTask(n)
        BY <3>1 DEF CreateTask, Refused
      <3>2. CASE Refused(n)
        BY <3>2 DEF Refused, CreateTask
      <3>3. CASE ~CreateTask(n) /\ ~Refused(n)
        BY <1>4, <3>3 DEF AddTask, SearchPlace, LinkNew, LinkPrev, LinkPlace, Publish, Unblock
      <3>4. QED
        BY <3>1, <3>2, <3>3
    <2>3. Creating' \subseteq {n}
      BY <2>1, <2>2
    <2>4. n \in Creating' => /\ s_flag' = s_flag
                             /\ pc' = pc \/ Refused(n)
      <3>1. CASE Publish(n)
        <4>1. add[n].way = "kthread" \/ n = Default
          BY <2>1 DEF Solo
        <4>2. CASE add[n].way = "kthread"
          BY <3>1, <4>2 DEF Publish
        <4>3. CASE n = Default
          BY <3>1, <4>3 DEF Publish, BootInv
        <4>4. QED
          BY <4>1, <4>2, <4>3
      <3>2. CASE Unblock(n)
        BY <3>2 DEF Unblock
      <3>3. QED
        BY <1>4, <3>1, <3>2 DEF AddTask, CreateTask, Refused, SearchPlace, LinkNew, LinkPrev, LinkPlace
    <2>5. \A m \in Tasks : ~Linked(m)' => prv'[m] = NULL
      <3>1. CASE LinkNew(n)
        BY <3>1 DEF LinkNew, Solo
      <3>2. CASE LinkPlace(n)
        <4>1. n # Default /\ add[n].place \in Tasks /\ Linked(add[n].place)
          BY <3>2 DEF LinkPlace, BootInv, PlaceInv
        <4>2. \A m \in Tasks : Linked(m) => Linked(m)'
          BY LinkedGrows
        <4>3. QED
          BY <3>2, <4>1, <4>2 DEF LinkPlace, Solo
      <3>3. CASE ~LinkNew(n) /\ ~LinkPlace(n)
        <4>1. prv' = prv
          BY <1>4, <3>3 DEF AddTask, CreateTask, Refused, SearchPlace, LinkPrev, Publish, Unblock
        <4>2. \A m \in Tasks : Linked(m) => Linked(m)'
          BY LinkedGrows
        <4>3. QED
          BY <4>1, <4>2 DEF Solo
      <3>4. QED
        BY <3>1, <3>2, <3>3
    <2>6. \A m \in Tasks : add'[m].step \in {"none", "take"} <=> tlist'[m] = "none"
      BY <2>1, <2>2 DEF Solo
    <2>7. \A m \in Tasks \ {Default} : add'[m].step # "none" => add'[m].way = "kthread"
      BY <2>1, <2>2 DEF Solo
    <2>8. ~started' => current' = NULL /\ walk' = NULL /\ ~pendsv'
      BY <2>2 DEF Solo
    <2>9. started /\ Refused(n) => pc'[current] = "refused"
      BY <2>1 DEF Refused, Solo
    <2> HIDE DEF Creating, Linked
    <2>10. \A m \in Creating' :
             /\ walk' = NULL /\ ~pendsv'
             /\ add'[m].step # "take" => tlist'[m] = "alive"
             /\ started' => add'[m].by = current' /\ s_flag' = "BLOCKED"
             /\ started' => current' # NULL /\ pc'[current'] \in CreatorAt
             /\ started' /\ pc'[current'] # "create" => add'[m].step = "take"
             /\ ~started' => add'[m].by = NULL
      BY <2>1, <2>2, <2>3, <2>4, <2>9 DEF Solo, CreatorAt
    <2>11. QED
      BY <2>3, <2>5, <2>6, <2>7, <2>8, <2>10 DEF Solo
  <1>5. ASSUME NEW t \in Tasks, TaskCode(t) PROVE Solo'
    <2>1. started /\ current = t /\ walk = NULL /\ pc[t] # "create"
      BY <1>5 DEF TaskCode, DelayTime, DelayState, Yield, Exit, KernelFault, UserFault,
                  EnterLock, LeaveLock, FaultRefused, Running
    <2>2. UNCHANGED <<add, started, s_flag, walk>>
      BY <1>5 DEF TaskCode, DelayTime, DelayState, Yield, Exit, KernelFault, UserFault,
                  EnterLock, LeaveLock, FaultRefused
    <2>3. \A n \in Tasks : tlist'[n] = tlist[n] \/ (n = t /\ tlist'[n] = "death")
      BY <1>5 DEF TaskCode, DelayTime, DelayState, Yield, Exit, KernelFault, UserFault,
                  EnterLock, LeaveLock, FaultRefused
    <2>4. add[t].step \notin {"none", "take"}
      BY <2>1 DEF LinkInv
    <2>5. \A n \in Tasks : ~Linked(n) => prv'[n] = NULL
      <3>1. CASE KernelFault(t)
        BY <2>1, <3>1 DEF KernelFault, Remove, Unlink, Write, Solo, LinkInv
      <3>2. CASE ~KernelFault(t)
        BY <1>5, <3>2 DEF TaskCode, DelayTime, DelayState, Yield, Exit, UserFault,
                          EnterLock, LeaveLock, FaultRefused, Solo
      <3>3. QED
        BY <3>1, <3>2
    <2>6. CASE pc[t] \notin CreatorAt
      <3>1. Creating = {}
        BY <2>1, <2>6, NobodyCreates
      <3>2. QED
        BY <2>1, <2>2, <2>3, <2>4, <2>5, <3>1 DEF Solo
    <2>7. CASE pc[t] \in CreatorAt
      <3>1. UNCHANGED current /\ pc'[t] \in CreatorAt
        BY <1>5, <2>1, <2>7 DEF TaskCode, DelayTime, DelayState, Yield, Exit, KernelFault, UserFault,
                                EnterLock, LeaveLock, FaultRefused, CreatorAt
      <3>2. \A n \in Creating : add[n].step = "take"
        BY <2>1 DEF Solo
      <3>3. Creating' = Creating
        BY <2>2
      <3> HIDE DEF Creating, Linked
      <3>4. \A n \in Creating' :
               /\ walk' = NULL /\ add'[n].step = "take"
               /\ started' => add'[n].by = current' /\ s_flag' = "BLOCKED"
               /\ started' => current' # NULL /\ pc'[current'] \in CreatorAt
               /\ ~started' => add'[n].by = NULL
        BY <2>1, <2>2, <3>1, <3>2, <3>3 DEF Solo
      <3>5. /\ \A n \in Tasks : ~Linked(n)' => prv'[n] = NULL
            /\ \A n \in Tasks : add'[n].step \in {"none", "take"} <=> tlist'[n] = "none"
        BY <2>2, <2>3, <2>4, <2>5 DEF Solo, Linked
      <3>6. QED
        BY <2>1, <2>2, <3>3, <3>4, <3>5 DEF Solo
    <2>8. QED
      BY <2>6, <2>7
  <1>6. CASE Start \/ Tick \/ PendSV
    <2>1. CASE Start
      BY <2>1 DEF Start, Solo
    <2>2. CASE Tick
      BY <2>2, NobodyCreates DEF Tick, Solo
    <2>3. CASE PendSV /\ s_flag # "BLOCKED"
      BY <2>3, NobodyCreates DEF PendSV, Solo
    <2>4. CASE PendSV /\ s_flag = "BLOCKED"
      BY <2>4 DEF PendSV, Solo
    <2>5. QED
      BY <1>6, <2>1, <2>2, <2>3, <2>4
  <1>7. CASE WalkDead \/ WalkReady \/ WalkWake \/ WalkPast
    <2>1. Creating = {} /\ started /\ UNCHANGED <<add, started>> /\ walk # NULL
      BY <1>7, NobodyCreates DEF WalkDead, WalkReady, WalkWake, WalkPast, Solo
    <2>2. \A n \in Tasks : tlist'[n] = tlist[n] \/ (n = walk /\ tlist'[n] = "death")
      BY <1>7 DEF WalkDead, WalkReady, WalkWake, WalkPast
    <2>3. add[walk].step \notin {"none", "take"}
      BY <2>1 DEF LinkInv
    <2>4. \A n \in Tasks : ~Linked(n) => prv'[n] = NULL
      <3>1. CASE WalkDead
        BY <3>1 DEF WalkDead, Remove, Unlink, Write, Solo, LinkInv
      <3>2. CASE ~WalkDead
        BY <1>7, <3>2 DEF WalkReady, WalkWake, WalkPast, Solo
      <3>3. QED
        BY <3>1, <3>2
    <2>5. QED
      BY <2>1, <2>2, <2>3, <2>4 DEF Solo
  <1>8. CASE UNCHANGED vars
    BY <1>8 DEF vars, Solo
  <1> HIDE DEF Inv, TypeOK, Creating, Linked
  <1>9. QED
    BY <1>2, <1>3, <1>4, <1>5, <1>6, <1>7, <1>8 DEF Next, Handler, HandlerLoops

-----------------------------------------------------------------------------
(* The pool is a sorted list, up to the stores an insertion still owes.    *)

\* What an insertion knows of the place it has found, and has already stored.
AtPlace(n) ==
    /\ add[n].step \in {"search", "link", "prev", "place"} =>
          /\ add[n].place \in Registered
          /\ prv[add[n].place] # NULL => Prio[prv[add[n].place]] > Prio[n]
    /\ add[n].step \in {"link", "prev", "place"} => Prio[add[n].place] <= Prio[n]
    /\ add[n].step \in {"prev", "place"} => nxt[n] = add[n].place /\ prv[n] = prv[add[n].place]
    /\ add[n].step = "place" /\ prv[add[n].place] # NULL => nxt[prv[add[n].place]] = n

\* The list between two insertions; with the new node's predecessor pointing to it
\* already; and with the node in but the head not moved yet.
ListOK(rk) ==
    /\ (\A n \in Tasks : add[n].step \notin {"place", "publish"}) =>
          Sorted(Registered, head, nxt, prv, rk)
    /\ \A n \in Tasks : add[n].step = "place" =>
          Sorted(Registered, head, Write(nxt, prv[add[n].place], add[n].place), prv, rk)
    /\ \A n \in Tasks : add[n].step = "publish" =>
          Sorted(Registered \cup {n}, IF prv[head] # NULL THEN prv[head] ELSE head, nxt, prv, rk)

Able(t) == state[t] = "READY" \/ (state[t] = "WAITING" /\ Expired(t))

\* The walk stands at a registered task and has passed no task able to run.
WalkOK(rk) ==
    walk # NULL => walk \in Registered /\ \A t \in Registered : rk[t] < rk[walk] => ~Able(t)

PoolInv ==
    /\ \A n \in Tasks \ {Default} : AtPlace(n)
    /\ \E rk \in [Tasks -> Nat] : ListOK(rk) /\ WalkOK(rk)

\* Sorted looks at the links of the nodes only.
LEMMA SortedLinks ==
    ASSUME NEW M, NEW h, NEW rk, NEW nx, NEW pv, NEW nx2, NEW pv2, Sorted(M, h, nx, pv, rk),
           \A t \in M : nx2[t] = nx[t] /\ pv2[t] = pv[t]
    PROVE  Sorted(M, h, nx2, pv2, rk)
  <1>1. \A t \in M : nx2[t] # NULL =>
          /\ nx2[t] \in M /\ pv2[nx2[t]] = t /\ rk[t] < rk[nx2[t]]
          /\ \A u \in M : rk[u] <= rk[t] \/ rk[nx2[t]] <= rk[u]
    BY DEF Sorted
  <1>2. QED
    BY <1>1 DEF Sorted

\* default_task is registered once it is created.
LEMMA DefaultRegistered ==
    ASSUME Inv, Solo, add[Default].step = "done"
    PROVE  Default \in Registered
  BY PoolAssumption DEF Inv, TypeOK, Solo, LifeInv, Registered

\* With no insertion under way the pool is sorted and starts at a registered task.
LEMMA QuietPool ==
    ASSUME Inv, Solo, Creating = {}, add[Default].step = "done", NEW rk, ListOK(rk)
    PROVE  /\ Sorted(Registered, head, nxt, prv, rk) /\ head \in Registered
           /\ \A n \in Tasks : add[n].step \in {"none", "done"}
  BY DefaultRegistered DEF Creating, ListOK, Sorted

\* A step that leaves the pool and the creation of tasks alone, and the tasks' states
\* too if a walk is in progress.
LEMMA PoolKept ==
    ASSUME PoolInv, UNCHANGED <<nxt, prv, head, tlist, add, walk>>,
           walk # NULL => UNCHANGED <<state, last, block, timer>>
    PROVE  PoolInv'
  <1>1. PICK rk \in [Tasks -> Nat] : ListOK(rk) /\ WalkOK(rk)
    BY DEF PoolInv
  <1>2. Registered' = Registered
    BY DEF Registered
  <1>3. ListOK(rk)'
    BY <1>1, <1>2 DEF ListOK, Sorted, Write
  <1>4. WalkOK(rk)'
    BY <1>1, <1>2 DEF WalkOK, Able, Expired
  <1>5. \A n \in Tasks \ {Default} : AtPlace(n)'
    BY <1>2 DEF PoolInv, AtPlace
  <1>6. QED
    BY <1>1, <1>3, <1>4, <1>5 DEF PoolInv

\* kthread_run begins to create a task.
LEMMA BeginPool ==
    ASSUME Inv, PoolInv, NEW n \in Tasks, NEW c \in TaskOrNull, NEW w \in Way,
           BeginTask(n, c, w), walk = NULL
    PROVE  PoolInv'
  <1>1. /\ add[n].step = "none" /\ add'[n].step = "take"
        /\ \A m \in Tasks \ {n} : add'[m] = add[m]
        /\ UNCHANGED <<nxt, prv, head, walk, tlist>>
    BY DEF BeginTask, Inv, TypeOK, taskvars
  <1>2. Registered' = Registered
    BY <1>1 DEF Registered
  <1>3. PICK rk \in [Tasks -> Nat] : ListOK(rk) /\ WalkOK(rk)
    BY DEF PoolInv
  <1>4. /\ \A m \in Tasks : /\ add'[m].step = "place" => add[m].step = "place" /\ m # n
                           /\ add[m].step = "place" => add'[m].step = "place"
                           /\ add[m].step = "publish" <=> add'[m].step = "publish"
        /\ \A m \in Tasks \ {n} : add'[m].place = add[m].place
    BY <1>1
  <1>5. ListOK(rk)'
    BY <1>1, <1>2, <1>3, <1>4 DEF ListOK, Sorted, Write
  <1>6. WalkOK(rk)'
    BY <1>1 DEF WalkOK
  <1>7. \A m \in Tasks \ {Default} : AtPlace(m)'
    BY <1>1, <1>2 DEF AtPlace, PoolInv
  <1>8. QED
    BY <1>3, <1>5, <1>6, <1>7 DEF PoolInv

\* The new task is made; its insertion starts at the head of the pool.
LEMMA CreatePool ==
    ASSUME Inv, Solo, PoolInv, NEW n \in Tasks, CreateTask(n)
    PROVE  PoolInv'
  <1> USE PoolAssumption
  <1>1. /\ add[n].step = "take" /\ add'[n].step = "search" /\ add'[n].place = head
        /\ \A m \in Tasks \ {n} : add'[m] = add[m] /\ tlist'[m] = tlist[m]
        /\ UNCHANGED <<nxt, prv, head, walk>>
    BY DEF CreateTask, Inv, TypeOK, corevars
  <1>2. Creating = {n} /\ walk = NULL
    BY <1>1 DEF Solo, Creating
  <1>3. \A m \in Tasks \ {n} : add[m].step \in {"none", "done"}
    BY <1>2 DEF Creating
  <1>4. Registered' = Registered
    BY <1>1 DEF Registered
  <1>5. PICK rk \in [Tasks -> Nat] : ListOK(rk) /\ WalkOK(rk)
    BY DEF PoolInv
  <1>6. Sorted(Registered, head, nxt, prv, rk)
    BY <1>1, <1>3, <1>5 DEF ListOK
  <1>7. ListOK(rk)'
    <2>1. \A m \in Tasks : add'[m].step \in {"none", "search", "done"}
      BY <1>1, <1>3
    <2>2. Sorted(Registered', head', nxt', prv', rk)
      BY <1>1, <1>4, <1>6
    <2>3. QED
      BY <2>1, <2>2 DEF ListOK
  <1>8. WalkOK(rk)'
    BY <1>1, <1>2 DEF WalkOK
  <1>9. ASSUME NEW m \in Tasks \ {Default} PROVE AtPlace(m)'
    <2>1. CASE m # n
      BY <1>1, <1>3, <2>1 DEF AtPlace
    <2>2. CASE m = n
      <3>1. add[Default].step = "done"
        BY <1>1, <2>2 DEF Inv, BootInv
      <3>2. head \in Registered /\ prv[head] = NULL
        BY <1>6, <3>1, DefaultRegistered DEF Sorted
      <3>3. QED
        BY <1>1, <1>4, <2>2, <3>2 DEF AtPlace
    <2>3. QED
      BY <2>1, <2>2
  <1>10. QED
    BY <1>5, <1>7, <1>8, <1>9 DEF PoolInv

\* Every store of an insertion keeps the pool sorted, up to the stores it still owes.
LEMMA InsertPool ==
    ASSUME Inv, Inv', Solo, PoolInv, NEW n \in Tasks, AddTask(n), ~CreateTask(n), ~Refused(n)
    PROVE  PoolInv'
  <1> USE PoolAssumption
  <1>1. PICK rk \in [Tasks -> Nat] : ListOK(rk) /\ WalkOK(rk)
    BY DEF PoolInv
  <1>2. Creating = {n} /\ walk = NULL /\ tlist[n] = "alive"
    <2>1. add[n].step \notin {"none", "take", "done"}
      BY DEF AddTask, SearchPlace, LinkNew, LinkPrev, LinkPlace, Publish, Unblock
    <2>2. n \in Creating
      BY <2>1 DEF Creating
    <2>3. QED
      BY <2>1, <2>2 DEF Solo
  <1>3. \A m \in Tasks \ {n} : add[m].step \in {"none", "done"}
    BY <1>2 DEF Creating
  <1>4. /\ UNCHANGED <<tlist, walk>>
        /\ \A m \in Tasks \ {n} : add'[m] = add[m]
    BY DEF AddTask, SearchPlace, LinkNew, LinkPrev, LinkPlace, Publish, Unblock, Inv, TypeOK,
           taskvars, corevars
  <1>5. \A r \in [Tasks -> Nat] : WalkOK(r)'
    BY <1>2, <1>4 DEF WalkOK
  <1>6. \A m \in Tasks \ {n} : AtPlace(m)'
    BY <1>3, <1>4 DEF AtPlace
  <1>7. SUFFICES (n # Default => AtPlace(n)') /\ \E r \in [Tasks -> Nat] : ListOK(r)'
    BY <1>5, <1>6 DEF PoolInv
  <1>8. /\ nxt \in [Tasks -> TaskOrNull] /\ prv \in [Tasks -> TaskOrNull]
        /\ nxt' \in [Tasks -> TaskOrNull] /\ prv' \in [Tasks -> TaskOrNull]
        /\ head \in TaskOrNull /\ head' \in TaskOrNull
        /\ add \in [Tasks -> [step : AddStep, by : TaskOrNull, way : Way, place : TaskOrNull]]
    BY DEF Inv, TypeOK
  <1>9. Registered \subseteq Tasks /\ NULL \notin Registered
    BY DEF Registered
  <1>10. add[n].step \notin {"place", "publish"} => Sorted(Registered, head, nxt, prv, rk)
    BY <1>1, <1>3 DEF ListOK
  <1>11. ASSUME NEW r \in [Tasks -> Nat], add'[n].step \notin {"place", "publish"},
                Sorted(Registered', head', nxt', prv', r)
         PROVE  \E q \in [Tasks -> Nat] : ListOK(q)'
    <2>1. \A m \in Tasks : add'[m].step \notin {"place", "publish"}
      BY <1>3, <1>4, <1>11
    <2>2. ListOK(r)'
      BY <1>11, <2>1 DEF ListOK
    <2>3. QED
      BY <2>2
  <1>12. add[n].step \notin {"unblock", "done"} => n \notin Registered
    BY DEF Registered
  <1>13. add'[n].step \notin {"unblock", "done"} => Registered' = Registered \ {n}
    BY <1>4 DEF Registered
  <1>14. CASE SearchPlace(n) /\ n = Default
    <2>1. head = NULL /\ head' = n /\ add'[n].step = "publish" /\ UNCHANGED <<nxt, prv>>
      BY <1>8, <1>14 DEF SearchPlace, Inv, BootInv, taskvars
    <2>2. Registered = {}
      BY <1>14, <2>1 DEF Registered, SearchPlace, Inv, BootInv
    <2>3. prv[n] = NULL /\ nxt[n] = NULL
      BY <1>14 DEF SearchPlace, Solo, Linked, Inv, LinkInv
    <2>4. Sorted({n}, n, nxt, prv, rk)
      BY <2>3, <1>1 DEF Sorted
    <2>5. Registered' \cup {n} = {n} /\ prv'[head'] = NULL
      BY <1>13, <2>1, <2>2, <2>3
    <2>6. Sorted(Registered' \cup {n}, IF prv'[head'] # NULL THEN prv'[head'] ELSE head', nxt', prv', rk)
      BY <2>1, <2>4, <2>5
    <2>7. ListOK(rk)'
      BY <1>3, <1>4, <2>1, <2>6 DEF ListOK
    <2>8. QED
      BY <1>14, <2>7
  <1>15. CASE SearchPlace(n) /\ n # Default
    <2> DEFINE p == add[n].place
    <2>1. head # NULL /\ p \in Registered /\ (prv[p] # NULL => Prio[prv[p]] > Prio[n])
      BY <1>15 DEF SearchPlace, Inv, BootInv, PoolInv, AtPlace
    <2>2. UNCHANGED <<nxt, prv, head>>
      BY <1>15, <2>1 DEF SearchPlace, taskvars
    <2>3. add[n].step = "search"
      BY <1>15 DEF SearchPlace
    <2>4. Registered' = Registered /\ add'[n].step \in {"search", "link"}
      <3>1. add'[n].step \in {"search", "link"}
        BY <1>8, <1>15, <2>1 DEF SearchPlace
      <3>2. QED
        BY <1>12, <1>13, <2>3, <3>1
    <2>5. Sorted(Registered, head, nxt, prv, rk)
      BY <1>10, <2>3
    <2>6. AtPlace(n)'
      <3>1. CASE Prio[p] <= Prio[n]
        <4>1. add'[n].step = "link" /\ add'[n].place = p
          BY <1>8, <1>9, <1>15, <2>1, <3>1 DEF SearchPlace
        <4>2. QED
          BY <2>1, <2>2, <2>4, <3>1, <4>1 DEF AtPlace
      <3>2. CASE Prio[p] > Prio[n]
        <4>1. add'[n].step = "search" /\ add'[n].place = nxt[p]
          BY <1>8, <1>9, <1>15, <2>1, <3>2 DEF SearchPlace
        <4>2. p # Default
          BY <3>2
        <4>3. nxt[p] # NULL
          BY <1>9, <2>1, <4>2 DEF Inv, LinkInv, Linked, Registered
        <4>4. nxt[p] \in Registered /\ prv[nxt[p]] = p
          BY <2>1, <2>5, <4>3 DEF Sorted
        <4>5. QED
          BY <2>2, <2>4, <3>2, <4>1, <4>4 DEF AtPlace
      <3>3. QED
        BY <1>9, <2>1, <3>1, <3>2
    <2>7. QED
      BY <1>1, <1>11, <2>2, <2>4, <2>5, <2>6
  <1>16. CASE LinkNew(n)
    <2> DEFINE p == add[n].place
    <2>1. add[n].step = "link" /\ n # Default
      BY <1>16 DEF LinkNew, Inv, BootInv
    <2>2. p \in Registered /\ p # n /\ AtPlace(n)
      BY <1>12, <2>1 DEF PoolInv, AtPlace
    <2>3. /\ nxt' = [nxt EXCEPT ![n] = p] /\ prv' = [prv EXCEPT ![n] = prv[p]]
          /\ add'[n].step = "prev" /\ add'[n].place = p /\ head' = head
      BY <1>8, <1>16 DEF LinkNew, corevars
    <2>4. Registered' = Registered
      BY <1>12, <1>13, <2>1, <2>3
    <2>5. Sorted(Registered', head', nxt', prv', rk)
      <3>1. \A t \in Registered : nxt'[t] = nxt[t] /\ prv'[t] = prv[t]
        BY <1>8, <1>9, <1>12, <2>1, <2>3
      <3>2. Sorted(Registered, head, nxt, prv, rk)
        BY <1>10, <2>1
      <3>3. Sorted(Registered, head, nxt', prv', rk)
        BY <3>1, <3>2, SortedLinks
      <3>4. QED
        BY <2>3, <2>4, <3>3
    <2>6. AtPlace(n)'
      BY <1>8, <1>9, <2>1, <2>2, <2>3, <2>4 DEF AtPlace
    <2>7. QED
      BY <1>1, <1>11, <2>3, <2>5, <2>6
  <1>17. CASE LinkPrev(n)
    <2> DEFINE p == add[n].place
               q == prv[p]
    <2>1. add[n].step = "prev" /\ n # Default
      BY <1>17 DEF LinkPrev, Inv, BootInv
    <2>2. p \in Registered /\ p # n /\ AtPlace(n)
      BY <1>12, <2>1 DEF PoolInv, AtPlace
    <2>3. /\ nxt' = Write(nxt, q, n) /\ prv' = prv
          /\ add'[n].step = "place" /\ add'[n].place = p /\ head' = head
      BY <1>8, <1>17 DEF LinkPrev, corevars
    <2>4. Registered' = Registered
      BY <1>12, <1>13, <2>1, <2>3
    <2>5. Sorted(Registered, head, nxt, prv, rk)
      BY <1>10, <2>1
    <2>6. q # NULL => q \in Registered /\ nxt[q] = p
      BY <2>2, <2>5 DEF Sorted
    <2>7. \A t \in Registered : Write(nxt', q, p)[t] = nxt[t]
      BY <1>8, <1>9, <2>3, <2>6 DEF Write
    <2>8. Sorted(Registered', head', Write(nxt', q, p), prv', rk)
      BY <2>3, <2>4, <2>5, <2>7, SortedLinks
    <2>9. ListOK(rk)'
      <3>1. prv'[add'[n].place] = q
        BY <2>3
      <3>2. \A m \in Tasks : add'[m].step = "place" => m = n
        BY <1>3, <1>4
      <3>3. \A m \in Tasks : add'[m].step # "publish"
        BY <1>3, <1>4, <2>3
      <3>4. QED
        BY <2>3, <2>8, <3>1, <3>2, <3>3 DEF ListOK
    <2>10. AtPlace(n)'
      <3>1. q # NULL => q # n /\ nxt'[q] = n
        BY <1>8, <1>9, <1>12, <2>1, <2>3, <2>6 DEF Write
      <3>2. nxt'[n] = nxt[n]
        BY <1>8, <2>3, <3>1 DEF Write
      <3>3. QED
        BY <2>1, <2>2, <2>3, <2>4, <3>1, <3>2 DEF AtPlace
    <2>11. QED
      BY <1>1, <2>9, <2>10
  <1>18. CASE LinkPlace(n)
    <2> DEFINE p == add[n].place
               q == prv[p]
               nx == Write(nxt, q, p)
    <2>1. add[n].step = "place" /\ n # Default
      BY <1>18 DEF LinkPlace, Inv, BootInv
    <2>2. /\ p \in Registered /\ p # n /\ p \in Tasks
          /\ (q # NULL => Prio[q] > Prio[n]) /\ Prio[p] <= Prio[n]
          /\ nxt[n] = p /\ prv[n] = q /\ (q # NULL => nxt[q] = n)
      BY <1>9, <1>12, <2>1 DEF PoolInv, AtPlace
    <2>3. /\ prv' = [prv EXCEPT ![p] = n] /\ nxt' = nxt
          /\ add'[n].step = "publish" /\ head' = head
      BY <1>8, <1>18 DEF LinkPlace, corevars
    <2>4. Registered' = Registered /\ n \notin Registered
      BY <1>12, <1>13, <2>1, <2>3
    <2>5. Sorted(Registered, head, nx, prv, rk)
      BY <1>1, <2>1 DEF ListOK
    <2>6. nx \in [Tasks -> TaskOrNull] /\ \A t \in Registered : t # q => nx[t] = nxt[t]
      BY <1>8, <1>9, <2>2 DEF Write, TaskOrNull
    <2>7. /\ prv'[n] = q /\ prv'[p] = n
          /\ \A t \in Registered : t # p => prv'[t] = prv[t]
      BY <1>8, <1>9, <2>2, <2>3
    <2> DEFINE h == IF q = NULL THEN n ELSE head
    <2>8. \E r \in [Tasks -> Nat] : Sorted(Registered \cup {n}, h, nxt', prv', r)
      <3> HIDE DEF p, nx
      <3>0. /\ n \in Tasks \ Registered /\ Registered \in SUBSET Tasks
            /\ rk \in [Tasks -> Nat]
        BY <1>1, <1>9, <2>4
      <3>1. /\ nxt'[n] = p /\ (q # NULL => nxt'[q] = n)
            /\ \A t \in Registered : t # q => nxt'[t] = nx[t]
        BY <2>2, <2>3, <2>6
      <3>2. /\ head \in TaskOrNull /\ nxt' \in [Tasks -> TaskOrNull] /\ prv' \in [Tasks -> TaskOrNull]
            /\ prv \in [Tasks -> TaskOrNull]
        BY <1>8
      <3>3. /\ p \in Registered /\ (q # NULL => Prio[q] > Prio[n]) /\ Prio[p] <= Prio[n]
            /\ nx \in [Tasks -> TaskOrNull]
        BY <2>2, <2>6
      <3>4. QED
        <4>1. Spliced(Registered, nx, prv, n, p, nxt', prv')
          BY <2>7, <3>1 DEF Spliced
        <4>2. QED
          BY <2>5, <3>0, <3>2, <3>3, <4>1, InsertSorted
    <2>9. h = IF prv'[head'] # NULL THEN prv'[head'] ELSE head'
      <3>1. q = NULL <=> p = head
        BY <2>2, <2>5 DEF Sorted
      <3>2. head \in Registered /\ prv[head] = NULL
        BY <2>2, <2>5 DEF Sorted
      <3>3. QED
        BY <2>3, <2>7, <3>1, <3>2
    <2>10. PICK r \in [Tasks -> Nat] : Sorted(Registered \cup {n}, h, nxt', prv', r)
      BY <2>8
    <2>11. ListOK(r)'
      <3>1. \A m \in Tasks : add'[m].step = "publish" => m = n
        BY <1>3, <1>4
      <3>2. \A m \in Tasks : add'[m].step # "place"
        BY <1>3, <1>4, <2>3
      <3> HIDE DEF h
      <3>3. QED
        BY <2>3, <2>4, <2>9, <2>10, <3>1, <3>2 DEF ListOK
    <2>12. AtPlace(n)'
      BY <2>3 DEF AtPlace
    <2>13. QED
      BY <2>11, <2>12
  <1>19. CASE Publish(n)
    <2>1. /\ add[n].step = "publish" /\ add'[n].step \in {"unblock", "done"}
          /\ UNCHANGED <<nxt, prv>> /\ head' = IF prv[head] # NULL THEN prv[head] ELSE head
      BY <1>8, <1>19 DEF Publish, taskvars
    <2>2. Registered' = Registered \cup {n}
      BY <1>2, <1>4, <2>1 DEF Registered
    <2>3. Sorted(Registered', head', nxt', prv', rk)
      BY <1>1, <2>1, <2>2 DEF ListOK
    <2>4. AtPlace(n)'
      BY <2>1 DEF AtPlace
    <2>5. QED
      BY <1>1, <1>11, <2>1, <2>3, <2>4
  <1>20. CASE Unblock(n)
    <2>1. add[n].step = "unblock" /\ add'[n].step = "done" /\ UNCHANGED <<nxt, prv, head>>
      BY <1>8, <1>20 DEF Unblock, taskvars
    <2>2. Registered' = Registered
      BY <1>4, <2>1 DEF Registered
    <2>3. Sorted(Registered', head', nxt', prv', rk)
      BY <1>10, <2>1, <2>2
    <2>4. AtPlace(n)'
      BY <2>1 DEF AtPlace
    <2>5. QED
      BY <1>1, <1>11, <2>1, <2>3, <2>4
  <1>21. QED
    BY <1>14, <1>15, <1>16, <1>17, <1>18, <1>19, <1>20 DEF AddTask

\* Taking a task other than default_task out of a quiet pool.
LEMMA RemovePool ==
    ASSUME Inv, Solo, Creating = {}, add[Default].step = "done",
           NEW rk \in [Tasks -> Nat], ListOK(rk), NEW t \in Registered, t # Default,
           Remove(t), UNCHANGED add, tlist' = [tlist EXCEPT ![t] = "death"]
    PROVE  /\ Registered' = Registered \ {t}
           /\ ListOK(rk)'
           /\ nxt[t] \in Registered \ {t}
           /\ rk[t] < rk[nxt[t]] /\ \A u \in Registered : rk[u] < rk[nxt[t]] => rk[u] <= rk[t]
           /\ \A n \in Tasks : AtPlace(n)'
  <1>1. /\ Sorted(Registered, head, nxt, prv, rk)
        /\ \A n \in Tasks : add[n].step \in {"none", "done"}
    BY QuietPool
  <1>2. t \in Tasks /\ nxt[t] # NULL
    BY DEF Inv, LinkInv, Linked, Registered
  <1>3. /\ nxt[t] \in Registered /\ rk[t] < rk[nxt[t]]
        /\ \A u \in Registered : rk[u] <= rk[t] \/ rk[nxt[t]] <= rk[u]
    BY <1>1, <1>2 DEF Sorted
  <1>4. \A u \in Registered : rk[u] \in Nat
    BY DEF Registered
  <1>5. Registered' = Registered \ {t}
    BY <1>2 DEF Registered, Inv, TypeOK
  <1>6. /\ head' = IF head = t THEN nxt[t] ELSE head
        /\ nxt' = Write(nxt, prv[t], nxt[t])
        /\ prv' = Write(prv, nxt[t], prv[t])
    BY <1>2 DEF Remove, OnlyTask, Unlink
  <1>7. Sorted(Registered', head', nxt', prv', rk)
    <2>1. Registered \in SUBSET Tasks
      BY DEF Registered
    <2>2. /\ nxt \in [Tasks -> TaskOrNull] /\ prv \in [Tasks -> TaskOrNull] /\ head \in TaskOrNull
      BY DEF Inv, TypeOK
    <2>3. Sorted(Registered \ {t}, IF head = t THEN nxt[t] ELSE head,
                 Write(nxt, prv[t], nxt[t]), Write(prv, nxt[t], prv[t]), rk)
      BY <1>1, <1>2, <2>1, <2>2, RemoveSorted
    <2>4. QED
      BY <1>5, <1>6, <2>3
  <1>8. ListOK(rk)'
    BY <1>1, <1>7 DEF ListOK
  <1>9. \A n \in Tasks : AtPlace(n)'
    BY <1>1 DEF AtPlace
  <1>10. QED
    BY <1>3, <1>4, <1>5, <1>8, <1>9

\* A step of the walk that leaves the pool alone: it ends the walk, or moves it from a
\* task that cannot run to the next one.
LEMMA WalkPool ==
    ASSUME Inv, Solo, PoolInv, walk # NULL,
           UNCHANGED <<nxt, prv, head, tlist, add>>,
           \/ walk' = NULL
           \/ /\ nxt[walk] # NULL /\ walk' = nxt[walk] /\ ~Able(walk)
              /\ UNCHANGED <<state, last, block, timer>>
    PROVE  PoolInv'
  <1>1. PICK rk \in [Tasks -> Nat] : ListOK(rk) /\ WalkOK(rk)
    BY DEF PoolInv
  <1>2. Registered' = Registered
    BY DEF Registered
  <1>3. ListOK(rk)'
    BY <1>1, <1>2 DEF ListOK, Sorted, Write
  <1>4. \A n \in Tasks \ {Default} : AtPlace(n)'
    BY <1>2 DEF PoolInv, AtPlace
  <1>5. WalkOK(rk)'
    <2>1. CASE walk' = NULL
      BY <2>1 DEF WalkOK
    <2>2. CASE walk' # NULL
      <3>1. Creating = {} /\ started
        BY NobodyCreates DEF Solo
      <3>2. add[Default].step = "done"
        BY <3>1 DEF Inv, BootInv
      <3>3. Sorted(Registered, head, nxt, prv, rk)
        BY <1>1, <3>1, <3>2, QuietPool
      <3>4. /\ walk \in Registered
            /\ \A t \in Registered : rk[t] < rk[walk] => ~Able(t)
        BY <1>1 DEF WalkOK
      <3>5. /\ nxt[walk] \in Registered
            /\ \A u \in Registered : rk[u] <= rk[walk] \/ rk[nxt[walk]] <= rk[u]
        BY <2>2, <3>3, <3>4 DEF Sorted
      <3>6. \A t \in Registered : Able(t)' = Able(t)
        BY <2>2 DEF Able, Expired
      <3>7. \A u \in Registered : rk[u] \in Nat
        BY DEF Registered
      <3>8. \A u \in Registered : rk[u] = rk[walk] => u = walk
        BY <3>3, <3>4 DEF Sorted
      <3>9. \A u \in Registered : rk[u] < rk[nxt[walk]] => ~Able(u)
        BY <2>2, <3>4, <3>5, <3>7, <3>8
      <3>10. QED
        BY <1>2, <2>2, <3>5, <3>6, <3>9 DEF WalkOK
    <2>3. QED
      BY <2>1, <2>2
  <1>6. QED
    BY <1>1, <1>3, <1>4, <1>5 DEF PoolInv

\* Every step keeps the pool sorted and the walk's record.
LEMMA PoolStep == ASSUME KthreadOnly, Inv, Inv', Solo, PoolInv, [Next]_vars PROVE PoolInv'
  <1> USE PoolAssumption, DefaultAssumption
  <1>1. ASSUME NEW n \in Tasks, BootTask(n) PROVE PoolInv'
    <2>1. PICK w \in Way : BeginTask(n, NULL, w)
      BY <1>1 DEF BootTask, Way
    <2>2. walk = NULL
      BY <1>1 DEF BootTask, Solo
    <2>3. QED
      BY <2>1, <2>2, BeginPool DEF TaskOrNull
  <1>2. ASSUME NEW c \in Tasks, NEW n \in Tasks, LocalTask(c, n) PROVE PoolInv'
    <2>1. walk = NULL
      BY <1>2 DEF LocalTask, Running
    <2>2. BeginTask(n, c, "kthread")
      BY <1>2 DEF LocalTask, KthreadOnly
    <2>3. QED
      BY <2>1, <2>2, BeginPool DEF Way, TaskOrNull
  <1>3. ASSUME NEW n \in Tasks, AddTask(n) PROVE PoolInv'
    <2>1. CASE CreateTask(n)
      BY <2>1, CreatePool
    <2>2. CASE Refused(n)
      <3>1. walk = NULL /\ UNCHANGED <<nxt, prv, head, tlist, add, walk>>
        <4>1. n \in Creating
          BY <2>2 DEF Refused, Creating
        <4>2. QED
          BY <2>2, <4>1 DEF Refused, Solo, corevars
      <3>2. QED
        BY <3>1, PoolKept
    <2>3. CASE ~CreateTask(n) /\ ~Refused(n)
      BY <1>3, <2>3, InsertPool
    <2>4. QED
      BY <2>1, <2>2, <2>3
  <1>4. ASSUME NEW t \in Tasks, TaskCode(t) PROVE PoolInv'
    <2>1. CASE KernelFault(t)
      <3>1. started /\ current = t /\ t # NULL /\ pc[t] = "run" /\ walk = NULL /\ t # Default
        BY <2>1 DEF KernelFault, Running
      <3>2. Creating = {}
        BY <3>1, NobodyCreates DEF CreatorAt
      <3>3. add[Default].step = "done"
        BY <3>1 DEF Inv, BootInv
      <3>4. PICK rk \in [Tasks -> Nat] : ListOK(rk) /\ WalkOK(rk)
        BY DEF PoolInv
      <3>5. add[t].step = "done"
        BY <3>1, <3>2, <3>3, <3>4, QuietPool DEF Inv, LinkInv, Linked
      <3>6. t \in Registered
        BY <3>1, <3>5 DEF Registered, Solo, Inv, TypeOK, LifeInv, ReapedNeverRuns
      <3>7. /\ Remove(t) /\ UNCHANGED <<add, walk>> /\ tlist' = [tlist EXCEPT ![t] = "death"]
        BY <2>1 DEF KernelFault
      <3>8. ListOK(rk)' /\ \A n \in Tasks : AtPlace(n)'
        BY <3>1, <3>2, <3>3, <3>4, <3>6, <3>7, RemovePool
      <3>9. WalkOK(rk)'
        BY <3>1, <3>7 DEF WalkOK
      <3>10. QED
        BY <3>4, <3>8, <3>9 DEF PoolInv
    <2>2. CASE DelayTime(t) \/ DelayState(t) \/ Yield(t) \/ Exit(t) \/ UserFault(t)
               \/ EnterLock(t) \/ LeaveLock(t) \/ FaultRefused(t)
      <3>1. walk = NULL /\ UNCHANGED <<nxt, prv, head, tlist, add, walk>>
        BY <2>2 DEF DelayTime, DelayState, Yield, Exit, UserFault, EnterLock, LeaveLock, FaultRefused,
                    Running, taskvars, corevars
      <3>2. QED
        BY <3>1, PoolKept
    <2>3. QED
      BY <1>4, <2>1, <2>2 DEF TaskCode
  <1>5. CASE Start \/ Tick
    BY <1>5, PoolKept DEF Start, Tick, taskvars, corevars
  <1>6. CASE PendSV
    <2>1. CASE walk' = NULL
      BY <1>6, <2>1, PoolKept DEF PendSV, taskvars
    <2>2. CASE walk' # NULL
      <3>1. PICK rk \in [Tasks -> Nat] : ListOK(rk) /\ WalkOK(rk)
        BY DEF PoolInv
      <3>2. /\ UNCHANGED <<nxt, prv, head, tlist, add>> /\ walk' = head
            /\ Creating = {} /\ started
        BY <1>6, <2>2, NobodyCreates DEF PendSV, taskvars, Solo
      <3>3. add[Default].step = "done"
        BY <3>2 DEF Inv, BootInv
      <3>4. Sorted(Registered, head, nxt, prv, rk) /\ head \in Registered
        BY <3>1, <3>2, <3>3, QuietPool
      <3>5. Registered' = Registered
        BY <3>2 DEF Registered
      <3>6. ListOK(rk)'
        BY <3>1, <3>2, <3>5 DEF ListOK, Sorted, Write
      <3>7. \A n \in Tasks \ {Default} : AtPlace(n)'
        BY <3>2, <3>5 DEF PoolInv, AtPlace
      <3>8. \A t \in Registered : rk[t] \in Nat /\ ~(rk[t] < rk[head])
        BY <3>1, <3>4 DEF Sorted, Registered
      <3>9. WalkOK(rk)'
        BY <3>2, <3>4, <3>5, <3>8 DEF WalkOK
      <3>10. QED
        BY <3>1, <3>6, <3>7, <3>9 DEF PoolInv
    <2>3. QED
      BY <2>1, <2>2
  <1>7. CASE WalkReady \/ WalkWake
    BY <1>7, WalkPool DEF WalkReady, WalkWake, Return
  <1>8. CASE WalkPast
    <2>1. ~Able(walk) /\ walk # NULL /\ UNCHANGED <<nxt, prv, head, tlist, add, state, block, timer>>
      BY <1>8 DEF WalkPast, Able
    <2>2. CASE nxt[walk] = NULL
      BY <1>8, <2>1, <2>2, WalkPool DEF WalkPast, Advance, Return
    <2>3. CASE nxt[walk] # NULL
      BY <1>8, <2>1, <2>3, WalkPool DEF WalkPast, Advance
    <2>4. QED
      BY <2>2, <2>3
  <1>9. CASE WalkDead
    <2>1. /\ walk # NULL /\ walk # Default /\ Creating = {} /\ started
          /\ Remove(walk) /\ UNCHANGED <<add, state, block, timer>>
          /\ tlist' = [tlist EXCEPT ![walk] = "death"]
      BY <1>9, NobodyCreates DEF WalkDead, Solo, Inv, LifeInv
    <2>2. add[Default].step = "done"
      BY <2>1 DEF Inv, BootInv
    <2>3. PICK rk \in [Tasks -> Nat] : ListOK(rk) /\ WalkOK(rk)
      BY DEF PoolInv
    <2>4. walk \in Registered /\ \A u \in Registered : rk[u] < rk[walk] => ~Able(u)
      BY <2>1, <2>3 DEF WalkOK
    <2>5. /\ Registered' = Registered \ {walk}
          /\ ListOK(rk)'
          /\ nxt[walk] \in Registered \ {walk}
          /\ rk[walk] < rk[nxt[walk]] /\ \A u \in Registered : rk[u] < rk[nxt[walk]] => rk[u] <= rk[walk]
          /\ \A n \in Tasks : AtPlace(n)'
      BY <2>1, <2>2, <2>3, <2>4, RemovePool
    <2>6. nxt[walk] # NULL
      BY <2>5 DEF Registered
    <2>7. walk' = nxt[walk] /\ UNCHANGED last
      BY <1>9, <2>6 DEF WalkDead, Advance
    <2>8. \A u \in Registered : rk[u] \in Nat
      BY <2>3 DEF Registered
    <2>9. \A u \in Registered \ {walk} : rk[u] # rk[walk]
      BY <2>1, <2>2, <2>3, <2>4, QuietPool DEF Sorted
    <2>10. \A u \in Registered \ {walk} : rk[u] < rk[nxt[walk]] => ~Able(u)
      BY <2>4, <2>5, <2>8, <2>9
    <2>11. \A u \in Registered : Able(u)' = Able(u)
      BY <2>1, <2>7 DEF Able, Expired
    <2>12. WalkOK(rk)'
      BY <2>5, <2>7, <2>10, <2>11 DEF WalkOK
    <2>13. QED
      BY <2>3, <2>5, <2>12 DEF PoolInv
  <1>10. CASE UNCHANGED vars
    BY <1>10, PoolKept DEF vars, taskvars, corevars
  <1>11. QED
    BY <1>1, <1>2, <1>3, <1>4, <1>5, <1>6, <1>7, <1>8, <1>9, <1>10 DEF Next, Handler, HandlerLoops

-----------------------------------------------------------------------------
\* The pool's invariant holds in every reachable state.
THEOREM PoolInvariant == ASSUME KthreadOnly PROVE Spec => [](Inv /\ Solo /\ PoolInv)
  <1>1. Init => Solo /\ PoolInv
    <2> SUFFICES ASSUME Init PROVE Solo /\ PoolInv
      OBVIOUS
    <2>1. \A t \in Tasks : add[t].step = "none"
      BY DEF Init, NoAdd
    <2>2. Creating = {} /\ Registered = {}
      BY <2>1 DEF Creating, Registered
    <2>3. Solo
      BY <2>1, <2>2 DEF Init, Solo
    <2>4. Sorted({}, head, nxt, prv, [t \in Tasks |-> 0])
      BY DEF Sorted
    <2>5. ListOK([t \in Tasks |-> 0])
      BY <2>1, <2>2, <2>4 DEF ListOK
    <2>6. WalkOK([t \in Tasks |-> 0])
      BY DEF Init, WalkOK
    <2>7. \A n \in Tasks : AtPlace(n)
      BY <2>1 DEF AtPlace
    <2>8. QED
      BY <2>3, <2>5, <2>6, <2>7 DEF PoolInv
  <1>2. Inv /\ Inv' /\ Solo /\ PoolInv /\ [Next]_vars => Solo' /\ PoolInv'
    BY SoloStep, PoolStep
  <1>3. QED
    BY Invariance, <1>1, <1>2, PTL DEF Spec

\* Nothing is met from a NULL head.
LEMMA EmptyPool == ASSUME IsFiniteSet(Tasks), head = NULL PROVE InPool = {}
  <1> DEFINE N == Cardinality(Tasks)
             Good == {i \in 0 .. N : PoolNode[i] = NULL}
  <1>1. N \in Nat
    BY FS_CardinalityType
  <1>2. \A i \in 0 .. N - 1 : i + 1 \in 1 .. N /\ (i + 1) - 1 = i
    BY <1>1
  <1>3. 0 \in Good
    BY <1>1, PoolNodeIs
  <1>4. \A i \in 0 .. N - 1 : i \in Good => i + 1 \in Good
    BY <1>1, <1>2, PoolNodeIs
  <1> HIDE DEF Good
  <1>5. \A i \in 0 .. N : i \in Good
    BY <1>1, <1>3, <1>4, UpTo
  <1>6. QED
    BY <1>5 DEF InPool, Good

\* Between two insertions the pool is the sorted list of the registered tasks.
LEMMA QuietList ==
    ASSUME IsFiniteSet(Tasks), Inv, Solo, PoolInv, Quiet
    PROVE  /\ InPool = Registered
           /\ \E rk \in [Tasks -> Nat] : Sorted(Registered, head, nxt, prv, rk) /\ WalkOK(rk)
  <1>1. PICK rk \in [Tasks -> Nat] : ListOK(rk) /\ WalkOK(rk)
    BY DEF PoolInv
  <1>2. Sorted(Registered, head, nxt, prv, rk)
    BY <1>1 DEF Quiet, ListOK
  <1>3. Registered \in SUBSET Tasks
    BY DEF Registered
  <1>4. Registered = {} => head = NULL
    BY DefaultRegistered, PoolAssumption DEF Inv, BootInv, Quiet
  <1>5. CASE Registered = {}
    BY <1>1, <1>2, <1>4, <1>5, EmptyPool
  <1>6. CASE Registered # {}
    BY <1>1, <1>2, <1>3, <1>6, PoolIsList DEF Inv
  <1>7. QED
    BY <1>5, <1>6

\* With kthread_run as the only creator, the list PendSV walks holds exactly the
\* registered tasks between two insertions: none is lost, and no task that has died or
\* faulted is still linked (add_task_to_task_pool, remove_task_from_pool).
THEOREM PoolIsComplete ==
    ASSUME KthreadOnly, IsFiniteSet(Tasks)
    PROVE  Spec => []PoolComplete
  <1>1. Inv /\ Solo /\ PoolInv => PoolComplete
    BY QuietList DEF PoolComplete
  <1>2. QED
    BY <1>1, PoolInvariant, PTL

\* ... its priorities never increase, and priv inverts next (get_task_by_priority,
\* add_a_task_node).
THEOREM PoolIsOrdered ==
    ASSUME KthreadOnly, IsFiniteSet(Tasks)
    PROVE  Spec => []PoolOrdered
  <1>1. Inv /\ Solo /\ PoolInv => PoolOrdered
    <2> SUFFICES ASSUME Inv, Solo, PoolInv, Quiet, NEW t \in InPool
                 PROVE  /\ nxt[t] # NULL => prv[nxt[t]] = t /\ Prio[t] >= Prio[nxt[t]]
                        /\ t = head => prv[t] = NULL
      BY DEF PoolOrdered
    <2>1. PICK rk \in [Tasks -> Nat] : Sorted(Registered, head, nxt, prv, rk)
      BY QuietList
    <2>2. t \in Registered
      BY QuietList
    <2>3. QED
      BY <2>1, <2>2 DEF Sorted
  <1>2. QED
    BY <1>1, PoolInvariant, PTL

\* A walk never meets a dead task again: __Kill_Task moves a task to Death_task_List
\* once.
THEOREM DeadMetOnce == ASSUME KthreadOnly PROVE Spec => []ReapedOnce
  <1>1. Inv /\ Solo /\ PoolInv => ReapedOnce
    BY DEF PoolInv, WalkOK, Registered, ReapedOnce
  <1>2. QED
    BY <1>1, PoolInvariant, PTL

\* When PendSV hands over the core, no task of a higher priority than the chosen one was
\* able to run: READY, or WAITING with its delay expired (get_useful_task).
THEOREM HighestRuns ==
    ASSUME KthreadOnly, IsFiniteSet(Tasks)
    PROVE  Spec => HighestPriorityRuns
  <1> DEFINE Switch == walk # NULL /\ walk' = NULL =>
                \A t \in InPool : Prio[t] > Prio[current'] =>
                    /\ state[t] # "READY"
                    /\ state[t] = "WAITING" => ~Expired(t)
  <1>1. Inv /\ Solo /\ PoolInv /\ [Next]_vars => [Switch]_vars
    <2> SUFFICES ASSUME Inv, Solo, PoolInv, Next, walk # NULL, walk' = NULL,
                        NEW t \in InPool, Prio[t] > Prio[current']
                 PROVE  ~Able(t)
      BY DEF Able
    <2>1. Creating = {}
      BY NobodyCreates, Zenon
    <2>2. Quiet
      BY <2>1 DEF Quiet, Creating
    <2>3. PICK rk \in [Tasks -> Nat] : Sorted(Registered, head, nxt, prv, rk) /\ WalkOK(rk)
      BY <2>2, QuietList
    <2>4. t \in Registered
      BY <2>2, QuietList
    <2>5. current' = walk
      <3>1. CASE WalkReady \/ WalkWake \/ WalkDead \/ WalkPast
        <4>1. walk \in Tasks /\ (nxt[walk] = NULL \/ nxt[walk] # NULL)
          BY DEF Inv, TypeOK, TaskOrNull
        <4>2. QED
          BY <3>1, <4>1 DEF WalkReady, WalkWake, WalkDead, WalkPast, Advance, Return
      <3>2. CASE UNCHANGED walk
        BY <3>2
      <3>3. QED
        BY <3>1, <3>2
        DEF Next, Handler, HandlerLoops, vars, TaskCode, AddTask, BootTask, LocalTask, BeginTask,
            Start, Tick, PendSV, CreateTask, Refused, EnterLock, LeaveLock, FaultRefused, SearchPlace, LinkNew, LinkPrev, LinkPlace, Publish, Unblock, DelayTime, DelayState,
            Yield, Exit, KernelFault, UserFault, corevars
    <2>6. walk \in Registered /\ \A u \in Registered : rk[u] < rk[walk] => ~Able(u)
      BY <2>3 DEF WalkOK
    <2>7. t \in Tasks /\ walk \in Tasks
      BY <2>4, <2>6 DEF Registered
    <2>8. rk[t] < rk[walk]
      BY <2>3, <2>4, <2>5, <2>6, <2>7, PoolAssumption DEF Sorted
    <2>9. QED
      BY <2>4, <2>6, <2>8
  <1>2. QED
    BY <1>1, PoolInvariant, PTL DEF Spec, HighestPriorityRuns

-----------------------------------------------------------------------------
(* A hang on a spin lock is for good.                                      *)

\* The scheduler is BLOCKED while somebody is inside kthread_run only, no task enters a
\* lock's window once the creator has its own locks, and a fault handler that loops in
\* _spin_lock keeps the core.
HangInv ==
    /\ started /\ s_flag = "BLOCKED" => Creating # {}
    /\ started => \A n \in Creating : add[n].step # "take" => InWindow = {}
    /\ \A t \in Tasks : pc[t] = "fault" => started /\ current = t /\ walk = NULL

\* A creation goes on, or is refused once more and leaves the windows as they are.
LEMMA HangAdd ==
    ASSUME Inv, Solo, HangInv, NEW n \in Tasks, AddTask(n)
    PROVE  HangInv' /\ (Hung => Hung')
  <1> USE PoolAssumption, DefaultAssumption DEF Inv, TypeOK, TaskOrNull, AddStep, taskvars, corevars
  <1>1. /\ n \in Creating /\ walk = NULL /\ UNCHANGED <<started, current, walk>>
        /\ started => current \in Tasks /\ add[n].by = current /\ pc[current] = "create"
        /\ \A m \in Creating : m = n
        /\ \A m \in Tasks \ {n} : add'[m] = add[m]
        /\ ~started => add[n].by = NULL
    BY DEF AddTask, CreateTask, Refused, SearchPlace, LinkNew, LinkPrev, LinkPlace, Publish, Unblock,
           CanCreate, Running, Creating, Solo
  <1>2. Creating' \subseteq {n}
    BY <1>1 DEF Creating
  <1>3. \A t \in Tasks : pc'[t] = pc[t] \/ (started /\ t = current /\ pc'[t] \in {"run", "refused"})
    BY <1>1 DEF AddTask, CreateTask, Refused, SearchPlace, LinkNew, LinkPrev, LinkPlace, Publish, Unblock, Write
  <1>4. started => InWindow' = InWindow
    BY <1>1, <1>3 DEF InWindow
  <1>5. started /\ s_flag' = "BLOCKED" => n \in Creating'
    <2> SUFFICES ASSUME started, s_flag' = "BLOCKED" PROVE n \in Creating'
      OBVIOUS
    <2>1. n # Default
      BY <1>1 DEF BootInv, Creating
    <2>2. add[n].way = "kthread" /\ ~Unblock(n)
      BY <1>1, <2>1 DEF Solo, Creating, Unblock
    <2>3. CASE Publish(n)
      BY <2>2, <2>3 DEF Publish, Creating
    <2>4. CASE ~Publish(n)
      <3>1. CASE CreateTask(n)
        BY <3>1 DEF CreateTask, Creating
      <3>2. CASE Refused(n)
        BY <3>2 DEF Refused, Creating
      <3>3. CASE SearchPlace(n) \/ LinkNew(n) \/ LinkPrev(n) \/ LinkPlace(n)
        <4>1. add'[n].step \in {"search", "link", "prev", "place", "publish"}
          <5>1. CASE SearchPlace(n)
            BY <5>1 DEF SearchPlace
          <5>2. CASE LinkNew(n)
            BY <5>2 DEF LinkNew
          <5>3. CASE LinkPrev(n)
            BY <5>3 DEF LinkPrev
          <5>4. CASE LinkPlace(n)
            BY <5>4 DEF LinkPlace
          <5>5. QED
            BY <3>3, <5>1, <5>2, <5>3, <5>4
        <4>2. QED
          BY <4>1 DEF Creating
      <3>4. QED
        BY <2>2, <2>4, <3>1, <3>2, <3>3 DEF AddTask
    <2>5. QED
      BY <2>3, <2>4
  <1>6. started /\ add'[n].step # "take" => InWindow = {}
    <2>1. CASE CreateTask(n)
      BY <2>1 DEF CreateTask
    <2>2. CASE Refused(n)
      BY <2>2 DEF Refused
    <2>3. CASE ~CreateTask(n) /\ ~Refused(n)
      <3>1. add[n].step # "take"
        BY <2>3 DEF AddTask, SearchPlace, LinkNew, LinkPrev, LinkPlace, Publish, Unblock
      <3>2. QED
        BY <1>1, <3>1 DEF HangInv
    <2>4. QED
      BY <2>1, <2>2, <2>3
  <1> HIDE DEF Inv, TypeOK, InWindow, Creating
  <1>7. HangInv'
    <2>1. (started /\ s_flag = "BLOCKED" => Creating # {})'
      BY <1>1, <1>5
    <2>2. (started => \A m \in Creating : add[m].step # "take" => InWindow = {})'
      BY <1>1, <1>2, <1>4, <1>6
    <2>3. (\A t \in Tasks : pc[t] = "fault" => started /\ current = t /\ walk = NULL)'
      BY <1>1, <1>3 DEF HangInv
    <2>4. QED
      BY <2>1, <2>2, <2>3 DEF HangInv
  <1>8. ASSUME Hung PROVE Hung'
    <2>1. started /\ s_flag = "BLOCKED" /\ InWindow # {}
      BY <1>1, <1>8 DEF Hung, FaultStuck, Solo
    <2>2. add[n].step = "take"
      BY <1>1, <2>1 DEF HangInv
    <2>3. Refused(n)
      BY <2>1, <2>2 DEF AddTask, CreateTask, SearchPlace, LinkNew, LinkPrev, LinkPlace, Publish, Unblock
    <2>4. s_flag' = s_flag
      BY <2>3 DEF Refused
    <2>5. QED
      BY <1>1, <1>4, <2>1, <2>4 DEF Hung
  <1>9. QED
    BY <1>7, <1>8

\* The running task's own code: inside kthread_run it only delays itself, and elsewhere
\* the core is not hung.
LEMMA HangCode ==
    ASSUME Inv, Solo, HangInv, NEW t \in Tasks, TaskCode(t)
    PROVE  HangInv' /\ (Hung => Hung')
  <1> USE PoolAssumption DEF Inv, TypeOK, TaskOrNull, taskvars, corevars
  <1>1. started /\ current = t /\ walk = NULL /\ pc[t] # "fault"
    BY DEF TaskCode, DelayTime, DelayState, Yield, Exit, KernelFault, UserFault,
           EnterLock, LeaveLock, FaultRefused, Running
  <1>2. UNCHANGED <<add, started, s_flag, walk>>
    BY DEF TaskCode, DelayTime, DelayState, Yield, Exit, KernelFault, UserFault,
           EnterLock, LeaveLock, FaultRefused
  <1>3. Creating' = Creating
    BY <1>2 DEF Creating
  <1>4. \A u \in Tasks : u # t => pc'[u] = pc[u] /\ pc'[u] # "fault"
    <2>1. \A u \in Tasks : u # t => pc'[u] = pc[u]
      BY DEF TaskCode, DelayTime, DelayState, Yield, Exit, KernelFault, UserFault,
             EnterLock, LeaveLock, FaultRefused
    <2>2. \A u \in Tasks : u # t => pc[u] # "fault"
      BY <1>1 DEF HangInv
    <2>3. QED
      BY <2>1, <2>2
  <1>5. pc'[t] = "fault" => current' = current
    BY <1>1 DEF TaskCode, DelayTime, DelayState, Yield, Exit, KernelFault, UserFault,
                EnterLock, LeaveLock, FaultRefused
  <1>6. (\A u \in Tasks : pc[u] = "fault" => started /\ current = u /\ walk = NULL)'
    BY <1>1, <1>2, <1>4, <1>5
  <1>7. CASE pc[t] \notin CreatorAt
    <2>1. Creating = {}
      BY <1>1, <1>7, NobodyCreates
    <2>2. s_flag # "BLOCKED"
      BY <1>1, <2>1 DEF HangInv
    <2>3. ~Hung
      BY <1>1, <2>2 DEF Hung, FaultStuck
    <2>4. HangInv'
      BY <1>1, <1>2, <1>3, <1>6, <2>1, <2>2 DEF HangInv
    <2>5. QED
      BY <2>3, <2>4
  <1>8. CASE pc[t] \in CreatorAt
    <2>1. current' = current /\ pc[t] # "window" /\ pc'[t] # "window"
      BY <1>8 DEF TaskCode, DelayTime, DelayState, Yield, Exit, KernelFault, UserFault,
                  EnterLock, LeaveLock, FaultRefused, CreatorAt
    <2>2. InWindow' = InWindow
      BY <1>4, <2>1 DEF InWindow
    <2> HIDE DEF InWindow, Creating
    <2>3. HangInv'
      BY <1>1, <1>2, <1>3, <1>6, <2>2 DEF HangInv
    <2>4. Hung => Hung'
      BY <1>1, <1>2, <2>2 DEF Hung, FaultStuck
    <2>5. QED
      BY <2>3, <2>4
  <1>9. QED
    BY <1>7, <1>8

\* Every step keeps HangInv, and none leads out of a hang.
LEMMA HangStep ==
    ASSUME KthreadOnly, Inv, Solo, HangInv, [Next]_vars
    PROVE  HangInv' /\ (Hung => Hung')
  <1> USE PoolAssumption, DefaultAssumption DEF taskvars, corevars
  <1>1. ~started => ~Hung /\ \A t \in Tasks : pc[t] # "fault"
    BY DEF Hung, FaultStuck, Solo, HangInv
  <1>2. ASSUME NEW n \in Tasks, BootTask(n) PROVE HangInv' /\ (Hung => Hung')
    <2>1. ~started /\ ~started' /\ pc' = pc
      BY <1>2 DEF BootTask, BeginTask, Write
    <2>2. QED
      BY <1>1, <2>1 DEF HangInv
  <1>3. ASSUME NEW c \in Tasks, NEW n \in Tasks, LocalTask(c, n) PROVE HangInv' /\ (Hung => Hung')
    <2>1. started /\ current = c /\ walk = NULL /\ pc[c] = "run" /\ add[n].step = "none"
      BY <1>3 DEF LocalTask, Running, BeginTask
    <2>2. Creating = {}
      BY <2>1, NobodyCreates DEF CreatorAt
    <2>3. ~Hung
      BY <2>1, <2>2 DEF Hung, FaultStuck, HangInv
    <2>4. BeginTask(n, c, "kthread") /\ c # NULL
      BY <1>3 DEF LocalTask, KthreadOnly
    <2>5. /\ UNCHANGED <<started, current, walk>>
          /\ add' = [add EXCEPT ![n] = [step |-> "take", by |-> c, way |-> "kthread", place |-> NULL]]
          /\ pc' = [pc EXCEPT ![c] = "create"]
      BY <2>4 DEF BeginTask, Write
    <2>6. add'[n].step = "take" /\ \A m \in Tasks \ {n} : add'[m] = add[m]
      BY <2>5 DEF Inv, TypeOK
    <2>7. Creating' = {n}
      BY <2>2, <2>6 DEF Creating
    <2>8. \A t \in Tasks : pc'[t] # "fault"
      BY <2>1, <2>5 DEF HangInv, Inv, TypeOK
    <2>9. QED
      BY <2>3, <2>6, <2>7, <2>8 DEF HangInv
  <1>4. ASSUME NEW n \in Tasks, AddTask(n) PROVE HangInv' /\ (Hung => Hung')
    BY <1>4, HangAdd
  <1>5. ASSUME NEW t \in Tasks, TaskCode(t) PROVE HangInv' /\ (Hung => Hung')
    BY <1>5, HangCode
  <1>6. CASE Start
    <2>1. ~started /\ s_flag' = "RUN" /\ Creating' = {} /\ pc' = pc
      BY <1>6 DEF Start, Creating
    <2>2. QED
      BY <1>1, <2>1 DEF HangInv
  <1>7. CASE Tick \/ HandlerLoops \/ UNCHANGED vars
    <2>1. UNCHANGED <<started, s_flag, add, pc, current, walk, state>>
      BY <1>7 DEF Tick, HandlerLoops, vars
    <2>2. QED
      BY <2>1 DEF HangInv, Hung, FaultStuck, InWindow, Creating
  <1>8. CASE PendSV
    <2>1. /\ walk = NULL /\ ~FaultStuck /\ UNCHANGED <<started, s_flag, add, pc, current>>
          /\ s_flag = "BLOCKED" => walk' = walk
      BY <1>8 DEF PendSV
    <2>2. \A t \in Tasks : pc[t] # "fault"
      BY <2>1 DEF HangInv, FaultStuck
    <2>3. HangInv'
      BY <2>1, <2>2 DEF HangInv, InWindow, Creating
    <2>4. Hung => Hung'
      BY <2>1 DEF Hung, InWindow
    <2>5. QED
      BY <2>3, <2>4
  <1>9. CASE WalkDead \/ WalkReady \/ WalkWake \/ WalkPast
    <2>1. walk # NULL /\ UNCHANGED <<started, s_flag, add, pc>>
      BY <1>9 DEF WalkDead, WalkReady, WalkWake, WalkPast
    <2>2. Creating = {} /\ Creating' = {} /\ started
      BY <2>1, NobodyCreates DEF Solo, Creating
    <2>3. s_flag # "BLOCKED" /\ \A t \in Tasks : pc[t] # "fault"
      BY <2>1, <2>2 DEF HangInv
    <2>4. ~Hung
      <3>1. ~(state[walk] = "DEAD" /\ InWindow # {})
        BY <1>9 DEF WalkDead, WalkReady, WalkWake, WalkPast
      <3>2. ~FaultStuck
        BY <2>3 DEF FaultStuck, Inv, TypeOK, TaskOrNull
      <3>3. QED
        BY <2>3, <3>1, <3>2 DEF Hung
    <2>5. QED
      BY <2>1, <2>2, <2>3, <2>4 DEF HangInv
  <1>10. QED
    BY <1>2, <1>3, <1>4, <1>5, <1>6, <1>7, <1>8, <1>9 DEF Next, Handler

\* With kthread_run as the only creator, a core that hangs on a spin lock stays so: the
\* refused creator never leaves kthread_run, and the tasks in windows never have the core
\* (kthread.h:16; sched.c, Scheduler_Task; spinlock.c, _spin_lock).
THEOREM HangLasts == ASSUME KthreadOnly PROVE Spec => HangIsForever
  <1>1. Init => HangInv
    BY DEF Init, HangInv
  <1>2. Inv /\ Solo /\ HangInv /\ [Next]_vars => HangInv' /\ (Hung => Hung')
    BY HangStep
  <1>3. (Hung => Hung') => [Hung => Hung']_vars
    OBVIOUS
  <1>4. QED
    BY <1>1, <1>2, <1>3, PoolInvariant, PTL DEF Spec, HangIsForever
=============================================================================
