------------------------------ MODULE HeapProofs ------------------------------
(***************************************************************************)
(* Proofs about Heap for one caller inside it at a time: the blocks lie    *)
(* end to end whatever is asked for and given back, what is in use between *)
(* calls is what the callers hold, free neighbours are merged, a request   *)
(* fails only for want of room, and what the callers see is Allocator, for *)
(* every arena, header and set of sizes.                                   *)
(***************************************************************************)
EXTENDS Heap, TLAPS

\* The blocks of an arena, by address.
Blocks(m) ==
    /\ DOMAIN m \subseteq Addr
    /\ \A a \in DOMAIN m : m[a] \in Header

\* n is m with the block b cut off after k words: a header at w, a free block.
Cut(m, n, b, k) ==
    LET w == b + Hdr + k
    IN  /\ DOMAIN n = DOMAIN m \cup {w}
        /\ \A a \in DOMAIN n : n[a] \in Header
        /\ n[b].size = k /\ n[b].next = w /\ n[b].priv = m[b].priv
        /\ n[b].used = m[b].used
        /\ n[w].size = m[b].size - (Hdr + k) /\ n[w].next = m[b].next /\ n[w].priv = b
        /\ n[w].used = FALSE
        /\ \A a \in DOMAIN m \ {b} :
              /\ n[a].size = m[a].size /\ n[a].next = m[a].next /\ n[a].used = m[a].used
              /\ n[a].priv = IF a = m[b].next THEN w ELSE m[a].priv

\* n is m with the block d behind b made part of b.
Joined(m, n, b, d) ==
    /\ DOMAIN n = DOMAIN m \ {d}
    /\ \A a \in DOMAIN n : n[a] \in Header
    /\ n[b].size = m[b].size + Hdr + m[d].size /\ n[b].next = m[d].next /\ n[b].priv = m[b].priv
    /\ \A a \in DOMAIN m \ {b, d} :
          /\ n[a].size = m[a].size /\ n[a].next = m[a].next /\ n[a].used = m[a].used
          /\ n[a].priv = IF a = m[d].next THEN b ELSE m[a].priv

(* A block ends inside the arena, at the next block or at the arena's end.  *)
LEMMA EndInArena ==
    ASSUME NEW m, Blocks(m), EndToEnd(m), NEW a \in DOMAIN m
    PROVE  /\ a \in Nat /\ m[a].size \in Nat
           /\ a + Hdr + m[a].size <= Arena
           /\ m[a].next # None => m[a].next = a + Hdr + m[a].size /\ m[a].next > a
  <1>1. a \in Nat /\ m[a].size \in Nat /\ Hdr \in Nat \ {0} /\ Arena \in Nat
    BY HeapAssumption DEF Blocks, Addr, Header
  <1>2. CASE m[a].next = None
    BY <1>1, <1>2 DEF EndToEnd
  <1>3. CASE m[a].next # None
    <2>1. m[a].next = a + Hdr + m[a].size /\ m[a].next \in DOMAIN m
      BY <1>3 DEF EndToEnd
    <2>2. m[a].next < Arena
      BY <2>1, <1>1, <1>3 DEF Blocks, Addr
    <2> QED BY <2>1, <2>2, <1>1
  <1> QED BY <1>2, <1>3

(* incise_free_block keeps the blocks end to end.                          *)
LEMMA CutKeeps ==
    ASSUME NEW m, NEW n, Blocks(m), EndToEnd(m), NEW b \in DOMAIN m,
           NEW k \in Nat, m[b].size >= k + Hdr, Cut(m, n, b, k)
    PROVE  Blocks(n) /\ EndToEnd(n)
  <1> DEFINE w == b + Hdr + k
             d == m[b].next
             e == b + Hdr + m[b].size
  <1>0. /\ b \in Nat /\ m[b].size \in Nat /\ Hdr \in Nat \ {0} /\ Arena \in Nat
        /\ e <= Arena /\ b < w /\ w + Hdr <= e /\ w \in Addr
        /\ d # None => d = e
        /\ d = None => e = Arena
        /\ None \notin Int
    <2>1. b \in Nat /\ m[b].size \in Nat /\ Hdr \in Nat \ {0} /\ Arena \in Nat /\ None \notin Int
      BY HeapAssumption DEF Blocks, Addr, Header
    <2>2. e <= Arena /\ (d # None => d = e)
      BY EndInArena
    <2>3. b < w /\ w + Hdr <= e
      BY <2>1
    <2>4. w \in Addr
      BY <2>1, <2>2, <2>3 DEF Addr
    <2> QED BY <2>1, <2>2, <2>3, <2>4 DEF EndToEnd
  <1>1. w \notin DOMAIN m
    BY <1>0 DEF EndToEnd
  <1>2. d # None => d \in DOMAIN m /\ d # b /\ d # w
    BY <1>0, <1>1 DEF EndToEnd
  <1>3. /\ DOMAIN n = DOMAIN m \cup {w}
        /\ \A a \in DOMAIN n : n[a] \in Header
    BY DEF Cut
  <1>4. /\ n[b].size = k /\ n[b].next = w /\ n[b].priv = m[b].priv
        /\ n[w].size = m[b].size - (Hdr + k) /\ n[w].next = d /\ n[w].priv = b
    BY DEF Cut
  <1>5. \A a \in DOMAIN m \ {b} :
           /\ n[a].size = m[a].size /\ n[a].next = m[a].next
           /\ n[a].priv = IF a = d THEN w ELSE m[a].priv
    BY DEF Cut
  <1>6. Blocks(n)
    BY <1>0, <1>3 DEF Blocks
  <1>7. EndToEnd(n)
    <2>0. b \in DOMAIN n /\ w \in DOMAIN n /\ DOMAIN n \subseteq Nat /\ DOMAIN m \subseteq Nat
      BY <1>3, <1>6 DEF Blocks, Addr
    <2>1. 0 \in DOMAIN n
      BY <1>3 DEF EndToEnd
    <2> SUFFICES ASSUME NEW a \in DOMAIN n
                 PROVE  /\ IF n[a].next = None THEN a + Hdr + n[a].size = Arena
                           ELSE /\ n[a].next = a + Hdr + n[a].size
                                /\ a + Hdr + n[a].size \in DOMAIN n
                                /\ n[a + Hdr + n[a].size].priv = a
                        /\ IF n[a].priv = None THEN a = 0
                           ELSE n[a].priv \in DOMAIN n /\ n[n[a].priv].next = a
                        /\ \A c \in DOMAIN n : a < c => a + Hdr + n[a].size <= c
      BY <2>1 DEF EndToEnd
    <2>2. CASE a = b
      <3>1. n[a].next = a + Hdr + n[a].size /\ n[a].next = w /\ n[w].priv = a /\ n[a].next # None
        BY <2>2, <1>4, <1>5, <1>0
      <3>2. IF n[a].priv = None THEN a = 0 ELSE n[a].priv \in DOMAIN n /\ n[n[a].priv].next = a
        <4>1. CASE m[b].priv = None
          BY <2>2, <4>1, <1>4, <1>5 DEF EndToEnd
        <4>2. CASE m[b].priv # None
          <5>1. m[b].priv \in DOMAIN m /\ m[m[b].priv].next = b
            BY <4>2 DEF EndToEnd
          <5>2. m[b].priv # b
            BY <5>1, <1>0, <1>4, <1>5
          <5>3. n[m[b].priv].next = b
            BY <5>1, <5>2, <1>3, <1>4, <1>5
          <5> QED BY <5>1, <5>3, <4>2, <1>3, <1>4, <1>5, <2>2
        <4> QED BY <4>1, <4>2
      <3>3. \A c \in DOMAIN n : a < c => a + Hdr + n[a].size <= c
        BY <2>2, <1>4, <1>5, <1>3, <1>0, <2>0 DEF EndToEnd
      <3> QED BY <3>1, <3>2, <3>3, <2>0
    <2>3. CASE a = w
      <3>1. a + Hdr + n[a].size = e
        BY <2>3, <1>4, <1>5, <1>0
      <3>2. IF n[a].next = None THEN a + Hdr + n[a].size = Arena
            ELSE /\ n[a].next = a + Hdr + n[a].size
                 /\ a + Hdr + n[a].size \in DOMAIN n
                 /\ n[a + Hdr + n[a].size].priv = a
        BY <2>3, <3>1, <1>0, <1>2, <1>3, <1>4, <1>5
      <3>3. n[a].priv = b /\ b # None /\ n[b].next = a
        BY <2>3, <1>4, <1>5, <1>0
      <3>4. \A c \in DOMAIN n : a < c => a + Hdr + n[a].size <= c
        BY <2>3, <3>1, <1>0, <1>3, <2>0 DEF EndToEnd
      <3> QED BY <3>2, <3>3, <3>4, <2>0
    <2>4. CASE a # b /\ a # w
      <3>0. a \in DOMAIN m /\ n[a].size = m[a].size /\ n[a].next = m[a].next
        BY <2>4, <1>3, <1>4, <1>5
      <3>1. IF n[a].next = None THEN a + Hdr + n[a].size = Arena
            ELSE /\ n[a].next = a + Hdr + n[a].size
                 /\ a + Hdr + n[a].size \in DOMAIN n
                 /\ n[a + Hdr + n[a].size].priv = a
        <4>1. CASE m[a].next = None
          BY <4>1, <3>0 DEF EndToEnd
        <4>2. CASE m[a].next # None
          <5> DEFINE f == m[a].next
          <5>1. f = a + Hdr + m[a].size /\ f \in DOMAIN m /\ m[f].priv = a
            BY <4>2, <3>0 DEF EndToEnd
          <5>2. f # d
            <6>1. d # None => m[d].priv = b
              BY <1>0 DEF EndToEnd
            <6> QED BY <6>1, <5>1, <2>4, <4>2
          <5>3. n[f].priv = a
            BY <5>1, <5>2, <1>3, <1>4, <1>5
          <5> QED BY <5>1, <5>3, <3>0, <4>2, <1>3
        <4> QED BY <4>1, <4>2
      <3>2. IF n[a].priv = None THEN a = 0 ELSE n[a].priv \in DOMAIN n /\ n[n[a].priv].next = a
        <4>1. CASE a = d
          BY <4>1, <1>4, <1>5, <1>0, <2>0, <3>0, <2>4
        <4>2. CASE a # d
          <5>1. n[a].priv = m[a].priv
            BY <3>0, <2>4, <1>5, <4>2
          <5>2. CASE m[a].priv = None
            BY <5>1, <5>2, <3>0 DEF EndToEnd
          <5>3. CASE m[a].priv # None
            <6>1. m[a].priv \in DOMAIN m /\ m[m[a].priv].next = a
              BY <5>3, <3>0 DEF EndToEnd
            <6>2. m[a].priv # b
              BY <6>1, <4>2
            <6>3. n[m[a].priv].next = m[m[a].priv].next
              BY <6>1, <6>2, <1>3, <1>4, <1>5
            <6> QED BY <6>1, <6>3, <5>1, <5>3, <1>3
          <5> QED BY <5>2, <5>3
        <4> QED BY <4>1, <4>2
      <3>3. \A c \in DOMAIN n : a < c => a + Hdr + n[a].size <= c
        <4>1. \A c \in DOMAIN m : a < c => a + Hdr + m[a].size <= c
          BY <3>0 DEF EndToEnd
        <4>2. a < w => a + Hdr + m[a].size <= w
          <5>1. CASE a < b
            BY <5>1, <4>1, <1>0, <2>0, <3>0, EndInArena
          <5>2. CASE a > b
            BY <5>2, <1>0, <2>0, <3>0 DEF EndToEnd
          <5> QED BY <5>1, <5>2, <2>4, <1>0, <2>0
        <4> QED BY <4>1, <4>2, <3>0, <1>3
      <3> QED BY <3>1, <3>2, <3>3
    <2> QED BY <2>2, <2>3, <2>4
  <1> QED BY <1>6, <1>7

(* So does a merge of two neighbours in free_block.                        *)
LEMMA JoinKeeps ==
    ASSUME NEW m, NEW n, Blocks(m), EndToEnd(m), NEW b \in DOMAIN m, NEW d \in DOMAIN m,
           m[b].next = d, Joined(m, n, b, d)
    PROVE  Blocks(n) /\ EndToEnd(n)
  <1> DEFINE f == m[d].next
             e == d + Hdr + m[d].size
  <1>0. /\ b \in Nat /\ m[b].size \in Nat /\ d \in Nat /\ m[d].size \in Nat
        /\ Hdr \in Nat \ {0} /\ None \notin Int
        /\ d = b + Hdr + m[b].size /\ m[d].priv = b /\ b < d /\ d < e
        /\ f # None => f = e /\ f \in DOMAIN m /\ m[f].priv = d
        /\ f = None => e = Arena
    <2>1. /\ b \in Nat /\ m[b].size \in Nat /\ d \in Nat /\ m[d].size \in Nat
          /\ Hdr \in Nat \ {0} /\ None \notin Int
      BY HeapAssumption DEF Blocks, Addr, Header
    <2>2. d # None
      BY <2>1
    <2>3. d = b + Hdr + m[b].size /\ m[d].priv = b
      BY <2>2 DEF EndToEnd
    <2> QED BY <2>1, <2>3 DEF EndToEnd
  <1>3. /\ DOMAIN n = DOMAIN m \ {d}
        /\ \A a \in DOMAIN n : n[a] \in Header
    BY DEF Joined
  <1>4. n[b].size = m[b].size + Hdr + m[d].size /\ n[b].next = f /\ n[b].priv = m[b].priv
    BY DEF Joined
  <1>5. \A a \in DOMAIN m \ {b, d} :
           /\ n[a].size = m[a].size /\ n[a].next = m[a].next
           /\ n[a].priv = IF a = f THEN b ELSE m[a].priv
    BY DEF Joined
  <1>6. Blocks(n)
    BY <1>3 DEF Blocks
  <1>7. EndToEnd(n)
    <2>0. b \in DOMAIN n /\ DOMAIN n \subseteq Nat /\ DOMAIN m \subseteq Nat
      BY <1>0, <1>3, <1>6 DEF Blocks, Addr
    <2>1. 0 \in DOMAIN n
      BY <1>0, <1>3 DEF EndToEnd
    <2> SUFFICES ASSUME NEW a \in DOMAIN n
                 PROVE  /\ IF n[a].next = None THEN a + Hdr + n[a].size = Arena
                           ELSE /\ n[a].next = a + Hdr + n[a].size
                                /\ a + Hdr + n[a].size \in DOMAIN n
                                /\ n[a + Hdr + n[a].size].priv = a
                        /\ IF n[a].priv = None THEN a = 0
                           ELSE n[a].priv \in DOMAIN n /\ n[n[a].priv].next = a
                        /\ \A c \in DOMAIN n : a < c => a + Hdr + n[a].size <= c
      BY <2>1 DEF EndToEnd
    <2>2. CASE a = b
      <3>1. a + Hdr + n[a].size = e
        BY <2>2, <1>4, <1>0
      <3>2. IF n[a].next = None THEN a + Hdr + n[a].size = Arena
            ELSE /\ n[a].next = a + Hdr + n[a].size
                 /\ a + Hdr + n[a].size \in DOMAIN n
                 /\ n[a + Hdr + n[a].size].priv = a
        BY <2>2, <3>1, <1>0, <1>3, <1>4, <1>5
      <3>3. IF n[a].priv = None THEN a = 0 ELSE n[a].priv \in DOMAIN n /\ n[n[a].priv].next = a
        <4>1. CASE m[b].priv = None
          BY <2>2, <4>1, <1>4 DEF EndToEnd
        <4>2. CASE m[b].priv # None
          <5>1. m[b].priv \in DOMAIN m /\ m[m[b].priv].next = b
            BY <4>2 DEF EndToEnd
          <5>2. m[b].priv # b /\ m[b].priv # d
            BY <5>1, <1>0
          <5>3. n[m[b].priv].next = b
            BY <5>1, <5>2, <1>5
          <5> QED BY <5>1, <5>2, <5>3, <4>2, <1>3, <1>4, <2>2
        <4> QED BY <4>1, <4>2
      <3>4. \A c \in DOMAIN n : a < c => a + Hdr + n[a].size <= c
        <4> SUFFICES ASSUME NEW c \in DOMAIN n, b < c PROVE e <= c
          BY <3>1, <2>2
        <4>1. c \in DOMAIN m /\ c # d /\ c \in Nat
          BY <1>3, <2>0
        <4>2. d <= c
          BY <4>1, <1>0 DEF EndToEnd
        <4>3. d < c
          BY <4>1, <4>2, <1>0
        <4> QED BY <4>1, <4>3 DEF EndToEnd
      <3> QED BY <3>2, <3>3, <3>4
    <2>3. CASE a # b
      <3>0. /\ a \in DOMAIN m /\ a # d /\ n[a].size = m[a].size /\ n[a].next = m[a].next
            /\ n[a].priv = IF a = f THEN b ELSE m[a].priv
        BY <2>3, <1>3, <1>5
      <3>1. IF n[a].next = None THEN a + Hdr + n[a].size = Arena
            ELSE /\ n[a].next = a + Hdr + n[a].size
                 /\ a + Hdr + n[a].size \in DOMAIN n
                 /\ n[a + Hdr + n[a].size].priv = a
        <4>1. CASE m[a].next = None
          BY <4>1, <3>0 DEF EndToEnd
        <4>2. CASE m[a].next # None
          <5> DEFINE g == m[a].next
          <5>1. g = a + Hdr + m[a].size /\ g \in DOMAIN m /\ m[g].priv = a
            BY <4>2, <3>0 DEF EndToEnd
          <5>2. g # d
            BY <5>1, <1>0, <2>3
          <5>3. g # f
            BY <5>1, <1>0, <3>0, <4>2
          <5>4. n[g].priv = a
            BY <5>1, <5>2, <5>3, <1>4, <1>5
          <5> QED BY <5>1, <5>2, <5>4, <3>0, <4>2, <1>3
        <4> QED BY <4>1, <4>2
      <3>2. IF n[a].priv = None THEN a = 0 ELSE n[a].priv \in DOMAIN n /\ n[n[a].priv].next = a
        <4>1. CASE a = f
          BY <4>1, <3>0, <1>4, <1>0, <2>0
        <4>2. CASE a # f
          <5>2. CASE m[a].priv = None
            BY <4>2, <5>2, <3>0 DEF EndToEnd
          <5>3. CASE m[a].priv # None
            <6>1. m[a].priv \in DOMAIN m /\ m[m[a].priv].next = a
              BY <5>3, <3>0 DEF EndToEnd
            <6>2. m[a].priv # b /\ m[a].priv # d
              BY <6>1, <4>2, <3>0
            <6>3. n[m[a].priv].next = a
              BY <6>1, <6>2, <1>5
            <6> QED BY <6>1, <6>2, <6>3, <4>2, <3>0, <5>3, <1>3
          <5> QED BY <5>2, <5>3
        <4> QED BY <4>1, <4>2
      <3>3. \A c \in DOMAIN n : a < c => a + Hdr + n[a].size <= c
        BY <3>0, <1>3 DEF EndToEnd
      <3> QED BY <3>1, <3>2, <3>3
    <2> QED BY <2>2, <2>3
  <1> QED BY <1>6, <1>7

(* incise_free_block cuts the block it is given.                           *)
LEMMA InciseCuts ==
    ASSUME Blocks(mem), EndToEnd(mem), NEW b \in DOMAIN mem, NEW k \in Nat,
           mem[b].size >= k + Hdr, Incise(b, k)
    PROVE  Cut(mem, mem', b, k)
  <1> DEFINE w == b + Hdr + k
             d == mem[b].next
             rest == [size |-> mem[b].size - (Hdr + k), next |-> d, priv |-> b, used |-> FALSE]
             head == [size |-> k, next |-> w, priv |-> mem[b].priv, used |-> mem[b].used]
             linked(a) == [mem[a] EXCEPT !.priv = w]
             f(a) == IF a = b THEN head ELSE IF a = w THEN rest
                     ELSE IF a = d THEN linked(a) ELSE mem[a]
  <1>0. /\ b \in Nat /\ mem[b].size \in Nat /\ Hdr \in Nat \ {0} /\ Arena \in Nat
        /\ b + Hdr + mem[b].size <= Arena /\ None \notin Int
        /\ d # None => d > b /\ d \in DOMAIN mem
    BY EndInArena, HeapAssumption DEF EndToEnd
  <1>1. w \in Addr /\ w # b /\ b + (Hdr + k) = w
    BY <1>0 DEF Addr
  <1>2. w \notin DOMAIN mem
    BY <1>0 DEF EndToEnd
  <1>3. mem' = [a \in DOMAIN mem \cup {w} |-> f(a)]
    BY <1>1 DEF Incise, Block
  <1>4. mem[b] \in Header /\ rest \in Header
    BY <1>0 DEF Blocks, Header, AddrOrNone
  <1>5. mem'[b] = head
    <2>1. mem'[b] = f(b)
      <3> HIDE DEF f
      <3> QED BY <1>3
    <2>2. f(b) = head
      <3> HIDE DEF head, linked, rest
      <3> QED OBVIOUS
    <2> QED BY <2>1, <2>2
  <1>6. /\ mem'[b] \in Header /\ mem'[b].size = k /\ mem'[b].next = w
        /\ mem'[b].priv = mem[b].priv /\ mem'[b].used = mem[b].used
    BY <1>0, <1>1, <1>4, <1>5 DEF Header, AddrOrNone
  <1>7. mem'[w] = rest
    <2>1. mem'[w] = f(w)
      <3> HIDE DEF f
      <3> QED BY <1>3
    <2>2. f(w) = rest
      <3> HIDE DEF w, head, linked, rest
      <3> QED BY <1>1
    <2> QED BY <2>1, <2>2
  <1>8. ASSUME NEW a \in DOMAIN mem \ {b}
        PROVE  /\ mem'[a] \in Header
               /\ mem'[a].size = mem[a].size /\ mem'[a].next = mem[a].next
               /\ mem'[a].used = mem[a].used
               /\ mem'[a].priv = IF a = d THEN w ELSE mem[a].priv
    <2>1. mem[a] \in Header
      BY DEF Blocks
    <2>2. mem'[a] = IF a = d THEN [mem[a] EXCEPT !.priv = w] ELSE mem[a]
      BY <1>2, <1>3
    <2> QED BY <2>1, <2>2, <1>1 DEF Header, AddrOrNone
  <1>9. DOMAIN mem' = DOMAIN mem \cup {w}
    BY <1>3
  <1> QED BY <1>4, <1>6, <1>7, <1>8, <1>9 DEF Cut

(* free_block joins a block with the one behind it.                        *)
LEMMA AbsorbJoins ==
    ASSUME Blocks(mem), EndToEnd(mem), NEW b \in DOMAIN mem, NEW d \in DOMAIN mem,
           mem[b].next = d, Absorb(b, d)
    PROVE  Joined(mem, mem', b, d) /\ mem'[b].used = FALSE
  <1> DEFINE f == mem[d].next
             g(x) == IF x = b THEN [size |-> mem[b].size + Hdr + mem[d].size, next |-> f,
                                   priv |-> mem[b].priv, used |-> FALSE]
                     ELSE IF x = f THEN [mem[x] EXCEPT !.priv = b] ELSE mem[x]
  <1>0. /\ b \in Nat /\ mem[b].size \in Nat /\ d \in Nat /\ mem[d].size \in Nat
        /\ Hdr \in Nat \ {0} /\ Arena \in Nat /\ d = b + Hdr + mem[b].size
        /\ d + Hdr + mem[d].size <= Arena /\ None \notin Int
    BY EndInArena, HeapAssumption
  <1>1. DOMAIN mem \ (d .. d + Hdr + mem[d].size - 1) = DOMAIN mem \ {d}
    <2>1. d \in d .. d + Hdr + mem[d].size - 1
      BY <1>0
    <2>2. ASSUME NEW x \in DOMAIN mem, x \in d .. d + Hdr + mem[d].size - 1 PROVE x = d
      <3>1. x \in Nat /\ x >= d /\ x < d + Hdr + mem[d].size
        BY <2>2, <1>0 DEF Blocks, Addr
      <3>2. d < x => d + Hdr + mem[d].size <= x
        BY DEF EndToEnd
      <3> QED BY <3>1, <3>2, <1>0
    <2> QED BY <2>1, <2>2
  <1>2. b # d
    BY <1>0
  <1>3. mem' = [x \in DOMAIN mem \ {d} |-> g(x)]
    <2>1. (DOMAIN mem \ (d .. d + Hdr + mem[d].size - 1)) \cup {b} = DOMAIN mem \ {d}
      BY <1>1, <1>2
    <2> QED BY <2>1 DEF Absorb, Block
  <1>4. mem[b] \in Header /\ mem[d] \in Header
    BY DEF Blocks
  <1>5. mem'[b] = [size |-> mem[b].size + Hdr + mem[d].size, next |-> f,
                  priv |-> mem[b].priv, used |-> FALSE]
    BY <1>2, <1>3
  <1>6. /\ mem'[b] \in Header /\ mem'[b].size = mem[b].size + Hdr + mem[d].size
        /\ mem'[b].next = f /\ mem'[b].priv = mem[b].priv /\ mem'[b].used = FALSE
    BY <1>0, <1>4, <1>5 DEF Header
  <1>7. b \in Addr
    BY DEF Blocks
  <1>8. ASSUME NEW a \in DOMAIN mem \ {b, d}
        PROVE  /\ mem'[a] \in Header
               /\ mem'[a].size = mem[a].size /\ mem'[a].next = mem[a].next
               /\ mem'[a].used = mem[a].used
               /\ mem'[a].priv = IF a = f THEN b ELSE mem[a].priv
    <2>1. mem[a] \in Header
      BY DEF Blocks
    <2>2. mem'[a] = IF a = f THEN [mem[a] EXCEPT !.priv = b] ELSE mem[a]
      BY <1>3
    <2> QED BY <2>1, <2>2, <1>7 DEF Header, AddrOrNone
  <1>9. DOMAIN mem' = DOMAIN mem \ {d}
    BY <1>3
  <1> QED BY <1>6, <1>8, <1>9 DEF Joined

-----------------------------------------------------------------------------
(* The invariant: what a caller relies on from one step to the next, and   *)
(* that memory handed out lies in a block of its own.                      *)
CallOK(c) ==
    /\ pc[c] = "search" =>
          /\ curr[c] \in DOMAIN mem \cup {None}
          /\ req[c] \in Sizes[fit[c]]
          /\ found[c] # None => found[c] \in DOMAIN mem /\ ~mem[found[c]].used
                                /\ mem[found[c]].size >= req[c]
    /\ pc[c] = "mark" =>
          /\ req[c] \in Sizes[fit[c]]
          /\ found[c] \in DOMAIN mem /\ ~mem[found[c]].used /\ mem[found[c]].size >= req[c]
    /\ pc[c] = "find" =>
          /\ curr[c] \in DOMAIN mem \cup {None}
          /\ \A p \in held : p.addr # req[c]
    /\ pc[c] = "merge" =>
          /\ found[c] \in DOMAIN mem
          /\ \A p \in held : p.addr # found[c]

HeldOK ==
    /\ \A p \in held : p.addr \in DOMAIN mem /\ mem[p.addr].used /\ mem[p.addr].size >= p.size
    /\ \A p, q \in held : p.addr = q.addr => p = q

HInv == TypeOK /\ Tiled /\ HeldOK /\ \A c \in Callers : CallOK(c)

OneCaller == \A c, d \in Callers : c = d

(* A heap as haper_block_init leaves it, one free block over the arena,
   satisfies the invariant. *)
LEMMA InitHolds == Init => HInv
  <1> SUFFICES ASSUME Init PROVE HInv
    OBVIOUS
  <1> DEFINE root == [size |-> Arena - Hdr, next |-> None, priv |-> None, used |-> FALSE]
  <1>1. mem = [a \in {0} |-> root] /\ 0 \in Addr /\ Arena - Hdr \in 0 .. Arena
    BY HeapAssumption DEF Init, Addr
  <1>2. root \in Header
    BY <1>1 DEF Header, AddrOrNone
  <1>3. TypeOK
    <2>1. DOMAIN mem = {0} /\ mem[0] \in Header
      BY <1>1, <1>2
    <2>2. Arena \in Nat /\ None \in AddrOrNone
      BY HeapAssumption DEF AddrOrNone
    <2> QED BY <1>1, <2>1, <2>2 DEF Init, TypeOK
  <1>4. Tiled
    BY <1>1, HeapAssumption DEF Tiled, EndToEnd
  <1>5. HeldOK /\ \A c \in Callers : CallOK(c)
    BY DEF Init, HeldOK, CallOK
  <1> QED BY <1>3, <1>4, <1>5 DEF HInv

(* The steps that leave the list and the memory handed out alone.          *)
LEMMA QuietStep ==
    ASSUME HInv, OneCaller, NEW c \in Callers,
           \/ \E f \in {"best", "first"} : \E n \in Sizes[f] : Alloc(c, f, n)
           \/ Search(c) \/ Fail(c) \/ FreeElsewhere(c)
           \/ Find(c) \/ NotFound(c) \/ Merged(c)
    PROVE  HInv'
  <1> USE HeapAssumption
  <1>0. /\ TypeOK /\ Tiled /\ HeldOK /\ CallOK(c)
        /\ \A d \in Callers : d = c
    BY DEF HInv, OneCaller
  <1>1. mem' = mem /\ held' = held
    BY DEF Alloc, Search, Fail, FreeElsewhere, Walk, Find, NotFound, Merged
  <1>2. Tiled' /\ HeldOK'
    BY <1>0, <1>1 DEF Tiled, HeldOK
  <1>3. ASSUME NEW f \in {"best", "first"}, NEW n \in Sizes[f], Alloc(c, f, n)
        PROVE  TypeOK' /\ CallOK(c)'
    <2>1. TypeOK'
      BY <1>0, <1>1, <1>3 DEF TypeOK, Alloc, AddrOrNone, Addr
    <2>2. CallOK(c)'
      BY <1>0, <1>1, <1>3 DEF TypeOK, CallOK, Alloc, Tiled, EndToEnd
    <2> QED BY <2>1, <2>2
  <1>4. ASSUME Search(c) PROVE TypeOK' /\ CallOK(c)'
    <2>1. curr[c] \in DOMAIN mem /\ Block(curr[c]) = mem[curr[c]] /\ mem[curr[c]] \in Header
      BY <1>0, <1>4 DEF Search, CallOK, Block, TypeOK
    <2>2. mem[curr[c]].next \in DOMAIN mem \cup {None}
      BY <1>0, <2>1 DEF Tiled, EndToEnd
    <2>3. TypeOK'
      BY <1>0, <1>1, <1>4, <2>1 DEF TypeOK, Search, Header, AddrOrNone
    <2>4. CallOK(c)'
      BY <1>0, <1>1, <1>4, <2>1, <2>2 DEF TypeOK, CallOK, Search, Better
    <2> QED BY <2>3, <2>4
  <1>5. ASSUME Fail(c) \/ NotFound(c) \/ Merged(c) PROVE TypeOK' /\ CallOK(c)'
    BY <1>0, <1>1, <1>5 DEF TypeOK, CallOK, Fail, NotFound, Merged, Return, AddrOrNone
  <1>6. ASSUME FreeElsewhere(c) PROVE TypeOK' /\ CallOK(c)'
    <2>1. TypeOK'
      BY <1>0, <1>1, <1>6 DEF TypeOK, FreeElsewhere, Walk, AddrOrNone, Addr
    <2>2. \A p \in held : p.addr # Arena
      BY <1>0 DEF TypeOK, Addr
    <2>3. CallOK(c)'
      BY <1>0, <1>1, <1>6, <2>2 DEF TypeOK, CallOK, FreeElsewhere, Walk, Tiled, EndToEnd
    <2> QED BY <2>1, <2>3
  <1>7. ASSUME Find(c) PROVE TypeOK' /\ CallOK(c)'
    <2>1. curr[c] \in DOMAIN mem /\ Block(curr[c]) = mem[curr[c]] /\ mem[curr[c]] \in Header
      BY <1>0, <1>7 DEF Find, CallOK, Block, TypeOK
    <2>2. mem[curr[c]].next \in DOMAIN mem \cup {None}
      BY <1>0, <2>1 DEF Tiled, EndToEnd
    <2>3. TypeOK'
      BY <1>0, <1>1, <1>7, <2>1 DEF TypeOK, Find, Header, AddrOrNone
    <2>4. CallOK(c)'
      BY <1>0, <1>1, <1>7, <2>1, <2>2 DEF TypeOK, CallOK, Find
    <2> QED BY <2>3, <2>4
  <1> QED BY <1>0, <1>2, <1>3, <1>4, <1>5, <1>6, <1>7 DEF HInv

(* A change of use flags moves no block.                                   *)
LEMMA FlagsKeep ==
    ASSUME NEW m, NEW n, Blocks(m), EndToEnd(m), DOMAIN n = DOMAIN m,
           \A a \in DOMAIN m :
              /\ n[a] \in Header
              /\ n[a].size = m[a].size /\ n[a].next = m[a].next /\ n[a].priv = m[a].priv
    PROVE  Blocks(n) /\ EndToEnd(n)
  <1>1. Blocks(n)
    BY DEF Blocks
  <1>2. \A a \in DOMAIN m :
           LET end == a + Hdr + m[a].size
           IN  /\ IF n[a].next = None THEN end = Arena
                  ELSE n[a].next = end /\ end \in DOMAIN n /\ n[end].priv = a
               /\ IF n[a].priv = None THEN a = 0
                  ELSE n[a].priv \in DOMAIN n /\ n[n[a].priv].next = a
               /\ \A b \in DOMAIN n : a < b => end <= b
    BY DEF EndToEnd
  <1> QED BY <1>1, <1>2 DEF EndToEnd

(* haper_block_incise keeps the invariant: the block found is still free when
   it is cut, since nobody else is inside. *)
LEMMA SplitStep ==
    ASSUME HInv, OneCaller, NEW c \in Callers, Split(c)
    PROVE  HInv'
  <1> DEFINE b == found[c]
             k == req[c]
  <1>0. /\ TypeOK /\ Tiled /\ HeldOK /\ CallOK(c)
        /\ \A d \in Callers : d = c
        /\ Blocks(mem) /\ EndToEnd(mem)
    BY DEF HInv, OneCaller, TypeOK, Tiled, Blocks
  <1>1. /\ b \in DOMAIN mem /\ ~mem[b].used /\ mem[b].size >= k
        /\ k \in Sizes[fit[c]] /\ Block(b) = mem[b] /\ k \in Nat /\ mem[b].size \in Nat
    BY <1>0 DEF CallOK, Split, TypeOK, Block, Header
  <1>2. CASE UNCHANGED mem
    BY <1>0, <1>1, <1>2 DEF Split, HInv, TypeOK, Tiled, HeldOK, CallOK
  <1>3. CASE mem[b].size >= k + Hdr /\ Incise(b, k)
    <2>1. Cut(mem, mem', b, k)
      BY <1>0, <1>1, <1>3, InciseCuts
    <2>2. Blocks(mem') /\ EndToEnd(mem')
      BY <2>1, <1>0, <1>1, <1>3, CutKeeps
    <2>3. TypeOK' /\ Tiled'
      BY <2>2, <1>0 DEF TypeOK, Tiled, Blocks, Split
    <2>4. HeldOK'
      <3>1. held' = held
        BY DEF Split
      <3>2. \A p \in held : p.addr \in DOMAIN mem \ {b}
        BY <1>0, <1>1 DEF HeldOK
      <3>3. \A a \in DOMAIN mem \ {b} :
               a \in DOMAIN mem' /\ mem'[a].used = mem[a].used /\ mem'[a].size = mem[a].size
        BY <2>1 DEF Cut
      <3> QED BY <3>1, <3>2, <3>3, <1>0 DEF HeldOK
    <2>5. CallOK(c)'
      <3>1. b \in DOMAIN mem' /\ ~mem'[b].used /\ mem'[b].size >= k
        BY <2>1, <1>1 DEF Cut
      <3> QED BY <3>1, <1>0, <1>1 DEF CallOK, Split, TypeOK
    <2> QED BY <2>3, <2>4, <2>5, <1>0 DEF HInv
  <1>4. Block(b).size >= k + Hdr + Margin(c) => mem[b].size >= k + Hdr
    BY <1>1, HeapAssumption DEF Margin
  <1> QED BY <1>1, <1>2, <1>3, <1>4 DEF Split

(* set_block_status in the allocating call keeps the invariant: the block it
   marks is the one its search chose. *)
LEMMA MarkStep ==
    ASSUME HInv, OneCaller, NEW c \in Callers, Mark(c)
    PROVE  HInv'
  <1> DEFINE b == found[c]
             new == [addr |-> b, size |-> req[c], by |-> c]
  <1>0. /\ TypeOK /\ Tiled /\ HeldOK /\ CallOK(c)
        /\ \A d \in Callers : d = c
        /\ Blocks(mem) /\ EndToEnd(mem)
    BY DEF HInv, OneCaller, TypeOK, Tiled, Blocks
  <1>1. /\ b \in DOMAIN mem /\ ~mem[b].used /\ mem[b].size >= req[c]
        /\ req[c] \in Sizes[fit[c]] /\ Block(b) = mem[b]
    BY <1>0 DEF CallOK, Mark, Block
  <1>2. /\ DOMAIN mem' = DOMAIN mem /\ mem'[b] = [mem[b] EXCEPT !.used = TRUE]
        /\ \A a \in DOMAIN mem \ {b} : mem'[a] = mem[a]
    BY <1>1 DEF Mark
  <1>3. \A a \in DOMAIN mem :
           /\ mem'[a] \in Header
           /\ mem'[a].size = mem[a].size /\ mem'[a].next = mem[a].next /\ mem'[a].priv = mem[a].priv
           /\ mem[a].used \/ a = b => mem'[a].used
    <2> SUFFICES ASSUME NEW a \in DOMAIN mem
                 PROVE  /\ mem'[a] \in Header
                        /\ mem'[a].size = mem[a].size /\ mem'[a].next = mem[a].next
                        /\ mem'[a].priv = mem[a].priv
                        /\ mem[a].used \/ a = b => mem'[a].used
      OBVIOUS
    <2>1. mem[a] \in Header
      BY <1>0 DEF Blocks
    <2> QED BY <2>1, <1>2 DEF Header
  <1>4. Blocks(mem') /\ EndToEnd(mem')
    BY <1>0, <1>2, <1>3, FlagsKeep
  <1>5. new \in [addr : Addr, size : Sizes["best"] \cup Sizes["first"], by : Callers]
    BY <1>0, <1>1 DEF TypeOK
  <1>6. TypeOK' /\ Tiled'
    <2>1. held' = held \cup {new}
      BY DEF Mark
    <2>2. held' \subseteq [addr : Addr, size : Sizes["best"] \cup Sizes["first"], by : Callers]
      BY <2>1, <1>0, <1>5 DEF TypeOK
    <2>3. 0 \in 0 .. Arena
      BY HeapAssumption
    <2> QED BY <2>2, <2>3, <1>0, <1>4 DEF TypeOK, Tiled, Blocks, Mark, Return, AddrOrNone
  <1>7. HeldOK'
    <2>1. held' = held \cup {new}
      BY DEF Mark
    <2>2. \A p \in held : p.addr # b
      BY <1>0, <1>1 DEF HeldOK
    <2>3. \A p \in held' : p.addr \in DOMAIN mem' /\ mem'[p.addr].used /\ mem'[p.addr].size >= p.size
      <3>1. ASSUME NEW p \in held
            PROVE  p.addr \in DOMAIN mem' /\ mem'[p.addr].used /\ mem'[p.addr].size >= p.size
        BY <1>0, <1>2, <1>3 DEF HeldOK
      <3>2. new.addr \in DOMAIN mem' /\ mem'[new.addr].used /\ mem'[new.addr].size >= new.size
        BY <1>1, <1>2, <1>3
      <3> QED BY <2>1, <3>1, <3>2
    <2>4. \A p, q \in held' : p.addr = q.addr => p = q
      BY <2>1, <2>2, <1>0 DEF HeldOK
    <2> QED BY <2>3, <2>4 DEF HeldOK
  <1>8. CallOK(c)'
    BY <1>0 DEF CallOK, Mark, Return, TypeOK
  <1> QED BY <1>0, <1>6, <1>7, <1>8 DEF HInv

(* set_block_status in free_haper_block keeps the invariant: what becomes free
   is no longer held by anyone. *)
LEMMA FreeStep ==
    ASSUME HInv, OneCaller, NEW c \in Callers, Free(c)
    PROVE  HInv'
  <1>0. /\ TypeOK /\ Tiled /\ HeldOK /\ CallOK(c)
        /\ \A d \in Callers : d = c
    BY DEF HInv, OneCaller
  <1>1. PICK p \in held : Walk(c, p.addr) /\ held' = held \ {p}
    BY DEF Free
  <1>2. mem' = mem
    BY <1>1 DEF Walk
  <1>3. TypeOK' /\ Tiled'
    <2>1. p.addr \in Nat /\ 0 \in DOMAIN mem
      BY <1>0 DEF TypeOK, Addr, Tiled, EndToEnd
    <2> QED BY <1>0, <1>1, <1>2, <2>1 DEF TypeOK, Walk, AddrOrNone, Tiled
  <1>4. HeldOK'
    BY <1>0, <1>1, <1>2 DEF HeldOK
  <1>5. CallOK(c)'
    <2>1. \A q \in held' : q.addr # p.addr
      BY <1>0, <1>1 DEF HeldOK
    <2> QED BY <1>0, <1>1, <1>2, <2>1 DEF CallOK, Walk, TypeOK, Tiled, EndToEnd
  <1> QED BY <1>0, <1>3, <1>4, <1>5 DEF HInv

(* A round of free_memory, by the case it takes in free_block.             *)
LEMMA MergeStep ==
    ASSUME HInv, OneCaller, NEW c \in Callers, Merge(c)
    PROVE  HInv'
  <1> DEFINE b == found[c]
             prev == mem[b].priv
             nxt == mem[b].next
  <1>0. /\ TypeOK /\ Tiled /\ HeldOK /\ CallOK(c)
        /\ \A d \in Callers : d = c
        /\ Blocks(mem) /\ EndToEnd(mem)
    BY DEF HInv, OneCaller, TypeOK, Tiled, Blocks
  <1>1. /\ b \in DOMAIN mem /\ Block(b) = mem[b] /\ mem[b] \in Header
        /\ \A p \in held : p.addr # b
    BY <1>0 DEF CallOK, Merge, Block, Blocks
  <1>2. /\ prev # None => prev \in DOMAIN mem /\ mem[prev].next = b /\ Block(prev) = mem[prev]
        /\ nxt # None => nxt \in DOMAIN mem /\ mem[nxt].priv = b /\ Block(nxt) = mem[nxt]
    BY <1>0, <1>1 DEF EndToEnd, Block
  <1>3. seen' = [seen EXCEPT ![c] = mem[b].size] /\ mem[b].size \in 0 .. Arena
    BY <1>1 DEF Merge, Header
  <1>4. pc[c] = "merge" /\ UNCHANGED <<held, pc, fit, req, curr>>
    BY DEF Merge
  <1>5. ASSUME NEW a \in DOMAIN mem, NEW d \in DOMAIN mem, mem[a].next = d, Absorb(a, d),
               (b = a /\ IsFree(d)) \/ (b = d /\ IsFree(a)),
               found' = [found EXCEPT ![c] = a]
        PROVE  HInv'
    <2>1. Joined(mem, mem', a, d)
      BY <1>0, <1>5, AbsorbJoins
    <2>2. Blocks(mem') /\ EndToEnd(mem')
      BY <2>1, <1>0, <1>5, JoinKeeps
    <2>3. \A p \in held : p.addr # a /\ p.addr # d
      BY <1>0, <1>1, <1>5 DEF HeldOK, IsFree, Block
    <2>4. a \in Addr
      BY <1>0 DEF Blocks
    <2>5. TypeOK' /\ Tiled'
      BY <2>2, <2>4, <1>0, <1>3, <1>4, <1>5 DEF TypeOK, Tiled, Blocks, AddrOrNone
    <2>6. HeldOK'
      <3>1. \A x \in DOMAIN mem \ {a, d} :
               x \in DOMAIN mem' /\ mem'[x].used = mem[x].used /\ mem'[x].size = mem[x].size
        BY <2>1 DEF Joined
      <3>2. \A p \in held : p.addr \in DOMAIN mem \ {a, d}
        BY <2>3, <1>0 DEF HeldOK
      <3> QED BY <3>1, <3>2, <1>0, <1>4 DEF HeldOK
    <2>7. CallOK(c)'
      <3>1. a \in DOMAIN mem'
        <4>1. a # d
          BY <1>0, <1>5, EndInArena, HeapAssumption
        <4> QED BY <4>1, <2>1 DEF Joined
      <3>2. found'[c] = a /\ pc'[c] = "merge"
        BY <1>0, <1>4, <1>5 DEF TypeOK
      <3> QED BY <3>1, <3>2, <2>3, <1>4 DEF CallOK
    <2> QED BY <2>5, <2>6, <2>7, <1>0 DEF HInv
  <1>6. CASE IsFree(prev) /\ Absorb(prev, b) /\ found' = [found EXCEPT ![c] = prev]
    BY <1>1, <1>2, <1>5, <1>6 DEF IsFree
  <1>7. CASE IsFree(nxt) /\ Absorb(b, nxt) /\ UNCHANGED found
    <2>1. found' = [found EXCEPT ![c] = b]
      BY <1>0, <1>7 DEF TypeOK
    <2>2. nxt \in DOMAIN mem
      BY <1>2, <1>7 DEF IsFree
    <2>3. b \in DOMAIN mem /\ mem[b].next = nxt /\ Absorb(b, nxt) /\ IsFree(nxt)
      BY <1>1, <1>7
    <2> HIDE DEF b, nxt
    <2> QED BY <2>1, <2>2, <2>3, <1>5
  <1>8. CASE Release(b) /\ UNCHANGED found
    <2>1. /\ DOMAIN mem' = DOMAIN mem /\ mem'[b] = [mem[b] EXCEPT !.used = FALSE]
          /\ \A a \in DOMAIN mem \ {b} : mem'[a] = mem[a]
      BY <1>1, <1>8 DEF Release
    <2>2. mem'[b] \in Header /\ mem'[b].size = mem[b].size
          /\ mem'[b].next = mem[b].next /\ mem'[b].priv = mem[b].priv
      BY <2>1, <1>1 DEF Header
    <2>3. \A a \in DOMAIN mem :
             /\ mem'[a] \in Header
             /\ mem'[a].size = mem[a].size /\ mem'[a].next = mem[a].next
             /\ mem'[a].priv = mem[a].priv
      BY <2>1, <2>2, <1>0 DEF Blocks
    <2>4. Blocks(mem') /\ EndToEnd(mem')
      BY <2>1, <2>3, <1>0, FlagsKeep
    <2>5. TypeOK' /\ Tiled'
      BY <2>4, <1>0, <1>3, <1>4, <1>8 DEF TypeOK, Tiled, Blocks
    <2>6. HeldOK'
      <3>1. ASSUME NEW p \in held
            PROVE  p.addr \in DOMAIN mem' /\ mem'[p.addr].used /\ mem'[p.addr].size >= p.size
        <4>1. p.addr \in DOMAIN mem \ {b} /\ mem[p.addr].used /\ mem[p.addr].size >= p.size
          BY <1>0, <1>1 DEF HeldOK
        <4> QED BY <4>1, <2>1
      <3> QED BY <3>1, <1>0, <1>4 DEF HeldOK
    <2>7. CallOK(c)'
      BY <2>1, <1>0, <1>1, <1>4, <1>8 DEF CallOK
    <2> QED BY <2>5, <2>6, <2>7, <1>0 DEF HInv
  <1> QED BY <1>1, <1>6, <1>7, <1>8 DEF Merge

(* Every step keeps the invariant.                                         *)
LEMMA HeapStep == ASSUME HInv, OneCaller, [Next]_vars PROVE HInv'
  <1>1. ASSUME NEW c \in Callers, Work(c) \/ Call(c) PROVE HInv'
    BY <1>1, QuietStep, SplitStep, MarkStep, FreeStep, MergeStep DEF Work, Call
  <1>2. CASE UNCHANGED vars
    BY <1>2 DEF vars, callvars, HInv, TypeOK, Tiled, HeldOK, CallOK
  <1> QED BY <1>1, <1>2 DEF Next

(* The inductive invariant holds in every state of a heap that one caller at a
   time is inside. *)
THEOREM HeapInvariant == ASSUME OneCaller PROVE Spec => []HInv
  <1>1. HInv /\ [Next]_vars => HInv'
    BY HeapStep
  <1> QED BY <1>1, InitHolds, PTL DEF Spec

(* The list and its callers keep their types.                              *)
THEOREM TypesKept == ASSUME OneCaller PROVE Spec => []TypeOK
  <1>1. HInv => TypeOK
    BY DEF HInv
  <1> QED BY <1>1, HeapInvariant, PTL

(* The blocks always lie end to end over the whole arena, their links both *)
(* ways in agreement (incise_free_block, free_block).                      *)
THEOREM ArenaTiled == ASSUME OneCaller PROVE Spec => []Tiled
  <1>1. HInv => Tiled
    BY DEF HInv
  <1> QED BY <1>1, HeapInvariant, PTL

-----------------------------------------------------------------------------
(* What a call still owes: blocks in use that nobody holds any more, free  *)
(* neighbours not merged yet, and blocks its search has not looked at.     *)

\* a is in use because it was handed out, or is being given back.
InHand(a) ==
    \/ \E p \in held : p.addr = a
    \/ \E c \in Callers :
          \/ pc[c] = "find" /\ req[c] = a /\ curr[c] # None /\ curr[c] <= a
          \/ pc[c] = "merge" /\ found[c] = a

FreePair(a) == ~mem[a].used /\ mem[a].next # None /\ ~mem[mem[a].next].used

\* Two free neighbours: the halves of a block about to be marked, or a merge at work.
Excused(a) ==
    \E c \in Callers :
       \/ pc[c] = "mark" /\ found[c] = a
       \/ pc[c] = "merge" /\ (found[c] = a \/ found[c] = mem[a].next)

\* The blocks the search has passed have no better fit than the one it has found.
BestSoFar(c) ==
    \A a \in DOMAIN mem :
       (curr[c] = None \/ a < curr[c]) /\ ~mem[a].used /\ mem[a].size >= req[c]
       => found[c] # None /\ (fit[c] = "best" => mem[found[c]].size <= mem[a].size)

\* The loop of free_memory is over: the block is free, its neighbours are not.
Grown(b) ==
    /\ ~mem[b].used
    /\ mem[b].priv # None => mem[mem[b].priv].used
    /\ mem[b].next # None => mem[mem[b].next].used

CallDue(c) ==
    /\ pc[c] # "merge" => seen[c] = 0
    /\ pc[c] = "search" => BestSoFar(c)
    /\ pc[c] = "find" /\ req[c] \in DOMAIN mem => mem[req[c]].used
    /\ pc[c] = "merge" /\ seen[c] = mem[found[c]].size => Grown(found[c])

UsedDue == \A a \in DOMAIN mem : mem[a].used => mem[a].size > 0 /\ InHand(a)
PairsDue == \A a \in DOMAIN mem : FreePair(a) => Excused(a)

Due == UsedDue /\ PairsDue /\ \A c \in Callers : CallDue(c)

(* A heap as haper_block_init leaves it owes nothing.                      *)
LEMMA InitDue == Init => Due
  <1> SUFFICES ASSUME Init PROVE Due
    OBVIOUS
  <1>1. DOMAIN mem = {0} /\ ~mem[0].used /\ mem[0].next = None
    BY DEF Init
  <1> QED BY <1>1 DEF Init, Due, UsedDue, PairsDue, FreePair, CallDue

(* What is said of the list alone stays when neither the list nor the memory
   handed out changes and the caller that owed something has settled it. *)
LEMMA Undisturbed ==
    ASSUME Due, OneCaller, NEW c \in Callers, mem' = mem, held' = held,
           \A a \in DOMAIN mem : mem[a].used /\ InHand(a) => InHand(a)',
           \A a \in DOMAIN mem : FreePair(a) /\ Excused(a) => Excused(a)',
           CallDue(c)'
    PROVE  Due'
  <1>1. UsedDue'
    BY DEF Due, UsedDue
  <1>2. PairsDue'
    BY DEF Due, PairsDue, FreePair
  <1> QED BY <1>1, <1>2 DEF Due, OneCaller

(* The search and the return of an allocation leave nothing undone.        *)
LEMMA SearchDue ==
    ASSUME HInv, Due, OneCaller, NEW c \in Callers,
           \/ \E f \in {"best", "first"} : \E n \in Sizes[f] : Alloc(c, f, n)
           \/ Search(c) \/ Fail(c)
    PROVE  Due'
  <1>0. /\ TypeOK /\ Tiled /\ CallOK(c) /\ CallDue(c) /\ \A d \in Callers : d = c
        /\ Blocks(mem) /\ EndToEnd(mem)
    BY DEF HInv, Due, OneCaller, TypeOK, Tiled, Blocks
  <1>1. mem' = mem /\ held' = held
    BY DEF Alloc, Search, Fail
  <1>2. pc[c] = "idle" \/ pc[c] = "search"
    BY DEF Alloc, Search, Fail
  <1>3. \A a \in DOMAIN mem : mem[a].used /\ InHand(a) => InHand(a)'
    BY <1>0, <1>1, <1>2 DEF InHand
  <1>4. \A a \in DOMAIN mem : FreePair(a) /\ Excused(a) => Excused(a)'
    BY <1>0, <1>2 DEF Excused
  <1>5. ASSUME NEW f \in {"best", "first"}, NEW n \in Sizes[f], Alloc(c, f, n)
        PROVE  CallDue(c)'
    <2>1. curr'[c] = 0 /\ pc'[c] = "search" /\ seen'[c] = 0
      BY <1>0, <1>5 DEF Alloc, TypeOK, CallDue
    <2>2. BestSoFar(c)'
      BY <1>0, <1>1, <2>1, HeapAssumption DEF BestSoFar, Blocks, Addr
    <2> QED BY <2>1, <2>2 DEF CallDue
  <1>6. ASSUME Search(c) PROVE CallDue(c)'
    <2> DEFINE b == curr[c]
    <2>1. /\ b \in DOMAIN mem /\ Block(b) = mem[b]
          /\ found[c] # None => found[c] \in DOMAIN mem /\ Block(found[c]) = mem[found[c]]
      BY <1>0, <1>6 DEF Search, CallOK, Block
    <2>2. /\ pc'[c] = "search" /\ seen'[c] = 0 /\ req'[c] = req[c] /\ fit'[c] = fit[c]
          /\ found'[c] = IF Better(b, c) THEN b ELSE found[c]
          /\ curr'[c] = IF Better(b, c) /\ fit[c] = "first" THEN None ELSE mem[b].next
      BY <1>0, <1>6, <2>1 DEF Search, TypeOK, CallDue
    <2>3. BestSoFar(c)'
      <3> SUFFICES ASSUME NEW a \in DOMAIN mem,
                          curr'[c] = None \/ a < curr'[c],
                          ~mem[a].used, mem[a].size >= req[c]
                   PROVE  found'[c] # None
                          /\ (fit[c] = "best" => mem[found'[c]].size <= mem[a].size)
        BY <1>1, <2>2 DEF BestSoFar
      <3>1. CASE Better(b, c) /\ fit[c] = "first"
        BY <3>1, <2>1, <2>2, <1>0, HeapAssumption DEF Blocks, Addr
      <3>2. CASE ~(Better(b, c) /\ fit[c] = "first")
        <4>0. a \in Nat /\ b \in Nat /\ mem[a].size \in Nat /\ mem[b].size \in Nat
              /\ b # None /\ a < Arena
          BY <1>0, <2>1, HeapAssumption DEF Blocks, Addr, Header
        <4>1. a < b \/ a = b
          BY <3>2, <4>0, <2>1, <2>2, <1>0, HeapAssumption DEF EndToEnd
        <4>2. a < b => found[c] # None
                       /\ (fit[c] = "best" => mem[found[c]].size <= mem[a].size)
          BY <1>0, <1>6 DEF CallDue, BestSoFar, Search
        <4>3. found[c] # None => mem[found[c]].size \in Nat
          BY <1>0, <2>1 DEF Blocks, Header
        <4>4. Better(b, c) <=> /\ ~mem[b].used /\ mem[b].size >= req[c]
                               /\ found[c] # None => mem[b].size <= mem[found[c]].size
          BY <2>1 DEF Better
        <4>5. CASE Better(b, c)
          BY <4>0, <4>1, <4>2, <4>3, <4>4, <4>5, <2>2
        <4>6. CASE ~Better(b, c)
          BY <4>0, <4>1, <4>2, <4>3, <4>4, <4>6, <2>2
        <4> QED BY <4>5, <4>6
      <3> QED BY <3>1, <3>2
    <2> QED BY <2>2, <2>3 DEF CallDue
  <1>7. ASSUME Fail(c) PROVE CallDue(c)'
    BY <1>0, <1>7 DEF Fail, Return, TypeOK, CallDue
  <1>8. CallDue(c)'
    BY <1>5, <1>6, <1>7
  <1> QED BY <1>1, <1>3, <1>4, <1>8, Undisturbed

(* Looking for the block of an address loses none: the block is ahead of the
   walk until it is found, and a walk that ends had no block to find. *)
LEMMA FindDue ==
    ASSUME HInv, Due, OneCaller, NEW c \in Callers,
           FreeElsewhere(c) \/ Find(c) \/ NotFound(c) \/ Merged(c)
    PROVE  Due'
  <1>0. /\ TypeOK /\ Tiled /\ CallOK(c) /\ CallDue(c) /\ \A d \in Callers : d = c
        /\ Blocks(mem) /\ EndToEnd(mem) /\ UsedDue /\ PairsDue
    BY DEF HInv, Due, OneCaller, TypeOK, Tiled, Blocks
  <1>1. mem' = mem /\ held' = held
    BY DEF FreeElsewhere, Walk, Find, NotFound, Merged
  <1>2. CASE FreeElsewhere(c)
    <2>1. pc[c] = "idle" /\ pc'[c] = "find" /\ req'[c] = Arena /\ seen'[c] = 0
      BY <1>0, <1>2 DEF FreeElsewhere, Walk, TypeOK, CallDue
    <2>2. Arena \notin DOMAIN mem
      BY <1>0, HeapAssumption DEF Blocks, Addr
    <2>3. CallDue(c)'
      BY <2>1, <2>2, <1>1 DEF CallDue
    <2>4. \A a \in DOMAIN mem : mem[a].used /\ InHand(a) => InHand(a)'
      BY <1>0, <1>1, <2>1 DEF InHand
    <2>5. \A a \in DOMAIN mem : FreePair(a) /\ Excused(a) => Excused(a)'
      BY <1>0, <2>1 DEF Excused
    <2> QED BY <1>1, <2>3, <2>4, <2>5, Undisturbed
  <1>3. CASE Find(c)
    <2> DEFINE b == curr[c]
    <2>1. pc[c] = "find" /\ b \in DOMAIN mem /\ Block(b) = mem[b] /\ b # None
          /\ seen[c] = 0 /\ seen' = seen /\ req' = req
      BY <1>0, <1>3 DEF Find, CallOK, Block, CallDue
    <2>2. \A a \in DOMAIN mem : FreePair(a) /\ Excused(a) => Excused(a)'
      BY <1>0, <2>1 DEF Excused
    <2>3. CASE b = req[c]
      <3>1. pc'[c] = "merge" /\ found'[c] = b
        BY <1>0, <1>3, <2>3 DEF Find, TypeOK
      <3>2. mem[b].used /\ mem[b].size > 0
        BY <1>0, <2>1, <2>3 DEF CallDue, UsedDue
      <3>3. mem[b].size # 0
        BY <3>2
      <3>4. CallDue(c)'
        BY <3>1, <3>3, <2>1, <1>1 DEF CallDue
      <3>5. \A a \in DOMAIN mem : mem[a].used /\ InHand(a) => InHand(a)'
        BY <1>0, <1>1, <2>1, <2>3, <3>1 DEF InHand
      <3> QED BY <1>1, <2>2, <3>4, <3>5, Undisturbed
    <2>4. CASE b # req[c]
      <3>1. pc'[c] = "find" /\ curr'[c] = mem[b].next
        BY <1>0, <1>3, <2>1, <2>4 DEF Find, TypeOK
      <3>2. CallDue(c)'
        BY <1>0, <3>1, <2>1, <1>1 DEF CallDue
      <3>3. \A a \in DOMAIN mem : b < a => mem[b].next # None /\ mem[b].next <= a
        <4> SUFFICES ASSUME NEW a \in DOMAIN mem, b < a
                     PROVE  mem[b].next # None /\ mem[b].next <= a
          OBVIOUS
        <4>1. a \in Nat /\ a < Arena
          BY <1>0, HeapAssumption DEF Blocks, Addr
        <4>2. b + Hdr + mem[b].size <= a
          BY <1>0, <2>1 DEF EndToEnd
        <4>3. mem[b].next # None
          BY <1>0, <2>1, <4>1, <4>2, HeapAssumption DEF EndToEnd
        <4> QED BY <1>0, <2>1, <4>2, <4>3 DEF EndToEnd
      <3>4. \A a \in DOMAIN mem : mem[a].used /\ InHand(a) => InHand(a)'
        <4> SUFFICES ASSUME NEW a \in DOMAIN mem, InHand(a) PROVE InHand(a)'
          OBVIOUS
        <4>1. CASE \E p \in held : p.addr = a
          BY <4>1, <1>1 DEF InHand
        <4>2. CASE req[c] = a /\ b <= a
          <5>1. a \in Nat /\ b \in Nat /\ a # b
            BY <4>2, <2>1, <2>4, <1>0 DEF Blocks, Addr
          <5>2. mem[b].next # None /\ mem[b].next <= a
            BY <5>1, <4>2, <3>3
          <5> QED BY <5>2, <4>2, <3>1, <2>1 DEF InHand
        <4> QED BY <4>1, <4>2, <1>0, <2>1 DEF InHand
      <3> QED BY <1>1, <2>2, <3>2, <3>4, Undisturbed
    <2> QED BY <2>3, <2>4
  <1>4. CASE NotFound(c)
    <2>1. pc[c] = "find" /\ curr[c] = None /\ pc'[c] = "idle" /\ seen'[c] = 0
      BY <1>0, <1>4 DEF NotFound, Return, TypeOK
    <2>2. CallDue(c)'
      BY <2>1 DEF CallDue
    <2>3. \A a \in DOMAIN mem : mem[a].used /\ InHand(a) => InHand(a)'
      BY <1>0, <1>1, <2>1 DEF InHand
    <2>4. \A a \in DOMAIN mem : FreePair(a) /\ Excused(a) => Excused(a)'
      BY <1>0, <2>1 DEF Excused
    <2> QED BY <1>1, <2>2, <2>3, <2>4, Undisturbed
  <1>5. CASE Merged(c)
    <2> DEFINE b == found[c]
    <2>1. pc[c] = "merge" /\ pc'[c] = "idle" /\ seen'[c] = 0
          /\ b \in DOMAIN mem /\ Block(b) = mem[b] /\ seen[c] = mem[b].size
      BY <1>0, <1>5 DEF Merged, Return, TypeOK, CallOK, Block
    <2>2. Grown(b)
      BY <1>0, <2>1 DEF CallDue
    <2>3. CallDue(c)'
      BY <2>1 DEF CallDue
    <2>4. \A a \in DOMAIN mem : mem[a].used /\ InHand(a) => InHand(a)'
      BY <1>0, <1>1, <2>1, <2>2 DEF InHand, Grown
    <2>5. \A a \in DOMAIN mem : FreePair(a) => mem[a].next \in DOMAIN mem /\ mem[mem[a].next].priv = a
      BY <1>0 DEF FreePair, EndToEnd
    <2>6. \A a \in DOMAIN mem : FreePair(a) => a # b /\ mem[a].next # b
      <3> SUFFICES ASSUME NEW a \in DOMAIN mem, FreePair(a) PROVE a # b /\ mem[a].next # b
        OBVIOUS
      <3>1. a # b
        BY <2>2 DEF Grown, FreePair
      <3>2. ASSUME mem[a].next = b PROVE FALSE
        <4>1. mem[b].priv = a /\ a # None
          BY <3>2, <2>5, <1>0, HeapAssumption DEF Blocks, Addr
        <4> QED BY <4>1, <2>2 DEF Grown, FreePair
      <3> QED BY <3>1, <3>2
    <2>7. \A a \in DOMAIN mem : FreePair(a) /\ Excused(a) => Excused(a)'
      BY <2>1, <2>6, <1>0 DEF Excused
    <2> QED BY <1>1, <2>3, <2>4, <2>7, Undisturbed
  <1> QED BY <1>2, <1>3, <1>4, <1>5

(* The rest split off is the only free neighbour of a free block, until the
   block is marked. *)
LEMMA SplitDue ==
    ASSUME HInv, Due, OneCaller, NEW c \in Callers, Split(c)
    PROVE  Due'
  <1> DEFINE b == found[c]
             k == req[c]
             w == b + Hdr + k
  <1>0. /\ TypeOK /\ Tiled /\ CallOK(c) /\ CallDue(c) /\ \A d \in Callers : d = c
        /\ Blocks(mem) /\ EndToEnd(mem) /\ UsedDue /\ PairsDue
    BY DEF HInv, Due, OneCaller, TypeOK, Tiled, Blocks
  <1>1. /\ pc[c] = "search" /\ b \in DOMAIN mem /\ ~mem[b].used /\ Block(b) = mem[b]
        /\ k \in Nat /\ mem[b].size \in Nat /\ b \in Nat /\ seen[c] = 0
    BY <1>0 DEF CallOK, Split, TypeOK, Block, Header, CallDue, Addr
  <1>2. /\ pc'[c] = "mark" /\ seen'[c] = 0 /\ found' = found /\ held' = held
    BY <1>0, <1>1 DEF Split, TypeOK
  <1>3. CallDue(c)'
    BY <1>2 DEF CallDue
  <1>4. \A a \in DOMAIN mem : mem[a].used => mem[a].size > 0 /\ \E p \in held : p.addr = a
    BY <1>0, <1>1 DEF UsedDue, InHand
  <1>5. \A a \in DOMAIN mem : ~FreePair(a)
    BY <1>0, <1>1 DEF PairsDue, Excused
  <1>6. CASE UNCHANGED mem
    <2>1. UsedDue'
      BY <1>2, <1>4, <1>6 DEF UsedDue, InHand
    <2>2. PairsDue'
      BY <1>5, <1>6 DEF PairsDue, FreePair
    <2> QED BY <2>1, <2>2, <1>0, <1>3 DEF Due
  <1>7. CASE mem[b].size >= k + Hdr /\ Incise(b, k)
    <2>1. Cut(mem, mem', b, k)
      BY <1>0, <1>1, <1>7, InciseCuts
    <2>2. /\ DOMAIN mem' = DOMAIN mem \cup {w}
          /\ ~mem'[b].used /\ mem'[b].next = w
          /\ ~mem'[w].used /\ mem'[w].next = mem[b].next
          /\ \A a \in DOMAIN mem \ {b} :
                mem'[a].size = mem[a].size /\ mem'[a].next = mem[a].next /\ mem'[a].used = mem[a].used
      BY <2>1, <1>1 DEF Cut
    <2>3. UsedDue'
      BY <2>2, <1>2, <1>4 DEF UsedDue, InHand
    <2>4. ASSUME NEW a \in DOMAIN mem', FreePair(a)' PROVE a = b
      <3>1. CASE a = w
        <4>1. mem[b].next # None /\ ~mem'[mem[b].next].used
          BY <3>1, <2>2, <2>4 DEF FreePair
        <4>2. mem[b].next \in DOMAIN mem \ {b}
          BY <4>1, <1>0, <1>1, EndInArena DEF EndToEnd
        <4>3. FreePair(b)
          BY <4>1, <4>2, <2>2, <1>1 DEF FreePair
        <4> QED BY <4>3, <1>1, <1>5
      <3>2. CASE a # w /\ a # b
        <4>1. a \in DOMAIN mem /\ ~mem[a].used /\ mem[a].next # None /\ ~mem'[mem[a].next].used
          BY <3>2, <2>2, <2>4 DEF FreePair
        <4>2. mem[a].next \in DOMAIN mem
          BY <4>1, <1>0 DEF EndToEnd
        <4>3. ~mem[mem[a].next].used
          BY <4>1, <4>2, <2>2, <1>1
        <4> QED BY <4>1, <4>3, <1>5 DEF FreePair
      <3> QED BY <3>1, <3>2
    <2>5. PairsDue'
      BY <2>4, <1>2 DEF PairsDue, Excused
    <2> QED BY <2>3, <2>5, <1>0, <1>3 DEF Due
  <1>8. Block(b).size >= k + Hdr + Margin(c) => mem[b].size >= k + Hdr
    BY <1>1, HeapAssumption DEF Margin
  <1> QED BY <1>1, <1>6, <1>7, <1>8 DEF Split

(* Marking the block ends that: it is in use and held, and as large as was
   asked for. *)
LEMMA MarkDue ==
    ASSUME HInv, Due, OneCaller, NEW c \in Callers, Mark(c)
    PROVE  Due'
  <1> DEFINE b == found[c]
             new == [addr |-> b, size |-> req[c], by |-> c]
  <1>0. /\ TypeOK /\ CallOK(c) /\ CallDue(c) /\ \A d \in Callers : d = c
        /\ Blocks(mem) /\ EndToEnd(mem) /\ UsedDue /\ PairsDue
    BY DEF HInv, Due, OneCaller, TypeOK, Tiled, Blocks
  <1>1. /\ pc[c] = "mark" /\ b \in DOMAIN mem /\ mem[b].size >= req[c]
        /\ req[c] \in Nat \ {0} /\ Block(b) = mem[b] /\ mem[b] \in Header
    BY <1>0, HeapAssumption DEF CallOK, Mark, Block, TypeOK
  <1>2. pc'[c] = "idle" /\ seen'[c] = 0 /\ held' = held \cup {new}
    BY <1>0 DEF Mark, Return, TypeOK
  <1>3. CallDue(c)'
    BY <1>2 DEF CallDue
  <1>4. /\ DOMAIN mem' = DOMAIN mem /\ mem'[b] = [mem[b] EXCEPT !.used = TRUE]
        /\ \A a \in DOMAIN mem \ {b} : mem'[a] = mem[a]
    BY <1>1 DEF Mark
  <1>5. mem'[b].used /\ mem'[b].size = mem[b].size
    BY <1>1, <1>4 DEF Header
  <1>6. UsedDue'
    <2> SUFFICES ASSUME NEW a \in DOMAIN mem', mem'[a].used
                 PROVE  mem'[a].size > 0 /\ \E p \in held' : p.addr = a
      BY DEF UsedDue, InHand
    <2>1. CASE a = b
      <3>1. mem'[a].size > 0
        BY <2>1, <1>1, <1>5 DEF Header
      <3>2. new \in held' /\ new.addr = a
        BY <2>1, <1>2
      <3> QED BY <3>1, <3>2
    <2>2. CASE a # b
      <3>1. mem[a].size > 0 /\ InHand(a) /\ mem'[a] = mem[a]
        BY <2>2, <1>0, <1>4 DEF UsedDue
      <3>2. \E p \in held : p.addr = a
        BY <3>1, <1>0, <1>1 DEF InHand
      <3> QED BY <3>1, <3>2, <1>2
    <2> QED BY <2>1, <2>2
  <1>7. PairsDue'
    <2> SUFFICES ASSUME NEW a \in DOMAIN mem', FreePair(a)' PROVE FALSE
      BY DEF PairsDue
    <2>1. a # b /\ mem'[a] = mem[a] /\ a \in DOMAIN mem
      BY <1>4, <1>5 DEF FreePair
    <2>2. ~mem[a].used /\ mem[a].next # None /\ ~mem'[mem[a].next].used
      BY <2>1 DEF FreePair
    <2>3. mem[a].next \in DOMAIN mem \ {b}
      BY <2>1, <2>2, <1>0, <1>5 DEF EndToEnd
    <2>4. FreePair(a)
      BY <2>2, <2>3, <1>4 DEF FreePair
    <2> QED BY <2>1, <2>4, <1>0, <1>1 DEF PairsDue, Excused
  <1> QED BY <1>0, <1>3, <1>6, <1>7 DEF Due

(* Memory given back is in use until the walk from the first block finds it. *)
LEMMA FreeDue ==
    ASSUME HInv, Due, OneCaller, NEW c \in Callers, Free(c)
    PROVE  Due'
  <1>0. /\ TypeOK /\ HeldOK /\ CallDue(c) /\ \A d \in Callers : d = c
        /\ Blocks(mem) /\ UsedDue /\ PairsDue
    BY DEF HInv, Due, OneCaller, TypeOK, Blocks
  <1>1. PICK p \in held : Walk(c, p.addr) /\ held' = held \ {p}
    BY DEF Free
  <1>2. /\ mem' = mem /\ pc[c] = "idle" /\ pc'[c] = "find" /\ req'[c] = p.addr
        /\ curr'[c] = 0 /\ seen'[c] = 0
    BY <1>0, <1>1 DEF Walk, TypeOK, CallDue
  <1>3. CallDue(c)'
    BY <1>0, <1>2 DEF CallDue, HeldOK
  <1>4. UsedDue'
    <2> SUFFICES ASSUME NEW a \in DOMAIN mem, mem[a].used PROVE mem[a].size > 0 /\ InHand(a)'
      BY <1>2 DEF UsedDue
    <2>1. mem[a].size > 0 /\ \E q \in held : q.addr = a
      BY <1>0, <1>2 DEF UsedDue, InHand
    <2>2. CASE a = p.addr
      <3>1. 0 <= a /\ 0 # None
        BY <1>0, HeapAssumption DEF Blocks, Addr
      <3> QED BY <2>1, <2>2, <3>1, <1>2 DEF InHand
    <2>3. CASE a # p.addr
      BY <2>1, <2>3, <1>1 DEF InHand
    <2> QED BY <2>2, <2>3
  <1>5. PairsDue'
    BY <1>0, <1>2 DEF PairsDue, FreePair, Excused
  <1> QED BY <1>0, <1>3, <1>4, <1>5 DEF Due

(* A round of free_memory settles what is left: while a neighbour is free the
   block grows, and its size tells so. *)
LEMMA MergeDue ==
    ASSUME HInv, Due, OneCaller, NEW c \in Callers, Merge(c)
    PROVE  Due'
  <1> DEFINE b == found[c]
             prev == mem[b].priv
             nxt == mem[b].next
  <1>0. /\ TypeOK /\ CallOK(c) /\ CallDue(c) /\ \A d \in Callers : d = c
        /\ Blocks(mem) /\ EndToEnd(mem) /\ UsedDue /\ PairsDue
    BY DEF HInv, Due, OneCaller, TypeOK, Tiled, Blocks
  <1>1. /\ pc[c] = "merge" /\ pc' = pc /\ held' = held
        /\ b \in DOMAIN mem /\ Block(b) = mem[b] /\ mem[b] \in Header
        /\ seen'[c] = mem[b].size
    BY <1>0 DEF CallOK, Merge, Block, Blocks, TypeOK
  <1>2. /\ prev # None => prev \in DOMAIN mem /\ mem[prev].next = b /\ Block(prev) = mem[prev]
        /\ nxt # None => nxt \in DOMAIN mem /\ mem[nxt].priv = b /\ Block(nxt) = mem[nxt]
    BY <1>0, <1>1 DEF EndToEnd, Block
  <1>3. \A a \in DOMAIN mem : mem[a].used =>
           mem[a].size > 0 /\ (a = b \/ \E p \in held : p.addr = a)
    BY <1>0, <1>1 DEF UsedDue, InHand
  <1>4. \A a \in DOMAIN mem : FreePair(a) => a = b \/ mem[a].next = b
    BY <1>0, <1>1 DEF PairsDue, Excused
  <1>5. ASSUME NEW a \in DOMAIN mem, NEW d \in DOMAIN mem, mem[a].next = d, Absorb(a, d),
               b = a \/ b = d,
               found' = [found EXCEPT ![c] = a]
        PROVE  Due'
    <2>1. Joined(mem, mem', a, d) /\ mem'[a].used = FALSE
      BY <1>0, <1>5, AbsorbJoins
    <2>2. found'[c] = a
      BY <1>0, <1>5 DEF TypeOK
    <2>3. /\ DOMAIN mem' = DOMAIN mem \ {d}
          /\ mem'[a].size = mem[a].size + Hdr + mem[d].size
          /\ mem'[a].next = mem[d].next
          /\ \A x \in DOMAIN mem \ {a, d} :
                mem'[x].size = mem[x].size /\ mem'[x].next = mem[x].next /\ mem'[x].used = mem[x].used
      BY <2>1 DEF Joined
    <2>4. mem[a].size \in Nat /\ mem[d].size \in Nat /\ Hdr \in Nat \ {0}
      BY <1>0, HeapAssumption DEF Blocks, Header
    <2>5. seen'[c] # mem'[a].size
      BY <2>3, <2>4, <1>1, <1>5
    <2>6. CallDue(c)'
      BY <2>2, <2>5, <1>1 DEF CallDue
    <2>7. UsedDue'
      <3> SUFFICES ASSUME NEW x \in DOMAIN mem', mem'[x].used
                   PROVE  mem'[x].size > 0 /\ \E p \in held' : p.addr = x
        BY DEF UsedDue, InHand
      <3>1. x \in DOMAIN mem \ {a, d}
        BY <2>1, <2>3
      <3> QED BY <3>1, <2>3, <1>1, <1>3, <1>5
    <2>8. PairsDue'
      <3> SUFFICES ASSUME NEW x \in DOMAIN mem', FreePair(x)', x # a, mem'[x].next # a
                   PROVE  FALSE
        BY <2>2, <1>1 DEF PairsDue, Excused
      <3>1. x \in DOMAIN mem \ {a, d} /\ ~mem[x].used /\ mem[x].next # None /\ mem[x].next # a
            /\ ~mem'[mem[x].next].used
        BY <2>3 DEF FreePair
      <3>2. mem[x].next \in DOMAIN mem /\ mem[mem[x].next].priv = x
        BY <3>1, <1>0 DEF EndToEnd
      <3>3. mem[d].priv = a
        <4>1. mem[a].next # None
          BY <1>0, <1>5, HeapAssumption DEF Blocks, Addr
        <4> QED BY <4>1, <1>0, <1>5 DEF EndToEnd
      <3>4. mem[x].next # d
        BY <3>1, <3>2, <3>3
      <3>5. FreePair(x)
        BY <3>1, <3>2, <3>4, <2>3 DEF FreePair
      <3> QED BY <3>1, <3>4, <3>5, <1>4, <1>5
    <2> QED BY <2>6, <2>7, <2>8, <1>0 DEF Due
  <1>6. CASE IsFree(prev) /\ Absorb(prev, b) /\ found' = [found EXCEPT ![c] = prev]
    <2>1. prev \in DOMAIN mem /\ mem[prev].next = b
      BY <1>2, <1>6 DEF IsFree
    <2> HIDE DEF b, prev
    <2> QED BY <2>1, <1>1, <1>5, <1>6
  <1>7. CASE IsFree(nxt) /\ Absorb(b, nxt) /\ UNCHANGED found
    <2>1. found' = [found EXCEPT ![c] = b]
      BY <1>0, <1>7 DEF TypeOK
    <2>2. nxt \in DOMAIN mem /\ mem[b].next = nxt
      BY <1>2, <1>7 DEF IsFree
    <2> HIDE DEF b, nxt
    <2> QED BY <2>1, <2>2, <1>1, <1>5, <1>7
  <1>8. CASE ~IsFree(prev) /\ ~IsFree(nxt) /\ Release(b) /\ UNCHANGED found
    <2>1. /\ DOMAIN mem' = DOMAIN mem /\ mem'[b] = [mem[b] EXCEPT !.used = FALSE]
          /\ \A a \in DOMAIN mem \ {b} : mem'[a] = mem[a]
      BY <1>1, <1>8 DEF Release
    <2>2. /\ ~mem'[b].used /\ mem'[b].size = mem[b].size
          /\ mem'[b].next = nxt /\ mem'[b].priv = prev
      BY <2>1, <1>1 DEF Header
    <2>3. /\ prev # None => mem[prev].used /\ prev \in DOMAIN mem \ {b}
          /\ nxt # None => mem[nxt].used /\ nxt \in DOMAIN mem \ {b}
      <3>1. prev # b /\ nxt # b
        BY <1>0, <1>1, <1>2, EndInArena, HeapAssumption
      <3> QED BY <3>1, <1>2, <1>8 DEF IsFree
    <2>4. Grown(b)'
      BY <2>1, <2>2, <2>3, <1>8 DEF Grown
    <2>5. CallDue(c)'
      BY <2>4, <1>1, <1>8 DEF CallDue
    <2>6. UsedDue'
      BY <2>1, <2>2, <1>1, <1>3 DEF UsedDue, InHand
    <2>7. PairsDue'
      <3> SUFFICES ASSUME NEW a \in DOMAIN mem', FreePair(a)' , a # b, mem'[a].next # b
                   PROVE  FALSE
        BY <1>1, <1>8 DEF PairsDue, Excused
      <3>1. a \in DOMAIN mem /\ mem'[a] = mem[a]
        BY <2>1
      <3>2. mem[a].next # None /\ mem[a].next # b /\ ~mem[a].used
        BY <3>1 DEF FreePair
      <3>3. mem[a].next \in DOMAIN mem \ {b}
        BY <3>1, <3>2, <1>0 DEF EndToEnd
      <3>4. FreePair(a)
        BY <3>1, <3>2, <3>3, <2>1 DEF FreePair
      <3> QED BY <3>1, <3>2, <3>4, <1>4
    <2> QED BY <2>5, <2>6, <2>7, <1>0 DEF Due
  <1> QED BY <1>1, <1>6, <1>7, <1>8 DEF Merge

(* Every step keeps the account of what is left to do.                     *)
LEMMA DueStep == ASSUME HInv, Due, OneCaller, [Next]_vars PROVE Due'
  <1>1. ASSUME NEW c \in Callers, Work(c) \/ Call(c) PROVE Due'
    BY <1>1, SearchDue, FindDue, SplitDue, MarkDue, FreeDue, MergeDue DEF Work, Call
  <1>2. CASE UNCHANGED vars
    <2>1. UsedDue'
      BY <1>2 DEF vars, callvars, Due, UsedDue, InHand
    <2>2. PairsDue'
      BY <1>2 DEF vars, callvars, Due, PairsDue, FreePair, Excused
    <2>3. \A c \in Callers : CallDue(c)'
      BY <1>2 DEF vars, callvars, Due, CallDue, BestSoFar, Grown
    <2> QED BY <2>1, <2>2, <2>3 DEF Due
  <1> QED BY <1>1, <1>2 DEF Next

(* At every step of every call the blocks in use are held or being given back,
   and free neighbours are the ones the call at work is dealing with. *)
THEOREM HeapAccount == ASSUME OneCaller PROVE Spec => []Due
  <1>1. HInv /\ Due /\ [Next]_vars => Due'
    BY DueStep
  <1> QED BY <1>1, InitDue, HeapInvariant, PTL DEF Spec

(* Between calls the blocks in use are exactly those handed out and not given
   back, each as large as was asked for: no release is lost in the walk of
   free_haper_block or the loop of free_memory, and no block in somebody's hands
   is free. *)
THEOREM UsedBlocksHeld == ASSUME OneCaller PROVE Spec => []UsedIsHeld
  <1>1. HInv /\ Due => UsedIsHeld
    <2> SUFFICES ASSUME HInv, Due, Idle
                 PROVE  /\ {a \in DOMAIN mem : mem[a].used} = {p.addr : p \in held}
                        /\ \A p \in held : mem[p.addr].size >= p.size
      BY DEF UsedIsHeld
    <2>1. \A a \in DOMAIN mem : mem[a].used => \E p \in held : p.addr = a
      BY DEF Due, UsedDue, InHand, Idle
    <2>2. \A p \in held : p.addr \in DOMAIN mem /\ mem[p.addr].used /\ mem[p.addr].size >= p.size
      BY DEF HInv, HeldOK
    <2> QED BY <2>1, <2>2
  <1> QED BY <1>1, HeapInvariant, HeapAccount, PTL

(* Between calls no two neighbours are both free: the loop of free_memory stops
   only when it has merged all it can, and a split leaves its rest beside a block
   in use. *)
THEOREM NeighboursMerged == ASSUME OneCaller PROVE Spec => []NoFreeNeighbours
  <1>1. HInv /\ Due => NoFreeNeighbours
    <2> SUFFICES ASSUME HInv, Due, Idle, NEW a \in DOMAIN mem, ~mem[a].used,
                        IsFree(mem[a].next)
                 PROVE  FALSE
      BY DEF NoFreeNeighbours
    <2>1. mem[a].next \in DOMAIN mem
      BY DEF HInv, Tiled, EndToEnd, IsFree
    <2>2. FreePair(a)
      BY <2>1 DEF FreePair, IsFree, Block
    <2> QED BY <2>2 DEF Due, PairsDue, Excused, Idle
  <1> QED BY <1>1, HeapInvariant, HeapAccount, PTL

(* A request fails only when no free block has the room, and best_fit_alloc
   chooses a smallest one that has. *)
THEOREM SearchFindsFit == ASSUME OneCaller PROVE Spec => []FitFound
  <1>1. HInv /\ Due => FitFound
    <2> SUFFICES ASSUME HInv, Due, NEW c \in Callers, pc[c] = "search", curr[c] = None
                 PROVE  LET fits == {a \in DOMAIN mem : ~mem[a].used /\ mem[a].size >= req[c]}
                        IN  IF found[c] = None THEN fits = {}
                            ELSE /\ found[c] \in fits
                                 /\ fit[c] = "best" => \A a \in fits : mem[found[c]].size <= mem[a].size
      BY DEF FitFound
    <2>1. \A a \in DOMAIN mem : ~mem[a].used /\ mem[a].size >= req[c]
             => found[c] # None /\ (fit[c] = "best" => mem[found[c]].size <= mem[a].size)
      BY DEF Due, CallDue, BestSoFar
    <2>2. found[c] # None => found[c] \in DOMAIN mem /\ ~mem[found[c]].used
                             /\ mem[found[c]].size >= req[c]
      BY DEF HInv, CallOK
    <2> QED BY <2>1, <2>2
  <1> QED BY <1>1, HeapInvariant, HeapAccount, PTL

-----------------------------------------------------------------------------
(* The refinement.                                                         *)
Shown(p) == [addr |-> p.addr + Hdr, size |-> p.size, by |-> p.by]

(* Marking a block used is, in Allocator, taking a range disjoint from every
   range in use. *)
LEMMA MarkTakes ==
    ASSUME HInv, NEW c \in Callers, Mark(c)
    PROVE  Abstract!Take
  <1> DEFINE b == found[c]
             k == req[c]
             new == [addr |-> b, size |-> k, by |-> c]
             P == [addr |-> b + Hdr, size |-> k, by |-> c]
             shown == {[addr |-> p.addr + Hdr, size |-> p.size, by |-> p.by] : p \in held}
  <1>0. TypeOK /\ Tiled /\ HeldOK /\ CallOK(c) /\ Blocks(mem) /\ EndToEnd(mem)
    BY DEF HInv, TypeOK, Tiled, Blocks
  <1>1. /\ b \in DOMAIN mem /\ ~mem[b].used /\ mem[b].size >= k /\ k \in Sizes[fit[c]]
        /\ fit[c] \in {"best", "first"}
    BY <1>0 DEF CallOK, Mark, TypeOK
  <1>2. /\ Hdr \in Nat \ {0} /\ Arena \in Nat /\ k \in Nat \ {0}
        /\ k \in Sizes["best"] \cup Sizes["first"]
    BY <1>1, HeapAssumption
  <1>3. b \in Nat /\ mem[b].size \in Nat /\ b + Hdr + mem[b].size <= Arena
    BY <1>0, <1>1, EndInArena
  <1>4. P \in Abstract!Piece /\ P.addr + P.size <= Arena
    BY <1>1, <1>2, <1>3 DEF Abstract!Piece
  <1>5. ASSUME NEW p \in held PROVE Abstract!Apart(P, Shown(p))
    <2>1. /\ p.addr \in DOMAIN mem /\ p.addr # b /\ mem[p.addr].size >= p.size
      BY <1>0, <1>1 DEF HeldOK
    <2>2. p.addr \in Nat /\ mem[p.addr].size \in Nat
      BY <1>0, <2>1, EndInArena
    <2>3. p.size \in Nat
      BY <1>0, HeapAssumption DEF TypeOK
    <2>4. CASE b < p.addr
      <3>1. b + Hdr + mem[b].size <= p.addr
        BY <1>0, <1>1, <2>1, <2>4 DEF EndToEnd
      <3>2. (b + Hdr) + k <= p.addr + Hdr
        BY <3>1, <1>1, <1>2, <1>3, <2>2
      <3> QED BY <3>2 DEF Abstract!Apart, Shown
    <2>5. CASE p.addr < b
      <3>1. p.addr + Hdr + mem[p.addr].size <= b
        BY <1>0, <1>1, <2>1, <2>5 DEF EndToEnd
      <3>2. (p.addr + Hdr) + p.size <= b + Hdr
        BY <3>1, <2>1, <2>2, <2>3, <1>2, <1>3
      <3> QED BY <3>2 DEF Abstract!Apart, Shown
    <2> QED BY <2>1, <2>2, <2>4, <2>5, <1>3
  <1>6. \A q \in shown : Abstract!Apart(P, q)
    BY <1>5 DEF Shown
  <1>7. shown' = shown \cup {P}
    <2>1. held' = held \cup {new}
      BY DEF Mark
    <2>2. shown' = {[addr |-> p.addr + Hdr, size |-> p.size, by |-> p.by] : p \in held'}
      OBVIOUS
    <2>3. new.addr = b /\ new.size = k /\ new.by = c
      OBVIOUS
    <2>4. shown' \subseteq shown \cup {P}
      BY <2>1, <2>2, <2>3
    <2>5. shown \subseteq shown'
      BY <2>1, <2>2
    <2>6. P \in shown'
      BY <2>1, <2>2, <2>3
    <2> QED BY <2>4, <2>5, <2>6
  <1> QED BY <1>4, <1>6, <1>7 DEF Abstract!Take

(* Marking a block free is, in Allocator, giving back the range that starts at
   the released address. *)
LEMMA FreeGives ==
    ASSUME HInv, NEW c \in Callers, Free(c)
    PROVE  Abstract!Give
  <1> DEFINE shown == {[addr |-> p.addr + Hdr, size |-> p.size, by |-> p.by] : p \in held}
  <1>1. PICK p \in held : held' = held \ {p}
    BY DEF Free
  <1>2. \A q \in held : q.addr + Hdr = p.addr + Hdr => q = p
    <2>1. \A q \in held : q.addr \in Nat
      BY DEF HInv, TypeOK, Addr
    <2> QED BY <2>1, HeapAssumption DEF HInv, HeldOK
  <1>3. shown' = shown \ {Shown(p)}
    BY <1>1, <1>2 DEF Shown
  <1>4. Shown(p) \in shown
    BY DEF Shown
  <1> QED BY <1>3, <1>4 DEF Abstract!Give

(* Every step of the heap is a Take, a Give or nothing to its callers.     *)
LEMMA StepsMap == ASSUME HInv, [Next]_vars PROVE
    \/ Abstract!Take \/ Abstract!Give
    \/ {[addr |-> p.addr + Hdr, size |-> p.size, by |-> p.by] : p \in held}'
         = {[addr |-> p.addr + Hdr, size |-> p.size, by |-> p.by] : p \in held}
  <1>1. ASSUME NEW c \in Callers, Work(c) \/ Call(c), ~Mark(c), ~Free(c) PROVE held' = held
    BY <1>1 DEF Work, Call, Alloc, Search, Fail, Split, Find, NotFound, Merge, Merged, FreeElsewhere
  <1>2. CASE UNCHANGED vars
    BY <1>2 DEF vars
  <1>3. CASE Next
    <2>1. PICK c \in Callers : Work(c) \/ Call(c)
      BY <1>3 DEF Next
    <2>2. CASE Mark(c)
      BY <2>2, MarkTakes
    <2>3. CASE Free(c)
      BY <2>3, FreeGives
    <2>4. CASE ~Mark(c) /\ ~Free(c)
      BY <2>1, <2>4, <1>1
    <2> QED BY <2>2, <2>3, <2>4
  <1> QED BY <1>2, <1>3

(* For one caller inside it at a time the heap is an allocator: memory     *)
(* handed out by best_fit_alloc or first_fit_alloc lies in the arena and   *)
(* overlaps none that is still in use, whatever was released in between.   *)
THEOREM HeapIsAllocator == ASSUME OneCaller PROVE Spec => AllocatorSpec
  <1>1. Init => Abstract!Init
    BY DEF Init, Abstract!Init
  <1>2. HInv /\ [Next]_vars => [Abstract!Take \/ Abstract!Give]_({[addr |-> p.addr + Hdr, size |-> p.size, by |-> p.by] : p \in held})
    BY StepsMap
  <1> QED BY <1>1, <1>2, HeapInvariant, PTL DEF Spec, AllocatorSpec, Abstract!Spec
=============================================================================
