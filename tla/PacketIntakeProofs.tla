------------------------- MODULE PacketIntakeProofs -------------------------
(***************************************************************************)
(* Proofs about PacketIntake, for any processes, sockets, inode numbers,   *)
(* addresses and rules, and however the processes move during a scan: the  *)
(* two binary searches, whose name a packet gets, and its verdict.         *)
(***************************************************************************)
EXTENDS PacketIntake, FiniteSetTheorems, WellFoundedInduction, TLAPS

LEMMA LeastNumber ==
  ASSUME NEW T \in SUBSET Nat, T # {}
  PROVE  \E m \in T : \A k \in T : m <= k
<1> DEFINE Less == {ss \in Nat \X Nat : ss[1] < ss[2]}
<1>1. IsWellFoundedOn(Less, Nat)
  BY NatLessThanWellFounded DEF OpToRel
<1>2. \A k, m \in Nat : k < m => <<k, m>> \in Less
  OBVIOUS
<1> HIDE DEF Less
<1>3. PICK m \in T : \A k \in T : ~(<<k, m>> \in Less)
  BY <1>1, WFMin
<1>4. \A k \in T : k \in Nat
  OBVIOUS
<1>5. \A k \in T : ~(k < m)
  BY <1>2, <1>3, <1>4
<1> QED BY <1>4, <1>5

-----------------------------------------------------------------------------
(* The search by inode.                                                    *)

Entry == [sock : Socket, inode : Nat, app : Exe \cup {Null, "", "resident"}]

\* The body of FindByInode's function, for a function g in its place.
Ranges(conn) == (0..Len(conn)) \X (0..Len(conn))
SearchBody(g, conn, inode) ==
  [r \in Ranges(conn) |->
        LET lo == r[1]
            hi == r[2]
            p == (lo + hi) \div 2
            l == IF inode < conn[p + 1].inode THEN lo ELSE p
            h == IF inode < conn[p + 1].inode THEN p ELSE hi
        IN  IF conn[p + 1].inode = inode THEN p + 1
            ELSE IF h - l > 1 THEN g[<<l, h>>]
            ELSE IF l = 0 /\ h = 1 /\ conn[1].inode = inode THEN 1 ELSE 0]

SearchFn(conn, inode) == CHOOSE g : g = SearchBody(g, conn, inode)

LEMMA SearchIs ==
  ASSUME NEW conn, NEW inode
  PROVE  FindByInode(conn, inode) = IF conn = << >> THEN 0 ELSE SearchFn(conn, inode)[<<0, Len(conn)>>]
BY DEF FindByInode, SearchFn, SearchBody, Ranges

\* What the body reads of g lies in a narrower range.
LEMMA SearchNarrows ==
  ASSUME NEW conn \in Seq(Entry), NEW inode \in Nat, NEW lo \in 0..Len(conn), NEW hi \in 0..Len(conn),
         NEW f, NEW g,
         \A l, h \in 0..Len(conn) : h - l < hi - lo /\ h - l > 1 => f[<<l, h>>] = g[<<l, h>>]
  PROVE  SearchBody(f, conn, inode)[<<lo, hi>>] = SearchBody(g, conn, inode)[<<lo, hi>>]
<1> DEFINE p == (lo + hi) \div 2
           l == IF inode < conn[p + 1].inode THEN lo ELSE p
           h == IF inode < conn[p + 1].inode THEN p ELSE hi
           Value(x) == IF conn[p + 1].inode = inode THEN p + 1
                       ELSE IF h - l > 1 THEN x[<<l, h>>]
                       ELSE IF l = 0 /\ h = 1 /\ conn[1].inode = inode THEN 1 ELSE 0
<1>1. \A x : SearchBody(x, conn, inode)[<<lo, hi>>] = Value(x)
  BY DEF SearchBody, Ranges
<1>2. Len(conn) \in Nat
  OBVIOUS
<1>3. p \in 0..Len(conn) /\ (hi - lo > 1 => p > lo /\ p < hi) /\ (hi - lo <= 1 => hi - p <= 1 /\ p - lo <= 1)
  BY <1>2
<1>4. l \in 0..Len(conn) /\ h \in 0..Len(conn) /\ (h - l > 1 => h - l < hi - lo)
  BY <1>2, <1>3
<1> HIDE DEF l, h
<1>5. h - l > 1 => f[<<l, h>>] = g[<<l, h>>]
  BY <1>4
<1> QED BY <1>1, <1>5

Solves(g, conn, inode, k) ==
  \A lo, hi \in 0..Len(conn) :
    hi - lo <= k => g[<<lo, hi>>] = SearchBody(g, conn, inode)[<<lo, hi>>]

LEMMA SearchSolves ==
  ASSUME NEW conn \in Seq(Entry), NEW inode \in Nat
  PROVE  \A k \in Nat : \E g : Solves(g, conn, inode, k)
<1> DEFINE Bad == {k \in Nat : ~ \E g : Solves(g, conn, inode, k)}
<1> SUFFICES ASSUME Bad # {} PROVE FALSE
  OBVIOUS
<1>1. PICK m \in Bad : \A n \in Bad : m <= n
  BY LeastNumber
<1>2. ASSUME NEW g, \A lo, hi \in 0..Len(conn) : hi - lo < m => g[<<lo, hi>>] = SearchBody(g, conn, inode)[<<lo, hi>>]
      PROVE  Solves(SearchBody(g, conn, inode), conn, inode, m)
  <2> DEFINE f == SearchBody(g, conn, inode)
  <2> SUFFICES ASSUME NEW lo \in 0..Len(conn), NEW hi \in 0..Len(conn), hi - lo <= m
               PROVE  f[<<lo, hi>>] = SearchBody(f, conn, inode)[<<lo, hi>>]
    BY DEF Solves
  <2>1. \A l, h \in 0..Len(conn) : h - l < hi - lo /\ h - l > 1 => g[<<l, h>>] = f[<<l, h>>]
    BY <1>1, <1>2
  <2> HIDE DEF f
  <2>2. SearchBody(g, conn, inode)[<<lo, hi>>] = SearchBody(f, conn, inode)[<<lo, hi>>]
    BY <2>1, SearchNarrows
  <2> QED BY <2>2 DEF f
<1>3. CASE m = 0
  <2>1. \A lo, hi \in 0..Len(conn) : hi - lo < 0 =>
          SearchBody([r \in {} |-> 0], conn, inode)[<<lo, hi>>]
            = SearchBody(SearchBody([r \in {} |-> 0], conn, inode), conn, inode)[<<lo, hi>>]
    <3> TAKE lo, hi \in 0..Len(conn)
    <3> HAVE hi - lo < 0
    <3> DEFINE e == [r \in {} |-> 0]
               b == SearchBody(e, conn, inode)
    <3>1. \A l, h \in 0..Len(conn) : h - l < hi - lo /\ h - l > 1 => e[<<l, h>>] = b[<<l, h>>]
      OBVIOUS
    <3> HIDE DEF e, b
    <3>2. SearchBody(e, conn, inode)[<<lo, hi>>] = SearchBody(b, conn, inode)[<<lo, hi>>]
      BY <3>1, SearchNarrows
    <3> QED BY <3>2 DEF b, e
  <2>2. \E g : Solves(g, conn, inode, m)
    BY <2>1, <1>2, <1>3, Zenon
  <2> QED BY <2>2
<1>4. CASE m # 0
  <2>1. m - 1 \in Nat /\ m - 1 \notin Bad
    BY <1>1, <1>4
  <2>2. PICK g : Solves(g, conn, inode, m - 1)
    BY <2>1
  <2>3. \A lo, hi \in 0..Len(conn) : hi - lo < m => g[<<lo, hi>>] = SearchBody(g, conn, inode)[<<lo, hi>>]
    BY <2>2, <1>1 DEF Solves
  <2>4. Solves(SearchBody(g, conn, inode), conn, inode, m)
    BY <2>3, <1>2
  <2> QED BY <2>4
<1> QED BY <1>3, <1>4

\* The function of the search exists, and computes what its body says.
LEMMA SearchEquation ==
  ASSUME NEW conn \in Seq(Entry), NEW inode \in Nat
  PROVE  SearchFn(conn, inode) = SearchBody(SearchFn(conn, inode), conn, inode)
<1>1. PICK g : Solves(g, conn, inode, Len(conn))
  BY SearchSolves
<1> DEFINE f == SearchBody(g, conn, inode)
<1>2. \A lo, hi \in 0..Len(conn) : f[<<lo, hi>>] = SearchBody(f, conn, inode)[<<lo, hi>>]
  <2> TAKE lo, hi \in 0..Len(conn)
  <2>1. \A l, h \in 0..Len(conn) : h - l < hi - lo /\ h - l > 1 => g[<<l, h>>] = f[<<l, h>>]
    BY <1>1 DEF Solves
  <2> HIDE DEF f
  <2>2. SearchBody(g, conn, inode)[<<lo, hi>>] = SearchBody(f, conn, inode)[<<lo, hi>>]
    BY <2>1, SearchNarrows
  <2> QED BY <2>2 DEF f
<1>3. f = SearchBody(f, conn, inode)
  <2>1. \A r \in Ranges(conn) : f[r] = SearchBody(f, conn, inode)[r]
    BY <1>2 DEF Ranges
  <2>2. \A x : SearchBody(x, conn, inode) = [r \in Ranges(conn) |-> SearchBody(x, conn, inode)[r]]
    BY DEF SearchBody
  <2> QED BY <2>1, <2>2
<1> QED BY <1>3, Zenon DEF SearchFn

\* What is found has the inode.
LEMMA FoundHasInode ==
  ASSUME NEW conn \in Seq(Entry), NEW inode \in Nat, FindByInode(conn, inode) # 0
  PROVE  /\ FindByInode(conn, inode) \in 1..Len(conn)
         /\ conn[FindByInode(conn, inode)].inode = inode
<1> DEFINE S == SearchFn(conn, inode)
           Sound(x) == x = 0 \/ (x \in 1..Len(conn) /\ conn[x].inode = inode)
           Bad == {k \in Nat : \E lo, hi \in 0..Len(conn) : lo < hi /\ hi - lo = k /\ ~Sound(S[<<lo, hi>>])}
<1>1. Bad = {}
  <2> SUFFICES ASSUME Bad # {} PROVE FALSE
    OBVIOUS
  <2>1. PICK m \in Bad : \A n \in Bad : m <= n
    BY LeastNumber
  <2>2. PICK lo, hi \in 0..Len(conn) : lo < hi /\ hi - lo = m /\ ~Sound(S[<<lo, hi>>])
    BY <2>1
  <2>3. \A l, h \in 0..Len(conn) : l < h /\ h - l < m => Sound(S[<<l, h>>])
    <3> HIDE DEF S
    <3> SUFFICES ASSUME NEW l \in 0..Len(conn), NEW h \in 0..Len(conn), l < h, h - l < m, ~Sound(S[<<l, h>>])
                 PROVE  FALSE
      BY Zenon
    <3>1. Len(conn) \in Nat
      OBVIOUS
    <3>2. h - l \in Nat /\ m \in Nat
      BY <3>1, <2>1
    <3> HIDE DEF Sound
    <3>3. h - l \in Bad
      <4>1. \E x, y \in 0..Len(conn) : x < y /\ y - x = h - l /\ ~Sound(S[<<x, y>>])
        <5> WITNESS l \in 0..Len(conn), h \in 0..Len(conn)
        <5> QED OBVIOUS
      <4> QED BY <3>2, <4>1, Zenon
    <3> HIDE DEF Bad
    <3> QED BY <2>1, <3>2, <3>3
  <2> DEFINE p == (lo + hi) \div 2
             l == IF inode < conn[p + 1].inode THEN lo ELSE p
             h == IF inode < conn[p + 1].inode THEN p ELSE hi
  <2>4. S[<<lo, hi>>] = IF conn[p + 1].inode = inode THEN p + 1
                        ELSE IF h - l > 1 THEN S[<<l, h>>]
                        ELSE IF l = 0 /\ h = 1 /\ conn[1].inode = inode THEN 1 ELSE 0
    <3>1. S = SearchBody(S, conn, inode)
      BY SearchEquation
    <3> HIDE DEF S
    <3>2. SearchBody(S, conn, inode)[<<lo, hi>>] =
            IF conn[p + 1].inode = inode THEN p + 1
            ELSE IF h - l > 1 THEN S[<<l, h>>]
            ELSE IF l = 0 /\ h = 1 /\ conn[1].inode = inode THEN 1 ELSE 0
      BY DEF SearchBody, Ranges
    <3> QED BY <3>1, <3>2
  <2> HIDE DEF S
  <2>5. Len(conn) \in Nat /\ p \in 0..Len(conn) /\ p >= lo /\ p < hi /\ (hi - lo > 1 => p > lo)
    BY <2>2
  <2>6. l \in 0..Len(conn) /\ h \in 0..Len(conn) /\ (h - l > 1 => h - l < m)
    BY <2>2, <2>5
  <2>7. h - l > 1 => Sound(S[<<l, h>>])
    BY <2>3, <2>6
  <2> HIDE DEF l, h
  <2>8. conn[p + 1].inode = inode => Sound(p + 1)
    BY <2>5
  <2>9. l = 0 /\ h = 1 /\ conn[1].inode = inode => Sound(1)
    BY <2>5
  <2> HIDE DEF p, Bad
  <2>10. Sound(S[<<lo, hi>>])
    <3> HIDE DEF Sound
    <3>1. Sound(0)
      BY DEF Sound
    <3> QED BY <2>4, <2>7, <2>8, <2>9, <3>1
  <2> QED BY <2>2, <2>10
<1>2. conn # << >> /\ FindByInode(conn, inode) = S[<<0, Len(conn)>>]
  BY SearchIs
<1>3. Len(conn) \in Nat \ {0}
  BY <1>2
<1> HIDE DEF S
<1>4. Sound(S[<<0, Len(conn)>>])
  <2> HIDE DEF Sound
  <2> SUFFICES ASSUME ~Sound(S[<<0, Len(conn)>>]) PROVE Len(conn) \in Bad
    BY <1>1, Zenon
  <2>1. 0 \in 0..Len(conn) /\ Len(conn) \in 0..Len(conn) /\ 0 < Len(conn) /\ Len(conn) - 0 = Len(conn)
    BY <1>3
  <2>2. \E lo, hi \in 0..Len(conn) : lo < hi /\ hi - lo = Len(conn) /\ ~Sound(S[<<lo, hi>>])
    BY <2>1, Zenon
  <2> QED BY <1>3, <2>2, Zenon
<1> QED BY <1>2, <1>4

Nondecreasing(conn) == \A i, j \in 1..Len(conn) : i <= j => conn[i].inode <= conn[j].inode

\* In a table that is sorted the search misses nothing.
LEMMA SortedIsFound ==
  ASSUME NEW conn \in Seq(Entry), NEW inode \in Nat, Nondecreasing(conn),
         NEW i \in 1..Len(conn), conn[i].inode = inode
  PROVE  FindByInode(conn, inode) # 0
<1> DEFINE S == SearchFn(conn, inode)
           Has(lo, hi) == lo + 1 <= i /\ i <= hi /\ (lo = 0 \/ conn[lo + 1].inode < inode)
           Bad == {k \in Nat : \E lo, hi \in 0..Len(conn) : hi - lo = k /\ Has(lo, hi) /\ S[<<lo, hi>>] = 0}
<1>1. Bad = {}
  <2> SUFFICES ASSUME Bad # {} PROVE FALSE
    OBVIOUS
  <2>1. PICK m \in Bad : \A n \in Bad : m <= n
    BY LeastNumber
  <2>2. PICK lo, hi \in 0..Len(conn) : hi - lo = m /\ Has(lo, hi) /\ S[<<lo, hi>>] = 0
    BY <2>1
  <2>3. \A l, h \in 0..Len(conn) : h - l < m /\ Has(l, h) => S[<<l, h>>] # 0
    <3> HIDE DEF S
    <3> SUFFICES ASSUME NEW l \in 0..Len(conn), NEW h \in 0..Len(conn), h - l < m, Has(l, h), S[<<l, h>>] = 0
                 PROVE  FALSE
      BY Zenon
    <3>1. Len(conn) \in Nat
      OBVIOUS
    <3>2. h - l \in Nat /\ m \in Nat
      BY <3>1, <2>1
    <3> HIDE DEF Has
    <3>3. h - l \in Bad
      <4>1. \E x, y \in 0..Len(conn) : y - x = h - l /\ Has(x, y) /\ S[<<x, y>>] = 0
        <5> WITNESS l \in 0..Len(conn), h \in 0..Len(conn)
        <5> QED OBVIOUS
      <4> QED BY <3>2, <4>1, Zenon
    <3> HIDE DEF Bad
    <3> QED BY <2>1, <3>2, <3>3
  <2> DEFINE p == (lo + hi) \div 2
             l == IF inode < conn[p + 1].inode THEN lo ELSE p
             h == IF inode < conn[p + 1].inode THEN p ELSE hi
  <2>4. S[<<lo, hi>>] = IF conn[p + 1].inode = inode THEN p + 1
                        ELSE IF h - l > 1 THEN S[<<l, h>>]
                        ELSE IF l = 0 /\ h = 1 /\ conn[1].inode = inode THEN 1 ELSE 0
    <3>1. S = SearchBody(S, conn, inode)
      BY SearchEquation
    <3> HIDE DEF S
    <3>2. SearchBody(S, conn, inode)[<<lo, hi>>] =
            IF conn[p + 1].inode = inode THEN p + 1
            ELSE IF h - l > 1 THEN S[<<l, h>>]
            ELSE IF l = 0 /\ h = 1 /\ conn[1].inode = inode THEN 1 ELSE 0
      BY DEF SearchBody, Ranges
    <3> QED BY <3>1, <3>2
  <2> HIDE DEF S
  <2>5. Len(conn) \in Nat /\ p \in 0..Len(conn) /\ p >= lo /\ p < hi /\ (hi - lo > 1 => p > lo)
    BY SMTT(30), <2>2
  <2>6. conn[p + 1].inode # inode /\ conn[p + 1].inode \in Nat
    <3>1. p + 1 \in 1..Len(conn)
      BY SMTT(30), <2>5
    <3> HIDE DEF p, l, h
    <3>2. conn[p + 1] \in Entry
      BY <3>1
    <3>3. conn[p + 1].inode \in Nat
      BY <3>2 DEF Entry
    <3>4. S[<<lo, hi>>] = 0 /\ p + 1 # 0
      BY <2>2, <2>5
    <3> QED BY <3>3, <3>4, <2>4
  <2>7. CASE inode < conn[p + 1].inode
    <3>1. l = lo /\ h = p
      BY <2>7
    <3>2. i <= p
      <4>1. p + 1 \in 1..Len(conn)
        BY SMTT(30), <2>5
      <4>2. p + 1 <= i => conn[p + 1].inode <= conn[i].inode
        BY <4>1 DEF Nondecreasing
      <4> QED BY <4>2, <2>5, <2>6, <2>7
    <3> HIDE DEF l, h, p
    <3>3. CASE p - lo > 1
      BY SMTT(30), <3>1, <3>2, <3>3, <2>2, <2>3, <2>4, <2>5, <2>6
    <3>4. CASE p - lo <= 1
      <4>1. i = lo + 1 /\ p = lo + 1
        BY <3>2, <3>4, <2>2, <2>5
      <4>2. lo = 0
        BY <4>1, <2>2
      <4> QED BY <4>1, <4>2, <3>1, <3>4, <2>2, <2>4, <2>6
    <3> QED BY <3>3, <3>4, <2>2, <2>5
  <2>8. CASE ~(inode < conn[p + 1].inode)
    <3>1. l = p /\ h = hi
      BY <2>8
    <3>2. conn[p + 1].inode < inode
      BY <2>6, <2>8
    <3>3. i > p + 1
      BY SMTT(30), <3>2, <2>5, <2>6 DEF Nondecreasing
    <3>4. (hi - p > 1 /\ hi - p < m) \/ p = lo
      BY <3>3, <2>2, <2>5
    <3>5. p > lo
      BY <3>3, <2>2, <2>5
    <3> HIDE DEF l, h, p
    <3>6. Has(p, hi)
      BY <3>2, <3>3, <2>2, <2>5
    <3> QED BY <3>1, <3>3, <3>4, <3>5, <3>6, <2>2, <2>3, <2>4, <2>5, <2>6
  <2> QED BY <2>7, <2>8
<1>2. conn # << >> /\ Len(conn) \in Nat
  OBVIOUS
<1>3. FindByInode(conn, inode) = S[<<0, Len(conn)>>]
  BY <1>2, SearchIs
<1> HIDE DEF S
<1>4. S[<<0, Len(conn)>>] # 0
  <2>1. Has(0, Len(conn)) /\ 0 \in 0..Len(conn) /\ Len(conn) \in 0..Len(conn) /\ Len(conn) - 0 \in Nat
    BY <1>2
  <2> HIDE DEF Has
  <2> QED BY <1>1, <2>1
<1> QED BY <1>3, <1>4

-----------------------------------------------------------------------------
(* The search by number.                                                   *)

PidRanges(pids) == (0..(Len(pids) - 1)) \X (0..(Len(pids) - 1))
PidBody(g, pids, n) ==
  [r \in PidRanges(pids) |->
        LET lo == r[1]
            hi == r[2]
            i == (lo + hi) \div 2
            l == IF pids[i + 1] < n THEN i ELSE lo
            h == IF pids[i + 1] > n THEN i ELSE hi
        IN  IF pids[i + 1] = n THEN i
            ELSE IF h - l # 1 THEN g[<<l, h>>]
            ELSE IF pids[h + 1] = n THEN h
            ELSE IF pids[l + 1] = n THEN l ELSE -1]

PidFn(pids, n) == CHOOSE g : g = PidBody(g, pids, n)

LEMMA PidSearchIs ==
  ASSUME NEW pids, NEW n
  PROVE  FindPid(pids, n) = PidFn(pids, n)[<<0, Len(pids) - 1>>]
BY DEF FindPid, PidFn, PidBody, PidRanges

Width(lo, hi) == IF lo <= hi THEN hi - lo ELSE lo - hi

\* The body reads g in a narrower range, or gives what g has at this one: there
\* the code would not end.
LEMMA PidNarrows ==
  ASSUME NEW pids \in Seq(Nat), NEW n \in Nat, NEW lo \in 0..(Len(pids) - 1), NEW hi \in 0..(Len(pids) - 1),
         NEW f, NEW g, f = PidBody(g, pids, n),
         \A l, h \in 0..(Len(pids) - 1) : Width(l, h) < Width(lo, hi) => f[<<l, h>>] = g[<<l, h>>]
  PROVE  PidBody(f, pids, n)[<<lo, hi>>] = f[<<lo, hi>>]
<1> DEFINE i == (lo + hi) \div 2
           l == IF pids[i + 1] < n THEN i ELSE lo
           h == IF pids[i + 1] > n THEN i ELSE hi
           Value(x) == IF pids[i + 1] = n THEN i
                       ELSE IF h - l # 1 THEN x[<<l, h>>]
                       ELSE IF pids[h + 1] = n THEN h
                       ELSE IF pids[l + 1] = n THEN l ELSE -1
<1>1. \A x : PidBody(x, pids, n)[<<lo, hi>>] = Value(x)
  BY DEF PidBody, PidRanges
<1>2. Len(pids) \in Nat
  OBVIOUS
<1>3. i \in 0..(Len(pids) - 1) /\ (lo <= hi => lo <= i /\ i <= hi) /\ (lo > hi => hi <= i /\ i < lo)
      /\ (lo < hi => i < hi) /\ (hi - lo > 1 => i > lo)
  BY <1>2
<1>4. pids[i + 1] \in Nat
  <2>1. i + 1 \in 1..Len(pids)
    BY <1>2, <1>3
  <2> HIDE DEF i
  <2> QED BY <2>1
<1>5. CASE pids[i + 1] < n
  <2>1. l = i /\ h = hi /\ pids[i + 1] # n
    BY <1>4, <1>5
  <2> HIDE DEF i, l, h
  <2>2. l \in 0..(Len(pids) - 1) /\ h \in 0..(Len(pids) - 1)
        /\ (Width(l, h) < Width(lo, hi) \/ (l = lo /\ h = hi))
    BY <2>1, <1>2, <1>3 DEF Width
  <2>3. CASE l = lo /\ h = hi
    BY <2>3, <2>1, <1>1
  <2>4. CASE Width(l, h) < Width(lo, hi)
    <3>1. f[<<l, h>>] = g[<<l, h>>]
      BY <2>2, <2>4
    <3> QED BY <3>1, <2>1, <1>1
  <2> QED BY <2>2, <2>3, <2>4
<1>6. CASE pids[i + 1] > n
  <2>1. l = lo /\ h = i /\ pids[i + 1] # n
    BY <1>4, <1>6
  <2> HIDE DEF i, l, h
  <2>2. l \in 0..(Len(pids) - 1) /\ h \in 0..(Len(pids) - 1)
        /\ (Width(l, h) < Width(lo, hi) \/ (l = lo /\ h = hi))
    BY <2>1, <1>2, <1>3 DEF Width
  <2>3. CASE l = lo /\ h = hi
    BY <2>3, <2>1, <1>1
  <2>4. CASE Width(l, h) < Width(lo, hi)
    <3>1. f[<<l, h>>] = g[<<l, h>>]
      BY <2>2, <2>4
    <3> QED BY <3>1, <2>1, <1>1
  <2> QED BY <2>2, <2>3, <2>4
<1>7. CASE pids[i + 1] = n
  BY <1>7, <1>1
<1> QED BY <1>4, <1>5, <1>6, <1>7

PidSolves(g, pids, n, k) ==
  \A lo, hi \in 0..(Len(pids) - 1) :
    Width(lo, hi) < k => g[<<lo, hi>>] = PidBody(g, pids, n)[<<lo, hi>>]

LEMMA PidSolvesNext ==
  ASSUME NEW pids \in Seq(Nat), NEW n \in Nat, NEW k \in Nat, NEW g, PidSolves(g, pids, n, k)
  PROVE  PidSolves(PidBody(g, pids, n), pids, n, k + 1)
<1> DEFINE f == PidBody(g, pids, n)
<1> SUFFICES ASSUME NEW lo \in 0..(Len(pids) - 1), NEW hi \in 0..(Len(pids) - 1), Width(lo, hi) < k + 1
             PROVE  f[<<lo, hi>>] = PidBody(f, pids, n)[<<lo, hi>>]
  BY DEF PidSolves
<1>1. Len(pids) \in Nat
  OBVIOUS
<1>2. \A l, h \in 0..(Len(pids) - 1) : Width(l, h) < Width(lo, hi) => Width(l, h) < k
  BY <1>1 DEF Width
<1>3. \A l, h \in 0..(Len(pids) - 1) : Width(l, h) < Width(lo, hi) => f[<<l, h>>] = g[<<l, h>>]
  BY <1>2, Zenon DEF PidSolves
<1>4. f = PidBody(g, pids, n)
  OBVIOUS
<1> HIDE DEF f
<1>5. PidBody(f, pids, n)[<<lo, hi>>] = f[<<lo, hi>>]
  BY ZenonT(40), <1>3, <1>4, PidNarrows
<1> QED BY <1>5

LEMMA PidSolvesAll ==
  ASSUME NEW pids \in Seq(Nat), NEW n \in Nat
  PROVE  \A k \in Nat : \E g : PidSolves(g, pids, n, k)
<1> DEFINE Bad == {k \in Nat : ~ \E g : PidSolves(g, pids, n, k)}
<1> SUFFICES ASSUME Bad # {} PROVE FALSE
  OBVIOUS
<1>1. PICK m \in Bad : \A k \in Bad : m <= k
  BY LeastNumber
<1>2. CASE m = 0
  <2>1. PidSolves(0, pids, n, 0)
    <3>1. \A lo, hi \in 0..(Len(pids) - 1) : ~(Width(lo, hi) < 0)
      <4>1. Len(pids) \in Nat
        OBVIOUS
      <4> QED BY <4>1 DEF Width
    <3> QED BY <3>1, Zenon DEF PidSolves
  <2> QED BY <2>1, <1>2
<1>3. CASE m # 0
  <2>1. m - 1 \in Nat /\ m - 1 \notin Bad /\ (m - 1) + 1 = m
    BY <1>1, <1>3
  <2>2. PICK g : PidSolves(g, pids, n, m - 1)
    BY <2>1
  <2>3. PidSolves(PidBody(g, pids, n), pids, n, m)
    BY <2>1, <2>2, PidSolvesNext
  <2> QED BY <2>3
<1> QED BY <1>2, <1>3

LEMMA PidEquation ==
  ASSUME NEW pids \in Seq(Nat), NEW n \in Nat
  PROVE  PidFn(pids, n) = PidBody(PidFn(pids, n), pids, n)
<1>1. Len(pids) \in Nat
  OBVIOUS
<1>2. PICK g : PidSolves(g, pids, n, Len(pids))
  BY <1>1, PidSolvesAll
<1> DEFINE f == PidBody(g, pids, n)
<1>3. PidSolves(f, pids, n, Len(pids) + 1)
  BY <1>1, <1>2, PidSolvesNext
<1>4. \A lo, hi \in 0..(Len(pids) - 1) : Width(lo, hi) < Len(pids) + 1
  BY <1>1 DEF Width
<1>5. \A r \in PidRanges(pids) : f[r] = PidBody(f, pids, n)[r]
  <2> HIDE DEF f
  <2>1. \A lo, hi \in 0..(Len(pids) - 1) : f[<<lo, hi>>] = PidBody(f, pids, n)[<<lo, hi>>]
    BY <1>3, <1>4, Zenon DEF PidSolves
  <2>2. \A r \in PidRanges(pids) : \E lo, hi \in 0..(Len(pids) - 1) : r = <<lo, hi>>
    BY DEF PidRanges
  <2> QED BY <2>1, <2>2
<1>6. \A x : PidBody(x, pids, n) = [r \in PidRanges(pids) |-> PidBody(x, pids, n)[r]]
  BY DEF PidBody
<1>7. f = PidBody(f, pids, n)
  BY <1>5, <1>6
<1> QED BY <1>7, Zenon DEF PidFn

Ascending(pids) == \A i, j \in 1..Len(pids) : i < j => pids[i] < pids[j]

\* Between two processes the search finds the one that has the number, or none.
LEMMA PidSearchFinds ==
  ASSUME NEW pids \in Seq(Nat), NEW n \in Nat, Ascending(pids), Len(pids) >= 2, pids[1] <= n
  PROVE  \/ FindPid(pids, n) \in 0..(Len(pids) - 1) /\ pids[FindPid(pids, n) + 1] = n
         \/ FindPid(pids, n) = -1 /\ \A j \in 1..Len(pids) : pids[j] # n
<1> DEFINE N == 0..(Len(pids) - 1)
           S == PidFn(pids, n)
           Exact(lo, hi, x) == \/ x \in lo..hi /\ pids[x + 1] = n
                               \/ x = -1 /\ \A j \in lo..hi : pids[j + 1] # n
           Asked(lo, hi) == lo < hi /\ pids[lo + 1] <= n
           Bad == {k \in Nat : \E lo, hi \in N : Asked(lo, hi) /\ hi - lo = k /\ ~Exact(lo, hi, S[<<lo, hi>>])}
<1>1. Len(pids) \in Nat /\ (\A j \in N : j + 1 \in 1..Len(pids) /\ pids[j + 1] \in Nat)
      /\ \A i, j \in N : i < j => pids[i + 1] < pids[j + 1]
  BY DEF Ascending
<1>2. Bad = {}
  <2> SUFFICES ASSUME Bad # {} PROVE FALSE
    OBVIOUS
  <2>1. PICK m \in Bad : \A k \in Bad : m <= k
    BY LeastNumber
  <2>2. PICK lo, hi \in N : Asked(lo, hi) /\ hi - lo = m /\ ~Exact(lo, hi, S[<<lo, hi>>])
    BY <2>1
  <2>3. \A l, h \in N : Asked(l, h) /\ h - l < m => Exact(l, h, S[<<l, h>>])
    <3> HIDE DEF S, Exact
    <3> SUFFICES ASSUME NEW l \in N, NEW h \in N, Asked(l, h), h - l < m, ~Exact(l, h, S[<<l, h>>])
                 PROVE  FALSE
      BY Zenon
    <3>1. h - l \in Nat /\ m \in Nat
      BY <1>1, <2>1
    <3> HIDE DEF Asked
    <3>2. h - l \in Bad
      <4>1. \E x, y \in N : Asked(x, y) /\ y - x = h - l /\ ~Exact(x, y, S[<<x, y>>])
        <5> WITNESS l \in N, h \in N
        <5> QED OBVIOUS
      <4> QED BY <3>1, <4>1, Zenon
    <3> HIDE DEF Bad
    <3> QED BY <2>1, <3>1, <3>2
  <2> DEFINE i == (lo + hi) \div 2
             l == IF pids[i + 1] < n THEN i ELSE lo
             h == IF pids[i + 1] > n THEN i ELSE hi
  <2>4. S[<<lo, hi>>] = IF pids[i + 1] = n THEN i
                        ELSE IF h - l # 1 THEN S[<<l, h>>]
                        ELSE IF pids[h + 1] = n THEN h
                        ELSE IF pids[l + 1] = n THEN l ELSE -1
    <3>1. S = PidBody(S, pids, n)
      BY PidEquation
    <3> HIDE DEF S
    <3>2. PidBody(S, pids, n)[<<lo, hi>>] =
            IF pids[i + 1] = n THEN i
            ELSE IF h - l # 1 THEN S[<<l, h>>]
            ELSE IF pids[h + 1] = n THEN h
            ELSE IF pids[l + 1] = n THEN l ELSE -1
      BY DEF PidBody, PidRanges
    <3> QED BY <3>1, <3>2
  <2> HIDE DEF S
  <2> HIDE DEF Exact, Bad
  <2>5. lo < hi /\ hi - lo = m /\ pids[lo + 1] <= n /\ m \in Nat
    BY <2>1, <2>2
  <2>6. i \in N /\ lo <= i /\ i < hi /\ (hi - lo > 1 => lo < i)
    BY <1>1, <2>5
  <2>7. pids[i + 1] \in Nat /\ pids[lo + 1] \in Nat /\ pids[hi + 1] \in Nat
    <3> HIDE DEF i
    <3> QED BY <1>1, <2>6, Zenon
  <2>8. CASE pids[i + 1] = n
    <3>1. S[<<lo, hi>>] = i
      BY <2>4, <2>8
    <3>2. Exact(lo, hi, i)
      BY <2>5, <2>6, <2>8 DEF Exact
    <3> QED BY <3>1, <3>2, <2>2
  <2>9. CASE pids[i + 1] < n
    <3>1. l = i /\ h = hi /\ pids[i + 1] # n
      <4> HIDE DEF i
      <4> QED BY SMTT(30), <2>7, <2>9
    <3>2. S[<<lo, hi>>] = IF hi - i # 1 THEN S[<<i, hi>>] ELSE IF pids[hi + 1] = n THEN hi ELSE -1
      <4> HIDE DEF i, l, h
      <4> QED BY <3>1, <2>4
    <3> HIDE DEF i, l, h
    <3>3. \A j \in lo..i : pids[j + 1] # n
      <4> SUFFICES ASSUME NEW j \in lo..i PROVE pids[j + 1] # n
        OBVIOUS
      <4>1. j \in N /\ (j < i \/ j = i)
        BY <1>1, <2>6
      <4>2. pids[j + 1] \in Nat /\ (j < i => pids[j + 1] < pids[i + 1])
        BY <4>1, <1>1, <2>6, Zenon
      <4>3. CASE j < i
        BY SMTT(30), <4>2, <4>3, <2>7, <2>9
      <4>4. CASE j = i
        BY <4>4, <2>7, <2>9
      <4> QED BY <4>1, <4>3, <4>4
    <3>4. CASE hi - i = 1
      BY <3>2, <3>3, <3>4, <2>2, <2>5, <2>6 DEF Exact
    <3>5. CASE hi - i # 1
      <4>1. Asked(i, hi) /\ hi - i < m
        BY SMTT(30), <3>5, <2>5, <2>6, <2>7, <2>9, <1>1
      <4>2. Exact(i, hi, S[<<i, hi>>])
        <5> HIDE DEF Asked
        <5> QED BY <4>1, <2>3, <2>6
      <4> DEFINE x == S[<<i, hi>>]
      <4>3. S[<<lo, hi>>] = x
        BY <3>2, <3>5
      <4> HIDE DEF x
      <4>4. Exact(i, hi, x) => Exact(lo, hi, x)
        BY SMTT(30), <3>3, <2>6 DEF Exact
      <4> QED BY <4>2, <4>3, <4>4, <2>2 DEF x
    <3> QED BY <3>4, <3>5
  <2>10. CASE pids[i + 1] > n
    <3>1. l = lo /\ h = i /\ pids[i + 1] # n /\ pids[lo + 1] # pids[i + 1]
      <4> HIDE DEF i
      <4>1. pids[lo + 1] < pids[i + 1]
        BY SMTT(30), <2>5, <2>7, <2>10
      <4> QED BY SMTT(30), <4>1, <2>7, <2>10
    <3>2. S[<<lo, hi>>] = IF i - lo # 1 THEN S[<<lo, i>>] ELSE IF pids[lo + 1] = n THEN lo ELSE -1
      <4> HIDE DEF i, l, h
      <4> QED BY <3>1, <2>4
    <3> HIDE DEF i, l, h
    <3>3. \A j \in i..hi : pids[j + 1] # n
      <4> SUFFICES ASSUME NEW j \in i..hi PROVE pids[j + 1] # n
        OBVIOUS
      <4>1. j \in N /\ (i < j \/ j = i)
        BY <1>1, <2>6
      <4>2. pids[j + 1] \in Nat /\ (i < j => pids[i + 1] < pids[j + 1])
        BY <4>1, <1>1, <2>6, Zenon
      <4>3. CASE i < j
        BY SMTT(30), <4>2, <4>3, <2>7, <2>10
      <4>4. CASE j = i
        BY <4>4, <2>7, <2>10
      <4> QED BY <4>1, <4>3, <4>4
    <3>4. lo < i
      BY <3>1, <2>6, <1>1
    <3>5. CASE i - lo = 1
      BY SMTT(30), <3>2, <3>3, <3>5, <2>2, <2>5, <2>6 DEF Exact
    <3>6. CASE i - lo # 1
      <4>1. Asked(lo, i) /\ i - lo < m
        BY <3>4, <2>5, <2>6, <1>1
      <4>2. Exact(lo, i, S[<<lo, i>>])
        <5> HIDE DEF Asked
        <5> QED BY <4>1, <2>3, <2>6
      <4> DEFINE x == S[<<lo, i>>]
      <4>3. S[<<lo, hi>>] = x
        BY <3>2, <3>6
      <4> HIDE DEF x
      <4>4. Exact(lo, i, x) => Exact(lo, hi, x)
        BY SMTT(30), <3>3, <2>6 DEF Exact
      <4> QED BY <4>2, <4>3, <4>4, <2>2 DEF x
    <3> QED BY <3>5, <3>6
  <2> QED
    <3> HIDE DEF i
    <3> QED BY <2>7, <2>8, <2>9, <2>10
<1>3. Exact(0, Len(pids) - 1, S[<<0, Len(pids) - 1>>])
  <2>1. 0 \in N /\ Len(pids) - 1 \in N /\ Asked(0, Len(pids) - 1) /\ (Len(pids) - 1) - 0 \in Nat
    BY <1>1
  <2> HIDE DEF Asked, S, Exact, N
  <2> QED BY <1>2, <2>1
<1>4. FindPid(pids, n) = S[<<0, Len(pids) - 1>>]
  BY PidSearchIs
<1>5. \A j \in 1..Len(pids) : j - 1 \in 0..(Len(pids) - 1) /\ (j - 1) + 1 = j
  BY <1>1
<1> HIDE DEF S
<1> QED BY <1>3, <1>4, <1>5

LEMMA LeastIs ==
  ASSUME NEW T \in SUBSET Nat, T # {}
  PROVE  Min(T) \in T
<1>1. \E m \in T : \A k \in T : m <= k
  BY LeastNumber
<1> QED BY <1>1 DEF Min

LEMMA PidSearchSelects ==
  ASSUME NEW pids \in Seq(Nat), NEW n \in Nat, Ascending(pids), Len(pids) >= 2, pids[1] <= n
  PROVE  FindPid(pids, n) = SelectInSeq(pids, LAMBDA m : m = n) - 1
<1> DEFINE I == {i \in 1..Len(pids) : pids[i] = n}
<1>1. SelectInSeq(pids, LAMBDA m : m = n) = IF I # {} THEN Min(I) ELSE 0
  BY DEF SelectInSeq
<1>2. Len(pids) \in Nat
  OBVIOUS
<1>3. CASE I = {}
  <2>1. FindPid(pids, n) = -1
    <3>1. \A j \in 1..Len(pids) : pids[j] # n
      BY <1>3
    <3>2. FindPid(pids, n) \in 0..(Len(pids) - 1) => FindPid(pids, n) + 1 \in 1..Len(pids)
      BY <1>2
    <3> QED BY <3>1, <3>2, PidSearchFinds
  <2> QED BY <1>1, <1>3, <2>1
<1>4. CASE I # {}
  <2>1. Min(I) \in I
    <3>1. I \in SUBSET Nat
      OBVIOUS
    <3> HIDE DEF I
    <3> QED BY <1>4, <3>1, LeastIs
  <2>2. Min(I) \in 1..Len(pids) /\ pids[Min(I)] = n
    BY <2>1
  <2> DEFINE x == FindPid(pids, n)
             y == Min(I)
  <2>3. x \in 0..(Len(pids) - 1) /\ pids[x + 1] = n
    BY <2>2, PidSearchFinds
  <2> HIDE DEF x, y, I
  <2>4. x + 1 \in 1..Len(pids) /\ y \in 1..Len(pids) /\ pids[x + 1] = pids[y]
    BY <1>2, <2>2, <2>3 DEF y
  <2>5. ~(x + 1 < y) /\ ~(y < x + 1)
    <3>1. pids[x + 1] \in Nat /\ pids[y] \in Nat
      BY <2>4
    <3> QED BY <2>4, <3>1 DEF Ascending
  <2>6. x = y - 1
    BY <1>2, <2>3, <2>4, <2>5
  <2> QED BY <1>1, <1>4, <2>6 DEF x, y
<1> QED BY <1>3, <1>4

\* The row that the lookup takes is one of the packet's ends.
LEMMA LookupTakes ==
  ASSUME NEW conn \in Seq(Entry), NEW p
  PROVE  LET i == SelectInSeq(conn, LAMBDA row : IsOf(row, p))
         IN  \/ i = 0 /\ \A j \in 1..Len(conn) : ~IsOf(conn[j], p)
             \/ i \in 1..Len(conn) /\ IsOf(conn[i], p)
<1> DEFINE I == {i \in 1..Len(conn) : IsOf(conn[i], p)}
<1>1. SelectInSeq(conn, LAMBDA row : IsOf(row, p)) = IF I # {} THEN Min(I) ELSE 0
  BY DEF SelectInSeq
<1>2. CASE I = {}
  BY <1>1, <1>2
<1>3. CASE I # {}
  <2>1. Min(I) \in I
    <3>1. I \in SUBSET Nat
      OBVIOUS
    <3> HIDE DEF I
    <3> QED BY <1>3, <3>1, LeastIs
  <2> QED BY <1>1, <1>3, <2>1
<1> QED BY <1>2, <1>3

-----------------------------------------------------------------------------
(* The tables.                                                             *)

LEMMA SeqsAreOnto ==
  ASSUME NEW T, IsFiniteSet(T), NEW seq \in SetToSeqs(T)
  PROVE  /\ seq \in Seq(T)
         /\ \A i, j \in 1..Len(seq) : i # j => seq[i] # seq[j]
         /\ \A x \in T : \E i \in 1..Len(seq) : seq[i] = x
<1> DEFINE n == Cardinality(T)
<1>1. n \in Nat
  BY FS_CardinalityType
<1>2. seq \in [1..n -> T] /\ \A i, j \in 1..n : i # j => seq[i] # seq[j]
  BY DEF SetToSeqs
<1> HIDE DEF n
<1>3. seq \in Seq(T) /\ Len(seq) = n
  BY <1>1, <1>2
<1>4. seq \in Injection(1..n, T)
  BY <1>2 DEF Injection, IsInjective
<1>5. IsFiniteSet(1..n) /\ Cardinality(1..n) = n
  BY <1>1, FS_Interval
<1>6. seq \in Surjection(1..n, T)
  BY <1>4, <1>5, FS_Injection DEF n
<1> QED BY <1>2, <1>3, <1>6 DEF Surjection

LEMMA SmallAsInt ==
  ASSUME NEW d \in Int, d < Half, 0 - d < Half
  PROVE  AsInt(d) = d
<1>1. Half \in Nat \ {0}
  BY ConnectionsAssumption DEF ConnectionsAssumption
<1>2. \A x, m \in Nat : x < m => x % m = x
  OBVIOUS
<1>3. (d + Half) % (2 * Half) = d + Half
  BY <1>1, <1>2
<1> QED BY <1>1, <1>3 DEF AsInt

\* Neighbours are in order: the rows of one table, as the sort leaves them.
SortedPairs(conn) ==
  \A i \in 1..(Len(conn) - 1) : AsInt(conn[i].inode - conn[i + 1].inode) <= 0

\* As long as inodes can be compared, the sort by differences sorts.
LEMMA ComparableIsSorted ==
  ASSUME NEW conn \in Seq(Entry), SortedPairs(conn), Comparable(conn)
  PROVE  Nondecreasing(conn)
<1>1. Len(conn) \in Nat /\ DOMAIN conn = 1..Len(conn) /\ \A i \in 1..Len(conn) : conn[i].inode \in Nat
  <2>1. Len(conn) \in Nat /\ DOMAIN conn = 1..Len(conn) /\ \A i \in 1..Len(conn) : conn[i] \in Entry
    OBVIOUS
  <2>2. \A e \in Entry : e.inode \in Nat
    BY DEF Entry
  <2> QED BY <2>1, <2>2
<1>2. \A i \in 1..(Len(conn) - 1) : conn[i].inode <= conn[i + 1].inode
  <2> TAKE i \in 1..(Len(conn) - 1)
  <2>1. i \in 1..Len(conn) /\ i + 1 \in 1..Len(conn)
    BY <1>1
  <2> DEFINE d == conn[i].inode - conn[i + 1].inode
  <2>2. d \in Int /\ Near(conn[i].inode, conn[i + 1].inode)
    BY <1>1, <2>1 DEF Comparable
  <2>3. d < Half /\ 0 - d < Half
    <3>1. Half \in Nat
      BY ConnectionsAssumption DEF ConnectionsAssumption
    <3>2. conn[i].inode \in Nat /\ conn[i + 1].inode \in Nat
      BY <1>1, <2>1
    <3> QED BY <2>2, <3>1, <3>2 DEF Near
  <2>4. AsInt(d) <= 0
    BY DEF SortedPairs
  <2> HIDE DEF d
  <2>5. d <= 0
    BY <2>2, <2>3, <2>4, SmallAsInt
  <2> QED BY <2>5, <1>1, <2>1 DEF d
<1> DEFINE Bad == {k \in Nat : \E i, j \in 1..Len(conn) : i <= j /\ j - i = k /\ conn[i].inode > conn[j].inode}
<1>3. Bad = {}
  <2> SUFFICES ASSUME Bad # {} PROVE FALSE
    OBVIOUS
  <2>1. PICK m \in Bad : \A k \in Bad : m <= k
    BY LeastNumber
  <2>2. PICK i, j \in 1..Len(conn) : i <= j /\ j - i = m /\ conn[i].inode > conn[j].inode
    BY <2>1
  <2> HIDE DEF Bad
  <2>3. m \in Nat \ {0} /\ j - 1 \in 1..Len(conn) /\ i <= j - 1 /\ (j - 1) - i = m - 1 /\ m - 1 \in Nat
    BY <1>1, <2>1, <2>2
  <2>4. conn[j - 1].inode <= conn[j].inode
    <3>1. j - 1 \in 1..(Len(conn) - 1) /\ (j - 1) + 1 = j
      BY <1>1, <2>3
    <3> QED BY <1>2, <3>1
  <2>5. conn[i].inode > conn[j - 1].inode
    BY <1>1, <2>2, <2>3, <2>4
  <2>6. m - 1 \in Bad
    <3>1. \E x, y \in 1..Len(conn) : x <= y /\ y - x = m - 1 /\ conn[x].inode > conn[y].inode
      <4> WITNESS i \in 1..Len(conn), j - 1 \in 1..Len(conn)
      <4> QED BY <2>3, <2>5
    <3> QED BY <2>3, <3>1, Zenon DEF Bad
  <2> QED BY <2>1, <2>3, <2>6
<1> QED
  <2> SUFFICES ASSUME NEW i \in 1..Len(conn), NEW j \in 1..Len(conn), i <= j, conn[i].inode > conn[j].inode
               PROVE  FALSE
    BY <1>1 DEF Nondecreasing
  <2>1. j - i \in Nat
    BY <1>1
  <2>2. j - i \in Bad
    <3>1. \E x, y \in 1..Len(conn) : x <= y /\ y - x = j - i /\ conn[x].inode > conn[y].inode
      OBVIOUS
    <3> QED BY <2>1, <3>1, Zenon
  <2> HIDE DEF Bad
  <2> QED BY <1>3, <2>2

Name == Exe \cup {Null, "", "resident"}

TableOk(conn, socks) ==
  /\ conn \in Seq(Entry)
  /\ \A i \in 1..Len(conn) : conn[i].sock \in socks /\ conn[i].inode \in {0, Inode[conn[i].sock]}

LEMMA Facts ==
  /\ Pid \subseteq Nat \ {0} /\ Resident \subseteq Pid
  /\ Tcp \subseteq Socket /\ Udp \subseteq Socket /\ Fixed \in [Resident -> SUBSET Socket]
  /\ \A s \in Socket : Inode[s] \in Nat \ {0}
  /\ \A s, t \in Socket : Inode[s] = Inode[t] => s = t
  /\ Gone \notin Exe /\ Null \notin Exe /\ "" \notin Exe /\ "*" \notin Exe
<1>1. /\ Pid \subseteq Nat \ {0} /\ Resident \subseteq Pid
      /\ Tcp \subseteq Socket /\ Udp \subseteq Socket /\ Fixed \in [Resident -> SUBSET Socket]
      /\ Gone \notin Exe /\ Null \notin Exe /\ "" \notin Exe /\ "*" \notin Exe
  BY ConnectionsAssumption DEF ConnectionsAssumption, Socket, Gone, Null
<1>2. Half \in Nat \ {0} /\ Inode \in [Socket -> 1..(2 * Half - 1)] /\ IsInjective(Inode)
  BY ConnectionsAssumption DEF ConnectionsAssumption
<1>3. \A s \in Socket : Inode[s] \in Nat \ {0}
  <2>1. \A s \in Socket : Inode[s] \in 1..(2 * Half - 1)
    BY <1>2
  <2> QED BY <1>2, <2>1
<1>4. \A s, t \in Socket : Inode[s] = Inode[t] => s = t
  BY <1>2 DEF IsInjective
<1> QED BY <1>1, <1>3, <1>4

LEMMA EmptyTable == ASSUME NEW T PROVE TableOk(<< >>, T) /\ SortedPairs(<< >>)
BY DEF TableOk, SortedPairs

\* The first holder's name is all that a row ever gets.
LEMMA NamedTable ==
  ASSUME NEW conn, NEW T, TableOk(conn, T), NEW i \in 1..Len(conn), NEW name \in Name
  PROVE  LET new == NameOnce(conn, i, name)
         IN  /\ TableOk(new, T) /\ Len(new) = Len(conn)
             /\ SortedPairs(conn) => SortedPairs(new)
             /\ \A j \in 1..Len(conn) :
                  /\ new[j].sock = conn[j].sock /\ new[j].inode = conn[j].inode
                  /\ new[j].app = IF j = i /\ conn[j].app = Null THEN name ELSE conn[j].app
<1> DEFINE new == NameOnce(conn, i, name)
<1>1. conn \in Seq(Entry) /\ Len(conn) \in Nat
  BY DEF TableOk
<1>2. \A j \in 1..Len(conn) : conn[j] \in Entry
  BY <1>1
<1>3. \A j \in 1..Len(conn) :
         new[j] = IF j = i THEN [conn[j] EXCEPT !.app = IF conn[j].app = Null THEN name ELSE conn[j].app]
                  ELSE conn[j]
  BY <1>1 DEF NameOnce
<1>4. \A j \in 1..Len(conn) :
         /\ new[j] \in Entry
         /\ new[j].sock = conn[j].sock /\ new[j].inode = conn[j].inode
         /\ new[j].app = IF j = i /\ conn[j].app = Null THEN name ELSE conn[j].app
  BY <1>2, <1>3 DEF Entry, Name
<1>5. new \in Seq(Entry) /\ Len(new) = Len(conn)
  <2>1. new = [j \in 1..Len(conn) |-> new[j]]
    BY <1>1 DEF NameOnce
  <2> HIDE DEF new
  <2>2. new \in [1..Len(conn) -> Entry]
    BY <1>4, <2>1
  <2> QED BY <1>1, <2>2
<1> HIDE DEF new
<1>6. SortedPairs(conn) => SortedPairs(new)
  <2>1. \A j \in 1..(Len(conn) - 1) : j \in 1..Len(conn) /\ j + 1 \in 1..Len(conn)
    BY <1>1
  <2> QED BY <1>4, <1>5, <2>1 DEF SortedPairs
<1>7. TableOk(new, T)
  BY <1>4, <1>5 DEF TableOk
<1> QED BY <1>4, <1>5, <1>6, <1>7 DEF new

-----------------------------------------------------------------------------
(* The processes.                                                          *)

\* A process that is gone holds nothing, and a closed connection has no holder.
KernelInv ==
  /\ exe \in [Pid -> Exe \cup {Gone, "resident"}]
  /\ holds \in [Pid -> SUBSET Socket]
  /\ orphans \subseteq Tcp
  /\ \A p \in Pid : exe[p] = Gone => holds[p] = {}
  /\ \A p \in Pid : holds[p] \cap orphans = {}

LEMMA KernelInit == Init => KernelInv
<1> SUFFICES ASSUME Init PROVE KernelInv
  OBVIOUS
<1> USE Facts DEF Gone
<1>1. /\ exe = [p \in Pid |-> IF p \in Resident THEN "resident" ELSE Gone]
      /\ holds = [p \in Pid |-> IF p \in Resident THEN Fixed[p] ELSE {}]
      /\ orphans = {}
  BY DEF Init, ConnInit
<1>2. \A p \in Pid : holds[p] \in SUBSET Socket
  BY <1>1
<1> QED BY <1>1, <1>2 DEF KernelInv

LEMMA DropKeeps ==
  ASSUME KernelInv, NEW p \in Pid, NEW closed \in SUBSET holds[p], Drop(p, closed)
  PROVE  /\ holds' \in [Pid -> SUBSET Socket] /\ holds' = [holds EXCEPT ![p] = holds[p] \ closed]
         /\ orphans' \subseteq Tcp
         /\ \A q \in Pid : holds'[q] \cap orphans' = {}
<1>1. holds' = [holds EXCEPT ![p] = holds[p] \ closed]
  BY DEF Drop
<1>2. PICK o \in SUBSET {s \in closed \cap Tcp : \A q \in Pid \ {p} : s \notin holds[q]} : orphans' = orphans \cup o
  BY DEF Drop
<1>3. holds' \in [Pid -> SUBSET Socket]
  BY <1>1 DEF KernelInv
<1>4. orphans' \subseteq Tcp
  BY <1>2 DEF KernelInv
<1>5. \A q \in Pid : holds'[q] \cap orphans' = {}
  <2> TAKE q \in Pid
  <2>1. holds'[q] \cap orphans = {}
    BY <1>1 DEF KernelInv
  <2>2. holds'[q] \cap o = {}
    BY <1>1, <1>2 DEF KernelInv
  <2> QED BY <1>2, <2>1, <2>2
<1> QED BY <1>1, <1>3, <1>4, <1>5

LEMMA MoveKeepsKernel == KernelInv /\ Move => KernelInv'
<1> SUFFICES ASSUME KernelInv, Move PROVE KernelInv'
  OBVIOUS
<1>1. ASSUME NEW p \in Pid, NEW s \in Own, Open(p, s) PROVE KernelInv'
  <2>1. /\ p \in Live /\ s \in Own \ orphans /\ holds' = [holds EXCEPT ![p] = holds[p] \cup {s}]
        /\ UNCHANGED <<exe, orphans>>
    BY <1>1 DEF Open
  <2>2. exe[p] # Gone /\ s \in Socket
    BY <2>1 DEF Live, Own
  <2> QED BY <2>1, <2>2 DEF KernelInv
<1>2. ASSUME NEW p \in Pid, NEW q \in Pid, NEW s \in Own, Share(p, q, s) PROVE KernelInv'
  <2>1. /\ q \in Live /\ s \in holds[p] /\ holds' = [holds EXCEPT ![q] = holds[q] \cup {s}]
        /\ UNCHANGED <<exe, orphans>>
    BY <1>2 DEF Share
  <2>2. exe[q] # Gone /\ s \in Socket /\ s \notin orphans
    BY <2>1 DEF Live, KernelInv
  <2> QED BY <2>1, <2>2 DEF KernelInv
<1>3. ASSUME NEW p \in Pid, NEW s \in Own, Close(p, s) PROVE KernelInv'
  <2>1. {s} \in SUBSET holds[p] /\ Drop(p, {s}) /\ UNCHANGED exe
    BY <1>3 DEF Close
  <2>2. /\ holds' \in [Pid -> SUBSET Socket] /\ holds' = [holds EXCEPT ![p] = holds[p] \ {s}]
        /\ orphans' \subseteq Tcp /\ \A q \in Pid : holds'[q] \cap orphans' = {}
    BY <2>1, DropKeeps
  <2> QED BY <2>1, <2>2 DEF KernelInv
<1>4. ASSUME NEW p \in Pid, Exit(p) PROVE KernelInv'
  <2>1. Drop(p, holds[p]) /\ exe' = [exe EXCEPT ![p] = Gone]
    BY <1>4 DEF Exit
  <2>2. /\ holds' \in [Pid -> SUBSET Socket] /\ holds' = [holds EXCEPT ![p] = holds[p] \ holds[p]]
        /\ orphans' \subseteq Tcp /\ \A q \in Pid : holds'[q] \cap orphans' = {}
    BY <2>1, DropKeeps
  <2> QED BY <2>1, <2>2 DEF KernelInv
<1>5. ASSUME NEW p \in Pid, NEW e \in Exe, Exec(p, e) PROVE KernelInv'
  <2>1. PICK closed \in SUBSET holds[p] : Drop(p, closed)
    BY <1>5 DEF Exec
  <2>2. /\ holds' \in [Pid -> SUBSET Socket] /\ holds' = [holds EXCEPT ![p] = holds[p] \ closed]
        /\ orphans' \subseteq Tcp /\ \A q \in Pid : holds'[q] \cap orphans' = {}
    BY <2>1, DropKeeps
  <2>3. exe' = [exe EXCEPT ![p] = e] /\ e # Gone
    BY <1>5, Facts DEF Exec
  <2> QED BY <2>2, <2>3 DEF KernelInv
<1>6. ASSUME NEW s \in orphans, Vanish(s) PROVE KernelInv'
  BY <1>6 DEF Vanish, KernelInv
<1> QED BY <1>1, <1>2, <1>3, <1>4, <1>5, <1>6 DEF Move

\* A row has the inode of its connection if a process holds it.
LEMMA RowIs ==
  ASSUME NEW T \in SUBSET Socket, NEW row \in Rows(T)
  PROVE  /\ row \in Entry /\ row.sock \in T /\ row.app = Null
         /\ \/ row.sock \in UNION Range(holds) /\ row.inode = Inode[row.sock]
            \/ row.sock \in orphans /\ row.inode = 0
<1>1. ASSUME NEW s \in T PROVE Row(s, Inode[s]) \in Entry /\ Row(s, 0) \in Entry
  <2>1. s \in Socket /\ Inode[s] \in Nat
    BY Facts
  <2> QED BY <2>1 DEF Row, Entry
<1>2. \A s, n : Row(s, n).sock = s /\ Row(s, n).inode = n /\ Row(s, n).app = Null
  BY DEF Row
<1>3. \/ \E s \in T \cap UNION Range(holds) : row = Row(s, Inode[s])
      \/ \E s \in T \cap orphans : row = Row(s, 0)
  BY Zenon DEF Rows
<1> QED BY <1>1, <1>2, <1>3

\* One more row.
LEMMA TableGrows ==
  ASSUME NEW conn, NEW T \in SUBSET Socket, TableOk(conn, T), NEW n, NEW row \in RowAfter(n, T)
  PROVE  LET new == Append(conn, row)
         IN  /\ TableOk(new, T) /\ row \in Rows(T) /\ Len(new) = Len(conn) + 1
             /\ \A i \in 1..Len(conn) : new[i] = conn[i]
             /\ new[Len(conn) + 1] = row
<1> DEFINE new == Append(conn, row)
<1>1. row \in Rows(T)
  BY DEF RowAfter
<1>2. /\ row \in Entry /\ row.sock \in T
      /\ row.inode \in {0, Inode[row.sock]}
  BY <1>1, RowIs
<1>3. conn \in Seq(Entry) /\ Len(conn) \in Nat
  BY DEF TableOk
<1>4. /\ new \in Seq(Entry) /\ Len(new) = Len(conn) + 1
      /\ \A i \in 1..Len(conn) : new[i] = conn[i]
      /\ new[Len(conn) + 1] = row
  BY <1>2, <1>3
<1> HIDE DEF new
<1>5. \A i \in 1..Len(new) : i \in 1..Len(conn) \/ i = Len(conn) + 1
  BY <1>3, <1>4
<1>6. \A i \in 1..Len(new) : new[i].sock \in T /\ new[i].inode \in {0, Inode[new[i].sock]}
  BY <1>2, <1>4, <1>5 DEF TableOk
<1> QED BY <1>1, <1>4, <1>6 DEF TableOk, new

\* The sort moves rows and changes none.
LEMMA TableSorts ==
  ASSUME NEW conn, NEW T, TableOk(conn, T), NEW new \in Sorted(conn)
  PROVE  /\ TableOk(new, T) /\ SortedPairs(new)
         /\ \A i \in 1..Len(new) : \E j \in 1..Len(conn) : new[i] = conn[j]
<1>1. conn \in Seq(Entry) /\ Len(conn) \in Nat /\ DOMAIN conn = 1..Len(conn)
  BY DEF TableOk
<1>2. SortedPairs(new) /\ \E place \in Bijection(DOMAIN conn, DOMAIN conn) : new = [i \in DOMAIN conn |-> conn[place[i]]]
  BY DEF Sorted, SortedPairs
<1>3. PICK place \in [1..Len(conn) -> 1..Len(conn)] : new = [i \in 1..Len(conn) |-> conn[place[i]]]
  BY <1>1, <1>2 DEF Bijection, Injection
<1>4. \A i \in 1..Len(conn) : place[i] \in 1..Len(conn) /\ new[i] = conn[place[i]]
  BY <1>3
<1>5. new \in Seq(Entry) /\ Len(new) = Len(conn)
  <2>1. new \in [1..Len(conn) -> Entry]
    BY <1>1, <1>3
  <2> QED BY <1>1, <2>1
<1>6. \A i \in 1..Len(new) : new[i].sock \in T /\ new[i].inode \in {0, Inode[new[i].sock]}
  BY <1>4, <1>5 DEF TableOk
<1> QED BY <1>2, <1>4, <1>5, <1>6 DEF TableOk

-----------------------------------------------------------------------------
(* The scan.                                                               *)

Reading == {"pids", "tcp", "udp", "dir", "fd", "exe", "name"}

HitOk ==
  /\ at # "exe" => hit = NoHit
  /\ at = "exe" => \/ hit.proto = "tcp" /\ hit.index \in 1..Len(tcpconn)
                   \/ hit.proto = "udp" /\ hit.index \in 1..Len(udpconn)

PlaceOk ==
  /\ at \in Reading \cup {"idle", "rules", "end"}
  /\ pid \in Pid \cup {0} /\ listed \subseteq Socket
  /\ at \in {"fd", "exe"} => pid \in Pid
  /\ at \in {"idle", "pids", "tcp", "udp", "end"} => pid = 0
  /\ at \in {"idle", "pids", "end"} => tcpconn = << >>

TablesOk ==
  /\ pidexe \in Seq(Pid) /\ Ascending(pidexe)
  /\ TableOk(tcpconn, Tcp) /\ TableOk(udpconn, Udp)
  /\ at # "tcp" => SortedPairs(tcpconn)

ScanInv == KernelInv /\ TablesOk /\ PlaceOk /\ HitOk

LEMMA ScanInit == Init => ScanInv
<1> SUFFICES ASSUME Init PROVE ScanInv
  OBVIOUS
<1>1. /\ pidexe = << >> /\ tcpconn = << >> /\ udpconn = << >>
      /\ at = "idle" /\ pid = 0 /\ listed = {} /\ hit = NoHit
  BY DEF Init, ConnInit
<1>2. TablesOk
  BY <1>1, EmptyTable DEF TablesOk, Ascending
<1>3. PlaceOk /\ HitOk
  BY <1>1 DEF PlaceOk, HitOk
<1> QED BY <1>2, <1>3, KernelInit DEF ScanInv

\* What a socket's inode is found at in either table.
LEMMA FoundIs ==
  ASSUME NEW conn, NEW T \in SUBSET Socket, TableOk(conn, T), NEW s \in Socket, FindByInode(conn, Inode[s]) # 0
  PROVE  FindByInode(conn, Inode[s]) \in 1..Len(conn) /\ conn[FindByInode(conn, Inode[s])].sock = s
<1> DEFINE i == FindByInode(conn, Inode[s])
<1>1. Inode[s] \in Nat \ {0} /\ conn \in Seq(Entry)
  BY Facts DEF TableOk
<1>2. i \in 1..Len(conn) /\ conn[i].inode = Inode[s]
  BY <1>1, FoundHasInode
<1> HIDE DEF i
<1>3. conn[i].sock \in T /\ conn[i].inode \in {0, Inode[conn[i].sock]}
  BY <1>2 DEF TableOk
<1>4. conn[i].sock \in Socket /\ Inode[conn[i].sock] = Inode[s]
  BY <1>1, <1>2, <1>3
<1> QED BY <1>2, <1>4, Facts DEF i

\* The outcomes of one descriptor.
LEMMA StatOutcome ==
  ASSUME ScanInv, NEW s, StatFd(s)
  PROVE  /\ at = "fd" /\ s \in listed /\ listed' = listed \ {s} /\ s \in Socket
         /\ UNCHANGED <<kernel, tables, pid, history>>
         /\ \/ /\ at' = "fd" /\ hit' = NoHit
               /\ s \notin holds[pid] \/ FindByInode(tcpconn, Inode[s]) = 0
            \/ /\ at' = "exe" /\ s \in holds[pid] /\ hit'.proto = "tcp"
               /\ hit'.index \in 1..Len(tcpconn) /\ tcpconn[hit'.index].sock = s
            \/ /\ at' = "exe" /\ s \in holds[pid] /\ hit'.proto = "udp"
               /\ hit'.index \in 1..Len(udpconn) /\ FindByInode(tcpconn, Inode[s]) = 0
<1> DEFINE t == FindByInode(tcpconn, Inode[s])
           u == FindByInode(udpconn, Inode[s])
<1>1. /\ at = "fd" /\ s \in listed /\ listed' = listed \ {s}
      /\ UNCHANGED <<kernel, tables, pid, history>>
      /\ hit' = CASE s \notin holds[pid] -> NoHit
                  [] s \in holds[pid] /\ t # 0 -> [proto |-> "tcp", index |-> t]
                  [] s \in holds[pid] /\ t = 0 /\ u # 0 -> [proto |-> "udp", index |-> u]
                  [] OTHER -> NoHit
      /\ at' = IF hit' = NoHit THEN "fd" ELSE "exe"
  BY DEF StatFd
<1>2. s \in Socket
  BY <1>1 DEF ScanInv, PlaceOk
<1>3. t # 0 => t \in 1..Len(tcpconn) /\ tcpconn[t].sock = s
  BY <1>2, FoundIs, Facts DEF ScanInv, TablesOk
<1>4. u # 0 => u \in 1..Len(udpconn)
  BY <1>2, FoundIs, Facts DEF ScanInv, TablesOk
<1> HIDE DEF t, u
<1>5. CASE s \notin holds[pid]
  <2>1. hit' = NoHit
    BY <1>1, <1>5
  <2> QED BY <2>1, <1>1, <1>2, <1>5
<1>6. CASE s \in holds[pid] /\ t # 0
  <2>1. hit' = [proto |-> "tcp", index |-> t]
    BY <1>1, <1>6
  <2>2. hit'.proto = "tcp" /\ hit'.index = t /\ hit' # NoHit
    BY <2>1 DEF NoHit
  <2> QED BY <2>2, <1>1, <1>2, <1>3, <1>6
<1>7. CASE s \in holds[pid] /\ t = 0 /\ u # 0
  <2>1. hit' = [proto |-> "udp", index |-> u]
    BY <1>1, <1>7
  <2>2. hit'.proto = "udp" /\ hit'.index = u /\ hit' # NoHit
    BY <2>1 DEF NoHit
  <2> QED BY <2>2, <1>1, <1>2, <1>4, <1>7 DEF t
<1>8. CASE s \in holds[pid] /\ t = 0 /\ u = 0
  <2>1. hit' = NoHit
    BY <1>1, <1>8
  <2> QED BY <2>1, <1>1, <1>2, <1>8 DEF t
<1> QED BY <1>5, <1>6, <1>7, <1>8

LEMMA LinkIsName ==
  ASSUME KernelInv, NEW p \in Pid
  PROVE  LinkText(p) \in Name /\ LinkText(p) # Null /\ (LinkText(p) # "" => LinkText(p) = exe[p])
<1>1. exe[p] \in Exe \cup {Gone, "resident"}
  BY DEF KernelInv
<1>2. Null \notin Exe /\ Null # "" /\ Null # "resident"
  BY Facts DEF Null
<1> QED BY <1>1, <1>2 DEF LinkText, Name

\* The outcomes of one readlink.
LEMMA LinkOutcome ==
  ASSUME ScanInv, ReadLink
  PROVE  /\ at = "exe" /\ at' = "fd" /\ hit' = NoHit /\ pid \in Pid
         /\ UNCHANGED <<kernel, pidexe, pid, listed, history>>
         /\ \/ /\ hit.proto = "tcp" /\ hit.index \in 1..Len(tcpconn) /\ udpconn' = udpconn
               /\ tcpconn' = NameOnce(tcpconn, hit.index, LinkText(pid))
            \/ /\ hit.proto = "udp" /\ hit.index \in 1..Len(udpconn) /\ tcpconn' = tcpconn
               /\ udpconn' = NameOnce(udpconn, hit.index, LinkText(pid))
<1>1. /\ at = "exe" /\ at' = "fd" /\ hit' = NoHit
      /\ UNCHANGED <<kernel, pidexe, pid, listed, history>>
      /\ tcpconn' = IF hit.proto = "tcp" THEN NameOnce(tcpconn, hit.index, LinkText(pid)) ELSE tcpconn
      /\ udpconn' = IF hit.proto = "udp" THEN NameOnce(udpconn, hit.index, LinkText(pid)) ELSE udpconn
  BY DEF ReadLink
<1>2. pid \in Pid /\ (\/ hit.proto = "tcp" /\ hit.index \in 1..Len(tcpconn)
                      \/ hit.proto = "udp" /\ hit.index \in 1..Len(udpconn))
  BY <1>1 DEF ScanInv, PlaceOk, HitOk
<1> QED BY <1>1, <1>2

\* One step of reading a table: one more row, or the sort.
LEMMA ReadOutcome ==
  ASSUME ScanInv, ReadTcp \/ ReadUdp
  PROVE  /\ UNCHANGED <<exe, holds, orphans, pidexe, pid, listed, hit, held, kept, ran>>
         /\ TableOk(tcpconn', Tcp) /\ TableOk(udpconn', Udp)
         /\ \/ /\ at = "tcp" /\ at' = "tcp" /\ UNCHANGED udpconn
               /\ Len(tcpconn') = Len(tcpconn) + 1 /\ tcpconn'[Len(tcpconn) + 1] \in Rows(Tcp)
               /\ \A i \in 1..Len(tcpconn) : tcpconn'[i] = tcpconn[i]
            \/ /\ at = "tcp" /\ at' = "udp" /\ UNCHANGED udpconn /\ SortedPairs(tcpconn')
               /\ \A i \in 1..Len(tcpconn') : \E j \in 1..Len(tcpconn) : tcpconn'[i] = tcpconn[j]
            \/ at = "udp" /\ at' \in {"udp", "dir"} /\ UNCHANGED tcpconn
<1> USE DEF kernel, tables, locals, history
<1>1. TableOk(tcpconn, Tcp) /\ TableOk(udpconn, Udp) /\ Tcp \in SUBSET Socket /\ Udp \in SUBSET Socket
  BY Facts DEF ScanInv, TablesOk
<1>2. ASSUME ReadTcp, NEW row \in RowAfter(Len(tcpconn), Tcp), tcpconn' = Append(tcpconn, row), at' = "tcp"
      PROVE  /\ at = "tcp" /\ UNCHANGED <<exe, holds, orphans, pidexe, udpconn, pid, listed, hit, held, kept, ran>>
             /\ TableOk(tcpconn', Tcp)
             /\ Len(tcpconn') = Len(tcpconn) + 1 /\ tcpconn'[Len(tcpconn) + 1] \in Rows(Tcp)
             /\ \A i \in 1..Len(tcpconn) : tcpconn'[i] = tcpconn[i]
  <2>1. at = "tcp" /\ UNCHANGED <<exe, holds, orphans, pidexe, udpconn, pid, listed, hit, held, kept, ran>>
    BY <1>2 DEF ReadTcp
  <2>2. /\ TableOk(tcpconn', Tcp) /\ row \in Rows(Tcp) /\ Len(tcpconn') = Len(tcpconn) + 1
        /\ \A i \in 1..Len(tcpconn) : tcpconn'[i] = tcpconn[i]
        /\ tcpconn'[Len(tcpconn) + 1] = row
    BY <1>1, <1>2, TableGrows
  <2> QED BY <2>1, <2>2
<1>3. ASSUME ReadTcp, tcpconn' \in Sorted(tcpconn), at' = "udp"
      PROVE  /\ at = "tcp" /\ UNCHANGED <<exe, holds, orphans, pidexe, udpconn, pid, listed, hit, held, kept, ran>>
             /\ TableOk(tcpconn', Tcp) /\ SortedPairs(tcpconn')
             /\ \A i \in 1..Len(tcpconn') : \E j \in 1..Len(tcpconn) : tcpconn'[i] = tcpconn[j]
  <2>1. at = "tcp" /\ UNCHANGED <<exe, holds, orphans, pidexe, udpconn, pid, listed, hit, held, kept, ran>>
    BY <1>3 DEF ReadTcp
  <2>2. /\ TableOk(tcpconn', Tcp) /\ SortedPairs(tcpconn')
        /\ \A i \in 1..Len(tcpconn') : \E j \in 1..Len(tcpconn) : tcpconn'[i] = tcpconn[j]
    BY <1>1, <1>3, TableSorts
  <2> QED BY <2>1, <2>2
<1>4. CASE ReadTcp
  <2>1. \/ (\E row \in RowAfter(Len(tcpconn), Tcp) : tcpconn' = Append(tcpconn, row)) /\ at' = "tcp"
        \/ tcpconn' \in Sorted(tcpconn) /\ at' = "udp"
    BY <1>4 DEF ReadTcp
  <2>2. CASE (\E row \in RowAfter(Len(tcpconn), Tcp) : tcpconn' = Append(tcpconn, row)) /\ at' = "tcp"
    <3>1. PICK row \in RowAfter(Len(tcpconn), Tcp) : tcpconn' = Append(tcpconn, row)
      BY <2>2
    <3> QED BY <1>1, <1>2, <1>4, <2>2, <3>1
  <2>3. CASE tcpconn' \in Sorted(tcpconn) /\ at' = "udp"
    BY <1>1, <1>3, <1>4, <2>3
  <2> QED BY <2>1, <2>2, <2>3
<1>5. CASE ReadUdp
  <2>1. /\ at = "udp" /\ at' \in {"udp", "dir"}
        /\ UNCHANGED <<exe, holds, orphans, pidexe, tcpconn, pid, listed, hit, held, kept, ran>>
    BY <1>5 DEF ReadUdp
  <2>2. \/ \E row \in RowAfter(Len(udpconn), Udp) : udpconn' = Append(udpconn, row)
        \/ udpconn' \in Sorted(udpconn)
    BY <1>5 DEF ReadUdp
  <2>3. TableOk(udpconn', Udp)
    <3>1. ASSUME NEW row \in RowAfter(Len(udpconn), Udp), udpconn' = Append(udpconn, row) PROVE TableOk(udpconn', Udp)
      BY <1>1, <3>1, TableGrows
    <3>2. ASSUME udpconn' \in Sorted(udpconn) PROVE TableOk(udpconn', Udp)
      BY <1>1, <3>2, TableSorts
    <3> QED BY <2>2, <3>1, <3>2
  <2> QED BY <1>1, <2>1, <2>3
<1> QED BY <1>4, <1>5

LEMMA MoveFrame ==
  ASSUME Move
  PROVE  /\ at # "end" /\ UNCHANGED <<at, pidexe, tcpconn, udpconn, pid, listed, hit>>
         /\ at = "idle" => UNCHANGED <<held, kept, ran>>
         /\ at # "idle" => /\ held' = held \cup Holding(holds') /\ kept' = kept \cap Holding(holds')
                           /\ ran' = ran \cup Running(exe')
BY DEF Move, tables, locals, history

LEMMA ReceiveFrame ==
  ASSUME NEW p, Receive(p)
  PROVE  /\ at = "idle" /\ at' \in {"pids", "rules"}
         /\ UNCHANGED <<exe, holds, orphans, pidexe, tcpconn, udpconn, pid, listed, hit>>
         /\ at' = "pids" => held' = Holding(holds) /\ kept' = Holding(holds) /\ ran' = Running(exe)
         /\ app' \in {"*", Null}
         /\ at' = "pids" <=> p.proto = "tcp" /\ p.opens
         /\ p.proto = "tcp" => pkt' = p
         /\ p.proto # "tcp" => \E sport, dport \in PortNr : pkt' = [p EXCEPT !.sport = sport, !.dport = dport]
BY DEF Receive, BeginScan, kernel, tables, locals

LEMMA DecideFrame ==
  ASSUME Decide
  PROVE  /\ at = "rules" /\ at' = "end" /\ UNCHANGED <<exe, holds, orphans, pkt, app>>
         /\ pidexe' = << >> /\ tcpconn' = << >> /\ udpconn' = << >>
         /\ pid' = 0 /\ listed' = {} /\ hit' = NoHit
BY DEF Decide, Forget, kernel

LEMMA ScanStep == ScanInv /\ [Next]_vars => ScanInv'
<1> SUFFICES ASSUME ScanInv, [Next]_vars PROVE ScanInv'
  OBVIOUS
<1> USE DEF kernel, tables, locals, history, packet
<1>1. ASSUME NEW p, Receive(p) PROVE ScanInv'
  <2>1. /\ at = "idle" /\ at' \in {"pids", "rules"}
        /\ UNCHANGED <<exe, holds, orphans, pidexe, tcpconn, udpconn, pid, listed, hit>>
    BY <1>1, ReceiveFrame
  <2>2. KernelInv' /\ TablesOk'
    BY <2>1 DEF ScanInv, KernelInv, TablesOk
  <2>3. PlaceOk' /\ HitOk'
    BY <2>1 DEF ScanInv, PlaceOk, HitOk, Reading
  <2> QED BY <2>2, <2>3 DEF ScanInv
<1>2. CASE Move
  <2>1. UNCHANGED <<at, pidexe, tcpconn, udpconn, pid, listed, hit>>
    BY <1>2, MoveFrame
  <2>2. KernelInv'
    BY <1>2, MoveKeepsKernel DEF ScanInv
  <2>3. TablesOk' /\ PlaceOk' /\ HitOk'
    BY <2>1 DEF ScanInv, TablesOk, PlaceOk, HitOk
  <2> QED BY <2>2, <2>3 DEF ScanInv
<1>3. CASE PidExeScan
  <2>1. /\ at = "pids" /\ at' = "tcp" /\ UNCHANGED <<exe, holds, orphans, tcpconn, udpconn, pid, listed, hit>>
        /\ pidexe' \in SetToSeqs(Live) /\ \A i, j \in DOMAIN pidexe' : i < j => pidexe'[i] < pidexe'[j]
    BY <1>3 DEF PidExeScan
  <2>2. Live \subseteq Pid /\ IsFiniteSet(Live)
    <3>1. Live \in SUBSET Pid
      BY DEF Live
    <3> QED BY <3>1, FS_Subset, ConnectionsAssumption DEF ConnectionsAssumption
  <2>3. pidexe' \in Seq(Live)
    BY <2>1, <2>2, SeqsAreOnto
  <2>4. pidexe' \in Seq(Pid) /\ DOMAIN pidexe' = 1..Len(pidexe')
    BY <2>2, <2>3
  <2>5. TablesOk'
    BY <2>1, <2>4 DEF ScanInv, TablesOk, Ascending
  <2>6. KernelInv' /\ PlaceOk' /\ HitOk'
    BY <2>1 DEF ScanInv, KernelInv, PlaceOk, HitOk, Reading
  <2> QED BY <2>5, <2>6 DEF ScanInv
<1>4. CASE ReadTcp \/ ReadUdp
  <2>1. /\ UNCHANGED <<exe, holds, orphans, pidexe, pid, listed, hit>>
        /\ TableOk(tcpconn', Tcp) /\ TableOk(udpconn', Udp)
        /\ \/ at = "tcp" /\ at' = "tcp"
           \/ at = "tcp" /\ at' = "udp" /\ SortedPairs(tcpconn')
           \/ at = "udp" /\ at' \in {"udp", "dir"} /\ UNCHANGED tcpconn
    BY <1>4, ReadOutcome
  <2>2. TablesOk'
    BY <2>1 DEF ScanInv, TablesOk
  <2>3. KernelInv'
    BY <2>1 DEF ScanInv, KernelInv
  <2>4. PlaceOk' /\ HitOk'
    BY <2>1 DEF ScanInv, PlaceOk, HitOk, Reading
  <2> QED BY <2>2, <2>3, <2>4 DEF ScanInv
<1>6. CASE NextPid
  <2>1. /\ at = "dir" /\ at' = "fd" /\ pid' \in Live /\ listed' = holds[pid']
        /\ UNCHANGED <<exe, holds, orphans, pidexe, tcpconn, udpconn, hit>>
    BY <1>6 DEF NextPid
  <2>2. pid' \in Pid /\ listed' \subseteq Socket
    BY <2>1 DEF Live, ScanInv, KernelInv
  <2>3. KernelInv' /\ TablesOk' /\ PlaceOk' /\ HitOk'
    BY <2>1, <2>2 DEF ScanInv, KernelInv, TablesOk, PlaceOk, HitOk, Reading
  <2> QED BY <2>3 DEF ScanInv
<1>7. CASE LastPid \/ EndFds \/ Lookup
  <2>1. /\ at \in {"dir", "fd", "name"} /\ at' \in {"dir", "name", "rules"}
        /\ UNCHANGED <<exe, holds, orphans, pidexe, tcpconn, udpconn, pid, listed, hit>>
    BY <1>7 DEF LastPid, EndFds, Lookup
  <2>2. KernelInv' /\ TablesOk'
    BY <2>1 DEF ScanInv, KernelInv, TablesOk
  <2>3. PlaceOk' /\ HitOk'
    BY <2>1 DEF ScanInv, PlaceOk, HitOk, Reading
  <2> QED BY <2>2, <2>3 DEF ScanInv
<1>8. ASSUME NEW s, StatFd(s) PROVE ScanInv'
  <2>1. /\ at = "fd" /\ listed' \subseteq listed /\ at' \in {"fd", "exe"}
        /\ UNCHANGED <<exe, holds, orphans, pidexe, tcpconn, udpconn, pid>>
        /\ at' = "fd" => hit' = NoHit
        /\ at' = "exe" => \/ hit'.proto = "tcp" /\ hit'.index \in 1..Len(tcpconn)
                          \/ hit'.proto = "udp" /\ hit'.index \in 1..Len(udpconn)
    BY <1>8, StatOutcome
  <2>2. KernelInv' /\ TablesOk'
    BY <2>1 DEF ScanInv, KernelInv, TablesOk
  <2>3. PlaceOk' /\ HitOk'
    BY <2>1 DEF ScanInv, PlaceOk, HitOk, Reading
  <2> QED BY <2>2, <2>3 DEF ScanInv
<1>9. CASE ReadLink
  <2>1. /\ at = "exe" /\ at' = "fd" /\ hit' = NoHit /\ pid \in Pid
        /\ UNCHANGED <<exe, holds, orphans, pidexe, pid, listed>>
        /\ \/ /\ hit.index \in 1..Len(tcpconn) /\ udpconn' = udpconn
              /\ tcpconn' = NameOnce(tcpconn, hit.index, LinkText(pid))
           \/ /\ hit.index \in 1..Len(udpconn) /\ tcpconn' = tcpconn
              /\ udpconn' = NameOnce(udpconn, hit.index, LinkText(pid))
    BY <1>9, LinkOutcome
  <2>2. LinkText(pid) \in Name
    BY <2>1, LinkIsName DEF ScanInv
  <2>3. /\ TableOk(tcpconn, Tcp) /\ TableOk(udpconn, Udp) /\ pidexe \in Seq(Pid) /\ Ascending(pidexe)
        /\ SortedPairs(tcpconn)
    BY <2>1 DEF ScanInv, TablesOk
  <2>4. TableOk(tcpconn', Tcp) /\ TableOk(udpconn', Udp) /\ SortedPairs(tcpconn')
    BY <2>1, <2>2, <2>3, NamedTable
  <2>5. TablesOk'
    BY <2>1, <2>3, <2>4 DEF TablesOk
  <2>6. KernelInv' /\ PlaceOk' /\ HitOk'
    BY <2>1 DEF ScanInv, KernelInv, PlaceOk, HitOk, Reading
  <2> QED BY <2>5, <2>6 DEF ScanInv
<1>10. CASE Decide
  <2>1. /\ at = "rules" /\ at' = "end" /\ UNCHANGED <<exe, holds, orphans>>
        /\ pidexe' = << >> /\ tcpconn' = << >> /\ udpconn' = << >>
        /\ pid' = 0 /\ listed' = {} /\ hit' = NoHit
    BY <1>10, DecideFrame
  <2>2. TablesOk'
    BY <2>1, EmptyTable DEF TablesOk, Ascending
  <2>3. KernelInv' /\ PlaceOk' /\ HitOk'
    BY <2>1 DEF ScanInv, KernelInv, PlaceOk, HitOk, Reading
  <2> QED BY <2>2, <2>3 DEF ScanInv
<1>11. CASE Done \/ UNCHANGED vars
  <2>1. /\ UNCHANGED <<exe, holds, orphans, pidexe, tcpconn, udpconn, pid, listed, hit>>
        /\ at' = at \/ (at = "end" /\ at' = "idle")
    BY <1>11 DEF Done, vars
  <2>2. KernelInv' /\ TablesOk'
    BY <2>1 DEF ScanInv, KernelInv, TablesOk
  <2>3. PlaceOk' /\ HitOk'
    BY <2>1 DEF ScanInv, PlaceOk, HitOk, Reading
  <2> QED BY <2>2, <2>3 DEF ScanInv
<1> QED
  BY <1>1, <1>2, <1>3, <1>4, <1>6, <1>7, <1>8, <1>9, <1>10, <1>11
  DEF Next, Connect, Handle, Rescan

LEMMA PidsAreNumbers ==
  ASSUME ScanInv, Len(pidexe) >= 2
  PROVE  pidexe \in Seq(Nat) /\ pidexe[1] \in Nat /\ pidexe[Len(pidexe)] \in Nat
<1>1. pidexe \in Seq(Pid) /\ Pid \subseteq Nat
  BY Facts DEF ScanInv, TablesOk
<1>2. \A i \in 1..Len(pidexe) : pidexe[i] \in Pid
  BY <1>1
<1>3. Len(pidexe) \in Nat /\ 1 \in 1..Len(pidexe) /\ Len(pidexe) \in 1..Len(pidexe)
  BY <1>1
<1>4. \A i \in 1..Len(pidexe) : pidexe[i] \in Nat
  BY <1>1, <1>2
<1> QED BY <1>1, <1>3, <1>4

\* No number is looked for in vain: every process that was running is found at
\* its place, and -1 is said of all others.
THEOREM SearchesAreExact == Spec => []PidSearchExact
<1>1. ScanInv => PidSearchExact
  <2> SUFFICES ASSUME ScanInv, Len(pidexe) >= 2, NEW n \in pidexe[1]..(pidexe[Len(pidexe)] + 1)
               PROVE  FindPid(pidexe, n) = SelectInSeq(pidexe, LAMBDA m : m = n) - 1
    BY DEF PidSearchExact
  <2>1. pidexe \in Seq(Pid) /\ Ascending(pidexe) /\ Pid \subseteq Nat
    BY Facts DEF ScanInv, TablesOk
  <2>2. pidexe \in Seq(Nat) /\ pidexe[1] \in Nat /\ pidexe[Len(pidexe)] \in Nat
    BY PidsAreNumbers
  <2>3. n \in Nat /\ pidexe[1] <= n
    BY <2>2
  <2> QED BY <2>1, <2>2, <2>3, PidSearchSelects
<1> QED BY <1>1, ScanInit, ScanStep, PTL DEF Spec

-----------------------------------------------------------------------------
(* Whose name a packet gets.                                               *)

PacketTypes ==
  /\ app \in Name \cup {"*"}
  /\ verdict \in {"none", "accept", "drop", "held"}

LEMMA PacketTypesInit == Init => PacketTypes
BY DEF Init, PacketTypes, Name

LEMMA PacketTypesStep == ScanInv /\ PacketTypes /\ [Next]_vars => PacketTypes'
<1> SUFFICES ASSUME ScanInv, PacketTypes, [Next]_vars PROVE PacketTypes'
  OBVIOUS
<1>1. ASSUME NEW p, Receive(p) PROVE PacketTypes'
  <2>1. app' \in {"*", Null} /\ verdict' = verdict
    BY <1>1 DEF Receive
  <2> QED BY <2>1 DEF PacketTypes, Name
<1>2. CASE Lookup
  <2> DEFINE i == SelectInSeq(tcpconn, LAMBDA row : IsOf(row, pkt))
  <2>1. /\ app' = IF i = 0 THEN Null ELSE IF tcpconn[i].app = Null THEN "*" ELSE tcpconn[i].app
        /\ verdict' = verdict
    BY <1>2 DEF Lookup
  <2>2. tcpconn \in Seq(Entry)
    BY DEF ScanInv, TablesOk, TableOk
  <2>3. i = 0 \/ (i \in 1..Len(tcpconn) /\ IsOf(tcpconn[i], pkt))
    BY <2>2, LookupTakes
  <2> HIDE DEF i
  <2>4. i # 0 => tcpconn[i] \in Entry
    BY <2>2, <2>3
  <2>5. i # 0 => tcpconn[i].app \in Name
    BY <2>4 DEF Entry, Name
  <2> QED BY <2>1, <2>5 DEF PacketTypes, Name
<1>3. CASE Decide
  <2>1. app' = app /\ \E a : verdict' = IF Established THEN "accept" ELSE VerdictOf(a)
    BY <1>3 DEF Decide
  <2>2. \A a : VerdictOf(a) \in {"accept", "drop", "held"}
    BY DEF VerdictOf
  <2> QED BY <2>1, <2>2 DEF PacketTypes
<1>4. CASE Done
  BY <1>4 DEF Done, PacketTypes, Name
<1>5. CASE UNCHANGED vars
  BY <1>5 DEF vars, packet, PacketTypes
<1>6. CASE (Rescan \/ Move) /\ UNCHANGED packet
  BY <1>6 DEF packet, PacketTypes
<1> QED BY <1>1, <1>2, <1>3, <1>4, <1>5, <1>6 DEF Next, Connect, Handle

\* The kernel's tables, the scan's and what the packet is told are what they are
\* declared to be: an entry has the name of an executable, or that it was not
\* found, and no other text.
THEOREM TypeCorrect == Spec => []TypeOK
<1>1. ScanInv /\ PacketTypes => TypeOK
  <2> SUFFICES ASSUME ScanInv, PacketTypes PROVE TypeOK
    OBVIOUS
  <2>1. ASSUME NEW conn, NEW T \in SUBSET Socket, TableOk(conn, T)
        PROVE  Named(conn) /\ DOMAIN conn = 1..Len(conn)
    <3>1. conn \in Seq(Entry) /\ \A i \in 1..Len(conn) : conn[i].sock \in T /\ conn[i].inode \in {0, Inode[conn[i].sock]}
      BY <2>1 DEF TableOk
    <3>2. \A i \in 1..Len(conn) : conn[i] \in Entry
      BY <3>1
    <3>3. \A i \in 1..Len(conn) : conn[i].sock \in Socket /\ conn[i].app \in Exe \cup {Null, "", "resident"}
      BY <3>2 DEF Entry
    <3>4. DOMAIN conn = 1..Len(conn)
      BY <3>1
    <3>5. \A i \in DOMAIN conn : conn[i].inode \in {0, Inode[conn[i].sock]}
      BY <3>1, <3>4
    <3> QED BY <3>3, <3>4, <3>5, Zenon DEF Named
  <2>2. Named(tcpconn) /\ Named(udpconn) /\ DOMAIN tcpconn = 1..Len(tcpconn) /\ DOMAIN udpconn = 1..Len(udpconn)
    BY <2>1, Facts DEF ScanInv, TablesOk
  <2>3. hit = NoHit \/ hit.index \in DOMAIN (IF hit.proto = "tcp" THEN tcpconn ELSE udpconn)
    BY <2>2 DEF ScanInv, HitOk
  <2>4. \A i \in DOMAIN pidexe : pidexe[i] \in Pid
    BY DEF ScanInv, TablesOk
  <2>5. at \in {"idle", "pids", "tcp", "udp", "dir", "fd", "exe", "name", "rules", "end"}
    BY DEF ScanInv, PlaceOk, Reading
  <2>6. pid \in Pid \cup {0} /\ listed \subseteq Socket
    BY DEF ScanInv, PlaceOk
  <2>7. exe \in [Pid -> Exe \cup {Gone, "resident"}] /\ holds \in [Pid -> SUBSET Socket] /\ orphans \subseteq Tcp
    BY DEF ScanInv, KernelInv
  <2>8. app \in Exe \cup {Null, "*", "", "resident"} /\ verdict \in {"none", "accept", "drop", "held"}
    BY DEF PacketTypes, Name
  <2> QED BY <2>2, <2>3, <2>4, <2>5, <2>6, <2>7, <2>8 DEF TypeOK
<1> QED BY <1>1, ScanInit, ScanStep, PacketTypesInit, PacketTypesStep, PTL DEF Spec

\* While a scan runs, its history has all that is held and all that runs.
HistoryOk == at \in Reading => Holding(holds) \subseteq held /\ Running(exe) \subseteq ran

\* Each name is that of a holder, and "" that of one who is gone.
RanAs(p, name) == <<p, IF name = "" THEN Gone ELSE name>> \in ran
NamesOk ==
  \A i \in 1..Len(tcpconn) : tcpconn[i].app # Null =>
    \E p \in Pid : <<p, tcpconn[i].sock>> \in held /\ RanAs(p, tcpconn[i].app)

\* The process whose link is read has held the entry found.
HitHeld == at = "exe" /\ hit.proto = "tcp" => <<pid, tcpconn[hit.index].sock>> \in held

NameInv == HistoryOk /\ NamesOk /\ HitHeld /\ NamedByHolder

LEMMA NameInit == Init => NameInv
<1> SUFFICES ASSUME Init PROVE NameInv
  OBVIOUS
<1>1. at = "idle" /\ tcpconn = << >>
  BY DEF Init, ConnInit
<1> QED BY <1>1 DEF NameInv, HistoryOk, NamesOk, HitHeld, NamedByHolder, Opening, Reading

\* A packet that needs no scan opens no connection.
LEMMA NoScanNoOpening ==
  ASSUME NEW p, p \in Packet \/ (p.proto = "tcp" /\ p.opens), Receive(p)
  PROVE  ~Opening'
<1>1. at' = "pids" <=> p.proto = "tcp" /\ p.opens
  BY ReceiveFrame
<1>2. CASE at' = "pids"
  BY <1>2 DEF Opening
<1>3. CASE at' # "pids" /\ p.proto = "tcp"
  <2>1. pkt' = p
    BY <1>3, ReceiveFrame
  <2> QED BY <1>1, <1>3, <2>1, Zenon DEF Opening
<1>4. CASE at' # "pids" /\ p.proto # "tcp"
  <2>1. PICK sport, dport \in PortNr : pkt' = [p EXCEPT !.sport = sport, !.dport = dport]
    BY <1>4, ReceiveFrame
  <2>2. p \in Packet
    BY <1>4
  <2>3. pkt'.proto = p.proto
    BY <2>1, <2>2 DEF Packet
  <2> QED BY <1>4, <2>3, Zenon DEF Opening
<1> QED BY <1>2, <1>3, <1>4

\* Only strays that are packets, and connections that open, are received.
LEMMA ReceivedIsPacket ==
  ASSUME (\E s \in Tcp \ Listening : Connect(s)) \/ (\E p \in Strays : Receive(p))
  PROVE  \E p : Receive(p) /\ (p \in Packet \/ (p.proto = "tcp" /\ p.opens))
<1>1. ASSUME NEW s \in Tcp \ Listening, Connect(s)
      PROVE  \E p : Receive(p) /\ (p \in Packet \/ (p.proto = "tcp" /\ p.opens))
  <2>1. Receive(Syn(s))
    BY <1>1 DEF Connect
  <2>2. Syn(s).proto = "tcp" /\ Syn(s).opens
    BY DEF Syn, Message
  <2> QED BY <2>1, <2>2, Zenon
<1>2. ASSUME NEW p \in Strays, Receive(p)
      PROVE  \E q : Receive(q) /\ (q \in Packet \/ (q.proto = "tcp" /\ q.opens))
  <2>1. p \in Packet
    BY IntakeAssumption DEF IntakeAssumption
  <2> QED BY <1>2, <2>1, Zenon
<1> QED BY <1>1, <1>2, Zenon

\* The history only grows until the verdict, and with it every name stays good.
LEMMA NamesStay ==
  ASSUME NameInv, held \subseteq held', ran \subseteq ran', UNCHANGED tcpconn
  PROVE  NamesOk'
BY DEF NameInv, NamesOk, RanAs

LEMMA NameStep == ScanInv /\ NameInv /\ [Next]_vars => NameInv'
<1> SUFFICES ASSUME ScanInv, NameInv, [Next]_vars PROVE NameInv'
  OBVIOUS
<1> USE DEF kernel, tables, locals, history, packet
<1>1. ASSUME (\E s \in Tcp \ Listening : Connect(s)) \/ (\E p \in Strays : Receive(p)) PROVE NameInv'
  <2>1. PICK p : Receive(p) /\ (p \in Packet \/ (p.proto = "tcp" /\ p.opens))
    BY <1>1, ReceivedIsPacket
  <2>2. ~Opening'
    BY <2>1, NoScanNoOpening
  <2>3. /\ at = "idle" /\ at' \in {"pids", "rules"} /\ UNCHANGED <<exe, holds, tcpconn>>
        /\ at' = "pids" => held' = Holding(holds) /\ kept' = Holding(holds) /\ ran' = Running(exe)
    BY <2>1, ReceiveFrame
  <2>4. tcpconn' = << >>
    BY <2>3 DEF ScanInv, PlaceOk
  <2>5. HistoryOk'
    BY <2>3 DEF HistoryOk, Reading, Holding, Running
  <2>6. NamesOk'
    <3>1. 1..Len(tcpconn') = {}
      <4>1. Len(tcpconn') = 0
        BY <2>4
      <4> QED BY <4>1
    <3> QED BY <3>1, Zenon DEF NamesOk
  <2>7. HitHeld' /\ NamedByHolder'
    BY <2>2, <2>3, Zenon DEF HitHeld, NamedByHolder
  <2> QED BY <2>5, <2>6, <2>7 DEF NameInv
<1>2. CASE Move /\ UNCHANGED packet
  <2>1. /\ UNCHANGED <<at, tcpconn, pid, hit>>
        /\ at = "idle" => UNCHANGED <<held, kept, ran>>
        /\ at # "idle" => held' = held \cup Holding(holds') /\ ran' = ran \cup Running(exe')
    BY <1>2, MoveFrame
  <2>2. held \subseteq held' /\ ran \subseteq ran'
    BY <2>1
  <2>3. NamesOk'
    BY <2>1, <2>2, NamesStay
  <2>4. HistoryOk'
    BY <2>1 DEF HistoryOk, Reading, Holding, Running
  <2>5. HitHeld'
    BY <2>1, <2>2 DEF NameInv, HitHeld
  <2>6. NamedByHolder'
    BY <1>2, <2>1, <2>2 DEF NameInv, NamedByHolder, Opening, IsOf
  <2> QED BY <2>3, <2>4, <2>5, <2>6 DEF NameInv
<1>3. CASE (PidExeScan \/ NextPid \/ LastPid \/ EndFds) /\ UNCHANGED packet
  <2>1. at \in Reading /\ at' \in Reading \ {"exe"} /\ UNCHANGED <<exe, holds, tcpconn, held, ran>>
    BY <1>3 DEF PidExeScan, NextPid, LastPid, EndFds, Reading
  <2>2. NamesOk'
    BY <2>1, NamesStay
  <2>3. HistoryOk'
    BY <2>1 DEF NameInv, HistoryOk, Holding, Running
  <2>4. HitHeld' /\ NamedByHolder'
    BY <2>1 DEF HitHeld, NamedByHolder, Opening, Reading
  <2> QED BY <2>2, <2>3, <2>4 DEF NameInv
<1>4. CASE (ReadTcp \/ ReadUdp) /\ UNCHANGED packet
  <2>1. /\ at \in {"tcp", "udp"} /\ at' \in {"tcp", "udp", "dir"} /\ UNCHANGED <<exe, holds, held, ran>>
        /\ \/ /\ Len(tcpconn') = Len(tcpconn) + 1 /\ tcpconn'[Len(tcpconn) + 1] \in Rows(Tcp)
              /\ \A i \in 1..Len(tcpconn) : tcpconn'[i] = tcpconn[i]
           \/ \A i \in 1..Len(tcpconn') : \E j \in 1..Len(tcpconn) : tcpconn'[i] = tcpconn[j]
           \/ UNCHANGED tcpconn
    BY <1>4, ReadOutcome
  <2>2. HistoryOk'
    BY <2>1 DEF NameInv, HistoryOk, Reading, Holding, Running
  <2>3. NamesOk'
    <3>1. Len(tcpconn) \in Nat /\ Tcp \in SUBSET Socket
      <4>1. tcpconn \in Seq(Entry)
        BY DEF ScanInv, TablesOk, TableOk
      <4>2. Len(tcpconn) \in Nat
        BY <4>1
      <4>3. Tcp \in SUBSET Socket
        BY Facts
      <4> QED BY <4>2, <4>3
    <3>2. ASSUME tcpconn'[Len(tcpconn) + 1] \in Rows(Tcp) PROVE tcpconn'[Len(tcpconn) + 1].app = Null
      BY <3>1, <3>2, RowIs
    <3>3. \A i \in 1..Len(tcpconn') :
            tcpconn'[i].app # Null => \E j \in 1..Len(tcpconn) : tcpconn'[i] = tcpconn[j]
      <4>1. CASE /\ Len(tcpconn') = Len(tcpconn) + 1 /\ tcpconn'[Len(tcpconn) + 1] \in Rows(Tcp)
                 /\ \A i \in 1..Len(tcpconn) : tcpconn'[i] = tcpconn[i]
        <5>1. \A i \in 1..Len(tcpconn') : i \in 1..Len(tcpconn) \/ i = Len(tcpconn) + 1
          BY <3>1, <4>1
        <5> QED BY <3>2, <4>1, <5>1
      <4> QED BY <2>1, <4>1
    <3> QED BY <2>1, <3>3 DEF NameInv, NamesOk, RanAs
  <2> QED BY <2>1, <2>2, <2>3 DEF NameInv, HitHeld, NamedByHolder, Opening
<1>5. ASSUME NEW s, StatFd(s), UNCHANGED packet PROVE NameInv'
  <2>1. /\ at = "fd" /\ at' \in {"fd", "exe"} /\ UNCHANGED <<exe, holds, tcpconn, pid, held, ran>> /\ s \in Socket
        /\ at' = "exe" /\ hit'.proto = "tcp" => s \in holds[pid] /\ tcpconn[hit'.index].sock = s
    BY <1>5, StatOutcome
  <2>2. NamesOk'
    BY <2>1, NamesStay
  <2>3. HistoryOk'
    BY <2>1 DEF NameInv, HistoryOk, Reading, Holding, Running
  <2>4. HitHeld'
    <3>1. pid \in Pid /\ Holding(holds) \subseteq held
      BY <2>1 DEF ScanInv, PlaceOk, NameInv, HistoryOk, Reading
    <3>2. s \in holds[pid] => <<pid, s>> \in Holding(holds)
      BY <2>1, <3>1 DEF Holding
    <3> QED BY <2>1, <3>1, <3>2 DEF HitHeld
  <2> QED BY <2>1, <2>2, <2>3, <2>4 DEF NameInv, NamedByHolder, Opening
<1>6. CASE ReadLink /\ UNCHANGED packet
  <2>1. /\ at = "exe" /\ at' = "fd" /\ pid \in Pid /\ UNCHANGED <<exe, holds, held, ran>>
        /\ \/ /\ hit.proto = "tcp" /\ hit.index \in 1..Len(tcpconn)
              /\ tcpconn' = NameOnce(tcpconn, hit.index, LinkText(pid))
           \/ tcpconn' = tcpconn
    BY <1>6, LinkOutcome
  <2>2. HistoryOk'
    BY <2>1 DEF NameInv, HistoryOk, Reading, Holding, Running
  <2>3. NamesOk'
    <3>1. CASE tcpconn' = tcpconn
      BY <2>1, <3>1, NamesStay
    <3>2. CASE /\ hit.proto = "tcp" /\ hit.index \in 1..Len(tcpconn)
               /\ tcpconn' = NameOnce(tcpconn, hit.index, LinkText(pid))
      <4>1. LinkText(pid) \in Name /\ RanAs(pid, LinkText(pid))
        <5>1. LinkText(pid) \in Name /\ LinkText(pid) = IF exe[pid] = Gone THEN "" ELSE exe[pid]
          BY <2>1, LinkIsName DEF ScanInv, LinkText
        <5>2. <<pid, exe[pid]>> \in ran
          BY <2>1 DEF NameInv, HistoryOk, Reading, Running
        <5>3. exe[pid] # ""
          BY <2>1, Facts DEF ScanInv, KernelInv, Gone
        <5> QED BY <5>1, <5>2, <5>3 DEF RanAs
      <4>2. <<pid, tcpconn[hit.index].sock>> \in held
        BY <2>1, <3>2 DEF NameInv, HitHeld
      <4>3. /\ Len(tcpconn') = Len(tcpconn)
            /\ \A j \in 1..Len(tcpconn) :
                 /\ tcpconn'[j].sock = tcpconn[j].sock
                 /\ tcpconn'[j].app = IF j = hit.index /\ tcpconn[j].app = Null THEN LinkText(pid) ELSE tcpconn[j].app
        BY <3>2, <4>1, NamedTable DEF ScanInv, TablesOk
      <4> SUFFICES ASSUME NEW i \in 1..Len(tcpconn), tcpconn'[i].app # Null
                   PROVE  \E p \in Pid : <<p, tcpconn[i].sock>> \in held /\ RanAs(p, tcpconn'[i].app)
        BY <2>1, <4>3 DEF NamesOk, RanAs
      <4>4. CASE i = hit.index /\ tcpconn[i].app = Null
        BY <2>1, <4>1, <4>2, <4>3, <4>4
      <4>5. CASE ~(i = hit.index /\ tcpconn[i].app = Null)
        BY <4>3, <4>5 DEF NameInv, NamesOk
      <4> QED BY <4>4, <4>5
    <3> QED BY <2>1, <3>1, <3>2
  <2> QED BY <2>1, <2>2, <2>3 DEF NameInv, HitHeld, NamedByHolder, Opening
<1>7. CASE Lookup
  <2> DEFINE i == SelectInSeq(tcpconn, LAMBDA row : IsOf(row, pkt))
  <2>1. /\ app' = IF i = 0 THEN Null ELSE IF tcpconn[i].app = Null THEN "*" ELSE tcpconn[i].app
        /\ at' = "rules" /\ UNCHANGED <<tcpconn, held, ran, pkt>>
    BY <1>7 DEF Lookup
  <2>2. tcpconn \in Seq(Entry) /\ \A j \in 1..Len(tcpconn) : tcpconn[j].sock \in Tcp
    BY DEF ScanInv, TablesOk, TableOk
  <2>3. i = 0 \/ (i \in 1..Len(tcpconn) /\ IsOf(tcpconn[i], pkt))
    BY <2>2, LookupTakes
  <2> HIDE DEF i
  <2>4. NamesOk'
    BY <2>1, NamesStay
  <2>5. ASSUME app' \notin {Null, "*", ""}
        PROVE  \E s \in Tcp, p \in Pid : IsOf(Row(s, 0), pkt) /\ <<p, s>> \in held /\ <<p, app'>> \in ran
    <3>1. i \in 1..Len(tcpconn) /\ app' = tcpconn[i].app /\ IsOf(tcpconn[i], pkt)
      BY <2>1, <2>3, <2>5
    <3>2. PICK p \in Pid : <<p, tcpconn[i].sock>> \in held /\ <<p, tcpconn[i].app>> \in ran
      BY <2>5, <3>1 DEF NameInv, NamesOk, RanAs
    <3>3. tcpconn[i].sock \in Tcp /\ IsOf(Row(tcpconn[i].sock, 0), pkt)
      BY <2>2, <3>1 DEF IsOf, Row
    <3> QED BY <3>1, <3>2, <3>3
  <2>6. NamedByHolder'
    BY <2>1, <2>5 DEF NamedByHolder, IsOf
  <2> QED BY <2>1, <2>4, <2>6 DEF NameInv, HistoryOk, HitHeld, Reading
<1>8. CASE Decide
  <2>1. at' = "end" /\ tcpconn' = << >>
    BY <1>8, DecideFrame
  <2>2. NamesOk'
    <3>1. 1..Len(tcpconn') = {}
      <4>1. Len(tcpconn') = 0
        BY <2>1
      <4> QED BY <4>1
    <3> QED BY <3>1, Zenon DEF NamesOk
  <2> QED BY <2>1, <2>2 DEF NameInv, HistoryOk, HitHeld, NamedByHolder, Opening, Reading
<1>9. CASE Done
  <2>1. at' = "idle" /\ UNCHANGED <<tcpconn, held, ran>>
    BY <1>9 DEF Done
  <2>2. NamesOk'
    BY <2>1, NamesStay
  <2> QED BY <2>1, <2>2 DEF NameInv, HistoryOk, HitHeld, NamedByHolder, Opening, Reading
<1>10. CASE UNCHANGED vars
  BY <1>10 DEF vars, NameInv, HistoryOk, NamesOk, RanAs, HitHeld, NamedByHolder, Opening, IsOf, Holding, Running
<1> QED
  BY <1>1, <1>2, <1>3, <1>4, <1>5, <1>6, <1>7, <1>8, <1>9, <1>10 DEF Next, Handle, Rescan

\* Whatever processes do between the readings, the name of a connection's first
\* packet is that of a program that ran in a process that held the connection.
THEOREM NamesAreHolders == Spec => []NamedByHolder
<1>1. NameInv => NamedByHolder
  BY DEF NameInv
<1> QED BY <1>1, ScanInit, ScanStep, NameInit, NameStep, PTL DEF Spec

-----------------------------------------------------------------------------
(* That a holder is found.                                                 *)

Kept == at \in Reading => kept \subseteq Holding(holds)

\* What was held all the while has its inode in each row of it.
KeptRows ==
  \A p \in Pid, s \in Tcp, i \in 1..Len(tcpconn) :
    at \in Reading /\ <<p, s>> \in kept /\ tcpconn[i].sock = s => tcpconn[i].inode = Inode[s]

\* The scan has been at this descriptor of this process; with its link to read
\* it has not yet.
Visited(p, s) ==
  \/ at \in {"dir", "fd", "exe"} /\ p < pid
  \/ at = "dir" /\ p = pid
  \/ at = "fd" /\ p = pid /\ s \notin listed
  \/ /\ at = "exe" /\ p = pid /\ s \notin listed
     /\ ~(hit.proto = "tcp" /\ tcpconn[hit.index].sock = s)
  \/ at = "name"

NamedRow(s) == \A i \in 1..Len(tcpconn) : tcpconn[i].sock = s => tcpconn[i].app # Null

VisitedIsNamed ==
  Comparable(tcpconn) =>
    \A p \in Pid, s \in Tcp : <<p, s>> \in kept /\ Visited(p, s) /\ ReadOnce(s) => NamedRow(s)

FoundInv == Kept /\ KeptRows /\ VisitedIsNamed /\ HolderIsFound

LEMMA FoundInit == Init => FoundInv
<1> SUFFICES ASSUME Init PROVE FoundInv
  OBVIOUS
<1>1. at = "idle"
  BY DEF Init, ConnInit
<1> QED BY <1>1 DEF FoundInv, Kept, KeptRows, VisitedIsNamed, Visited, HolderIsFound, Opening, Reading

LEMMA PidsArePositive ==
  (\A p \in Pid : p \in Nat /\ p > 0) /\ \A p \in Pid \cup {0} : p \in Nat
<1>1. \A p \in Pid : p \in Nat \ {0}
  BY Facts
<1> QED BY <1>1

\* A process that holds something is alive.
LEMMA HolderIsLive ==
  ASSUME ScanInv, FoundInv, at \in Reading, NEW p \in Pid, NEW s, <<p, s>> \in kept
  PROVE  p \in Live /\ s \in holds[p]
<1>1. <<p, s>> \in Holding(holds)
  BY DEF FoundInv, Kept
<1>2. s \in holds[p]
  BY <1>1 DEF Holding
<1> QED BY <1>2 DEF ScanInv, KernelInv, Live

\* Inodes that can be compared are compared rightly, in the table and the search.
LEMMA KeptIsFound ==
  ASSUME ScanInv, FoundInv, at = "fd", Comparable(tcpconn),
         NEW p \in Pid, NEW s \in Tcp, <<p, s>> \in kept, ReadOnce(s)
  PROVE  FindByInode(tcpconn, Inode[s]) # 0
<1>1. TableOk(tcpconn, Tcp)
  BY DEF ScanInv, TablesOk
<1>2. tcpconn \in Seq(Entry) /\ SortedPairs(tcpconn)
  BY <1>1 DEF TableOk, ScanInv, TablesOk
<1>3. Nondecreasing(tcpconn)
  BY <1>2, ComparableIsSorted
<1>4. PICK i \in 1..Len(tcpconn) : tcpconn[i].sock = s /\ tcpconn[i].inode = Inode[s]
  <2>1. PICK i \in DOMAIN tcpconn : tcpconn[i].sock = s
    BY DEF ReadOnce
  <2>2. i \in 1..Len(tcpconn)
    BY <1>2
  <2> QED BY <2>1, <2>2 DEF FoundInv, KeptRows, Reading
<1>5. Inode[s] \in Nat
  BY Facts
<1> QED BY <1>2, <1>3, <1>4, <1>5, SortedIsFound

\* A step that reads neither the table nor a descriptor.
LEMMA FoundFrame ==
  ASSUME FoundInv, UNCHANGED <<tcpconn, app, pkt>>, kept' \subseteq kept, Kept',
         held \subseteq held', ran \subseteq ran', at' \in Reading => at \in Reading,
         \A p \in Pid, s \in Tcp : <<p, s>> \in kept' /\ Visited(p, s)' => Visited(p, s),
         at' = "rules" => at = "rules"
  PROVE  FoundInv'
<1>1. KeptRows'
  BY DEF FoundInv, KeptRows
<1>2. VisitedIsNamed'
  <2>1. Comparable(tcpconn)' <=> Comparable(tcpconn)
    OBVIOUS
  <2>2. \A s : (ReadOnce(s)' <=> ReadOnce(s)) /\ (NamedRow(s)' <=> NamedRow(s))
    BY DEF ReadOnce, NamedRow
  <2> QED BY <2>1, <2>2 DEF FoundInv, VisitedIsNamed
<1>3. HolderIsFound'
  <2>1. \A s : HoldersStay(s)' => HoldersStay(s)
    BY DEF HoldersStay
  <2>2. \A s : ReadOnce(s)' <=> ReadOnce(s)
    BY DEF ReadOnce
  <2> QED BY <2>1, <2>2 DEF FoundInv, HolderIsFound, Opening, Comparable, Near, IsOf
<1> QED BY <1>1, <1>2, <1>3 DEF FoundInv

LEMMA FoundMove == ScanInv /\ FoundInv /\ Move /\ UNCHANGED packet => FoundInv'
<1> SUFFICES ASSUME ScanInv, FoundInv, Move, UNCHANGED packet PROVE FoundInv'
  OBVIOUS
<1>1. /\ UNCHANGED <<at, tcpconn, pid, listed, hit, app, pkt>>
      /\ at = "idle" => UNCHANGED <<held, kept, ran>>
      /\ at # "idle" => /\ held' = held \cup Holding(holds') /\ kept' = kept \cap Holding(holds')
                        /\ ran' = ran \cup Running(exe')
  BY MoveFrame DEF packet
<1>2. kept' \subseteq kept /\ held \subseteq held' /\ ran \subseteq ran'
  BY <1>1
<1>3. Kept'
  BY <1>1 DEF Kept, Reading, Holding
<1>4. \A p \in Pid, s \in Tcp : Visited(p, s)' => Visited(p, s)
  BY <1>1 DEF Visited
<1> QED BY <1>1, <1>2, <1>3, <1>4, FoundFrame DEF Reading

LEMMA FoundNextPid == ScanInv /\ FoundInv /\ NextPid /\ UNCHANGED packet => FoundInv'
<1> SUFFICES ASSUME ScanInv, FoundInv, NextPid, UNCHANGED packet PROVE FoundInv'
  OBVIOUS
<1>1. /\ at = "dir" /\ at' = "fd" /\ UNCHANGED <<exe, holds, tcpconn, kept, held, ran, app, pkt>>
      /\ pid' \in Live /\ pid' > pid /\ listed' = holds[pid']
      /\ \A q \in Live : q > pid => pid' <= q
  BY DEF NextPid, packet, kernel, tables, history
<1>2. Kept'
  BY <1>1 DEF FoundInv, Kept, Reading, Holding
<1>3. ASSUME NEW p \in Pid, NEW s \in Tcp, <<p, s>> \in kept', Visited(p, s)' PROVE Visited(p, s)
  <2>1. p \in Live /\ s \in holds[p]
    BY <1>1, <1>3, HolderIsLive DEF Reading
  <2>2. p < pid'
    BY <1>1, <1>3, <2>1 DEF Visited
  <2>3. p \in Nat /\ pid \in Nat /\ pid' \in Nat
    <3>1. pid \in Pid \cup {0} /\ pid' \in Pid
      BY <1>1 DEF ScanInv, PlaceOk, Live
    <3> QED BY <3>1, PidsArePositive
  <2>4. ~(p > pid)
    BY <1>1, <2>1, <2>2, <2>3
  <2>5. p < pid \/ p = pid
    BY <2>3, <2>4
  <2> QED BY <1>1, <2>5 DEF Visited
<1> QED BY <1>1, <1>2, <1>3, FoundFrame DEF Reading

LEMMA FoundLastPid == ScanInv /\ FoundInv /\ LastPid /\ UNCHANGED packet => FoundInv'
<1> SUFFICES ASSUME ScanInv, FoundInv, LastPid, UNCHANGED packet PROVE FoundInv'
  OBVIOUS
<1>1. /\ at = "dir" /\ at' = "name" /\ UNCHANGED <<exe, holds, tcpconn, kept, held, ran, app, pkt>>
      /\ \A q \in Live : q <= pid
  BY DEF LastPid, packet, kernel, tables, history
<1>2. Kept'
  BY <1>1 DEF FoundInv, Kept, Reading, Holding
<1>3. ASSUME NEW p \in Pid, NEW s \in Tcp, <<p, s>> \in kept' PROVE Visited(p, s)
  <2>1. p \in Live
    BY <1>1, <1>3, HolderIsLive DEF Reading
  <2>2. p \in Nat /\ pid \in Nat /\ p <= pid
    <3>1. pid \in Pid \cup {0} /\ p <= pid
      BY <1>1, <2>1 DEF ScanInv, PlaceOk
    <3> QED BY <3>1, PidsArePositive
  <2>3. p < pid \/ p = pid
    BY <2>2
  <2> QED BY <1>1, <2>3 DEF Visited
<1> QED BY <1>1, <1>2, <1>3, FoundFrame DEF Reading

LEMMA FoundStat ==
  ASSUME ScanInv, FoundInv, NEW s, StatFd(s), UNCHANGED packet
  PROVE  FoundInv'
<1>1. /\ at = "fd" /\ s \in listed /\ listed' = listed \ {s} /\ s \in Socket
      /\ UNCHANGED <<exe, holds, tcpconn, kept, held, ran, pid, app, pkt>>
      /\ \/ at' = "fd" /\ (s \notin holds[pid] \/ FindByInode(tcpconn, Inode[s]) = 0)
         \/ at' = "exe" /\ hit'.proto = "tcp" /\ tcpconn[hit'.index].sock = s
         \/ at' = "exe" /\ hit'.proto = "udp" /\ FindByInode(tcpconn, Inode[s]) = 0
  BY StatOutcome DEF packet, kernel, tables, history
<1>2. Kept'
  BY <1>1 DEF FoundInv, Kept, Reading, Holding
<1>3. KeptRows'
  BY <1>1 DEF FoundInv, KeptRows, Reading
<1>4. HolderIsFound'
  BY <1>1 DEF HolderIsFound, Opening
<1>5. VisitedIsNamed'
  <2> SUFFICES ASSUME Comparable(tcpconn), NEW p \in Pid, NEW r \in Tcp, <<p, r>> \in kept, Visited(p, r)', ReadOnce(r)
               PROVE  NamedRow(r)
    BY <1>1 DEF VisitedIsNamed, NamedRow, ReadOnce
  <2>1. CASE Visited(p, r)
    BY <2>1 DEF FoundInv, VisitedIsNamed
  <2>2. CASE ~Visited(p, r)
    <3>1. p = pid /\ r = s /\ (at' = "exe" => ~(hit'.proto = "tcp" /\ tcpconn[hit'.index].sock = s))
      BY <1>1, <2>2 DEF Visited
    <3>2. r \in holds[p]
      BY <1>1, HolderIsLive DEF Reading
    <3>3. FindByInode(tcpconn, Inode[r]) # 0
      BY <1>1, KeptIsFound
    <3> QED BY <1>1, <3>1, <3>2, <3>3
  <2> QED BY <2>1, <2>2
<1> QED BY <1>2, <1>3, <1>4, <1>5 DEF FoundInv

LEMMA FoundLink == ScanInv /\ FoundInv /\ ReadLink /\ UNCHANGED packet => FoundInv'
<1> SUFFICES ASSUME ScanInv, FoundInv, ReadLink, UNCHANGED packet PROVE FoundInv'
  OBVIOUS
<1>1. /\ at = "exe" /\ at' = "fd" /\ pid \in Pid /\ UNCHANGED <<exe, holds, kept, held, ran, pid, listed, app, pkt>>
      /\ \/ /\ hit.proto = "tcp" /\ hit.index \in 1..Len(tcpconn)
            /\ tcpconn' = NameOnce(tcpconn, hit.index, LinkText(pid))
         \/ hit.proto = "udp" /\ tcpconn' = tcpconn
  BY LinkOutcome DEF packet, kernel, tables, history
<1>2. Kept'
  BY <1>1 DEF FoundInv, Kept, Reading, Holding
<1>3. CASE hit.proto = "udp" /\ tcpconn' = tcpconn
  <2>1. hit.proto # "tcp"
    BY <1>3
  <2>2. \A p \in Pid, s \in Tcp : <<p, s>> \in kept' /\ Visited(p, s)' => Visited(p, s)
    BY <1>1, <2>1 DEF Visited
  <2> QED BY <1>1, <1>2, <1>3, <2>2, FoundFrame DEF Reading
<1>4. CASE /\ hit.proto = "tcp" /\ hit.index \in 1..Len(tcpconn)
           /\ tcpconn' = NameOnce(tcpconn, hit.index, LinkText(pid))
  <2>1. LinkText(pid) \in Name /\ LinkText(pid) # Null
    BY <1>1, LinkIsName DEF ScanInv
  <2>2. TableOk(tcpconn, Tcp)
    BY DEF ScanInv, TablesOk
  <2>3. /\ TableOk(tcpconn', Tcp) /\ Len(tcpconn') = Len(tcpconn)
        /\ \A j \in 1..Len(tcpconn) :
             /\ tcpconn'[j].sock = tcpconn[j].sock /\ tcpconn'[j].inode = tcpconn[j].inode
             /\ tcpconn'[j].app = IF j = hit.index /\ tcpconn[j].app = Null THEN LinkText(pid) ELSE tcpconn[j].app
    BY <1>4, <2>1, <2>2, NamedTable
  <2>4. DOMAIN tcpconn = 1..Len(tcpconn) /\ DOMAIN tcpconn' = 1..Len(tcpconn)
    BY <2>2, <2>3 DEF TableOk
  <2>5. Comparable(tcpconn') => Comparable(tcpconn)
    BY <2>3, <2>4 DEF Comparable
  <2>6. \A s \in Tcp : NamedRow(s) => NamedRow(s)'
    BY <2>1, <2>3 DEF NamedRow
  <2>7. ASSUME NEW s \in Tcp, s = tcpconn[hit.index].sock, ReadOnce(s) PROVE NamedRow(s)'
    <3>1. \A i \in 1..Len(tcpconn) : tcpconn[i].sock = s => i = hit.index
      BY <1>4, <2>4, <2>7 DEF ReadOnce
    <3> QED BY <2>1, <2>3, <3>1 DEF NamedRow
  <2>8. \A s \in Tcp : ReadOnce(s)' => ReadOnce(s)
    BY <2>3, <2>4 DEF ReadOnce
  <2>9. KeptRows'
    BY <1>1, <2>3 DEF FoundInv, KeptRows, Reading
  <2>10. VisitedIsNamed'
    <3> SUFFICES ASSUME Comparable(tcpconn'), NEW p \in Pid, NEW s \in Tcp, <<p, s>> \in kept, Visited(p, s)', ReadOnce(s)
                 PROVE  NamedRow(s)'
      BY <1>1, <2>8 DEF VisitedIsNamed
    <3>1. CASE Visited(p, s)
      BY <2>5, <2>6, <3>1 DEF FoundInv, VisitedIsNamed
    <3>2. CASE ~Visited(p, s)
      <4>1. s = tcpconn[hit.index].sock
        BY <1>1, <3>2 DEF Visited
      <4> QED BY <2>7, <4>1
    <3> QED BY <3>1, <3>2
  <2>11. HolderIsFound'
    BY <1>1 DEF HolderIsFound, Opening
  <2> QED BY <1>2, <2>9, <2>10, <2>11 DEF FoundInv
<1> QED BY <1>1, <1>3, <1>4

LEMMA FoundLookup == ScanInv /\ NameInv /\ FoundInv /\ Lookup => FoundInv'
<1> SUFFICES ASSUME ScanInv, NameInv, FoundInv, Lookup PROVE FoundInv'
  OBVIOUS
<1> DEFINE i == SelectInSeq(tcpconn, LAMBDA row : IsOf(row, pkt))
<1>1. /\ app' = IF i = 0 THEN Null ELSE IF tcpconn[i].app = Null THEN "*" ELSE tcpconn[i].app
      /\ at = "name" /\ at' = "rules" /\ UNCHANGED <<tcpconn, kept, held, ran, pkt>>
  BY DEF Lookup, tables, history
<1>2. tcpconn \in Seq(Entry) /\ \A j \in 1..Len(tcpconn) : tcpconn[j].sock \in Tcp
  BY DEF ScanInv, TablesOk, TableOk
<1>3. \/ i = 0 /\ \A j \in 1..Len(tcpconn) : ~IsOf(tcpconn[j], pkt)
      \/ i \in 1..Len(tcpconn) /\ IsOf(tcpconn[i], pkt)
  BY <1>2, LookupTakes
<1> HIDE DEF i
<1>4. ASSUME Comparable(tcpconn), NEW s \in Tcp \ Listening, NEW p \in Pid, IsOf(Row(s, 0), pkt), <<p, s>> \in kept,
             ReadOnce(s), HoldersStay(s)
      PROVE  app' \notin {Null, "*", ""}
  <2>1. PICK j \in 1..Len(tcpconn) : tcpconn[j].sock = s
    <3>1. DOMAIN tcpconn = 1..Len(tcpconn)
      BY <1>2
    <3> QED BY <1>4, <3>1 DEF ReadOnce
  <2>2. IsOf(tcpconn[j], pkt)
    BY <1>4, <2>1 DEF IsOf, Row
  <2>3. i \in 1..Len(tcpconn) /\ IsOf(tcpconn[i], pkt)
    BY <1>3, <2>2
  <2>4. Addr[s] = Addr[tcpconn[i].sock]
    BY <1>4, <2>3 DEF IsOf, Row
  <2>5. tcpconn[i].sock = s
    BY <1>2, <2>3, <2>4, IntakeAssumption DEF IntakeAssumption
  <2>6. NamedRow(s)
    BY <1>1, <1>4 DEF FoundInv, VisitedIsNamed, Visited
  <2>7. tcpconn[i].app # Null
    BY <2>3, <2>5, <2>6 DEF NamedRow
  <2>8. tcpconn[i] \in Entry
    BY <1>2, <2>3
  <2>9. tcpconn[i].app \in Exe \cup {Null, "", "resident"}
    BY <2>8 DEF Entry
  <2>10. tcpconn[i].app # "*"
    BY <2>9, Facts DEF Null
  <2>11. i # 0
    BY <2>3
  <2>12. tcpconn[i].app # ""
    <3>1. PICK q \in Pid : <<q, s>> \in held /\ RanAs(q, tcpconn[i].app)
      BY <2>3, <2>5, <2>7 DEF NameInv, NamesOk
    <3>2. <<q, Gone>> \notin ran
      BY <1>4, <3>1 DEF HoldersStay
    <3> QED BY <3>1, <3>2 DEF RanAs
  <2> QED BY <1>1, <2>7, <2>10, <2>11, <2>12
<1>5. HolderIsFound'
  BY <1>1, <1>4 DEF HolderIsFound, HoldersStay, ReadOnce, Comparable, Near, IsOf
<1> QED BY <1>1, <1>5 DEF FoundInv, Kept, KeptRows, VisitedIsNamed, Visited, Reading

LEMMA FoundStep == ScanInv /\ NameInv /\ FoundInv /\ [Next]_vars => FoundInv'
<1> SUFFICES ASSUME ScanInv, NameInv, FoundInv, [Next]_vars PROVE FoundInv'
  OBVIOUS
<1> USE DEF kernel, tables, locals, history, packet
<1>1. ASSUME (\E s \in Tcp \ Listening : Connect(s)) \/ (\E p \in Strays : Receive(p)) PROVE FoundInv'
  <2>1. PICK p : Receive(p) /\ (p \in Packet \/ (p.proto = "tcp" /\ p.opens))
    BY <1>1, ReceivedIsPacket
  <2>2. ~Opening'
    BY <2>1, NoScanNoOpening
  <2>3. /\ at' \in {"pids", "rules"} /\ UNCHANGED holds
        /\ at' = "pids" => kept' = Holding(holds)
    BY <2>1, ReceiveFrame
  <2>4. Kept'
    BY <2>3 DEF Kept, Reading, Holding
  <2>5. 1..Len(tcpconn') = {}
    <3>1. tcpconn' = << >>
      BY <2>1, ReceiveFrame DEF ScanInv, PlaceOk
    <3>2. Len(tcpconn') = 0
      BY <3>1
    <3> QED BY <3>2
  <2>6. KeptRows'
    BY <2>5, Zenon DEF KeptRows
  <2> QED BY <2>2, <2>3, <2>4, <2>6 DEF FoundInv, VisitedIsNamed, Visited, HolderIsFound
<1>2. CASE PidExeScan /\ UNCHANGED packet
  <2>1. /\ at = "pids" /\ at' = "tcp" /\ UNCHANGED <<exe, holds, tcpconn, kept, held, ran, app, pkt>>
    BY <1>2 DEF PidExeScan
  <2>2. Kept'
    BY <2>1 DEF FoundInv, Kept, Reading, Holding
  <2> QED BY <2>1, <2>2 DEF FoundInv, KeptRows, VisitedIsNamed, Visited, HolderIsFound, Opening, Reading
<1>3. CASE ReadTcp /\ UNCHANGED packet
  <2>1. /\ at = "tcp" /\ at' \in {"tcp", "udp"} /\ UNCHANGED <<exe, holds, orphans, pid, kept>>
        /\ \/ /\ Len(tcpconn') = Len(tcpconn) + 1 /\ tcpconn'[Len(tcpconn) + 1] \in Rows(Tcp)
              /\ \A i \in 1..Len(tcpconn) : tcpconn'[i] = tcpconn[i]
           \/ \A i \in 1..Len(tcpconn') : \E j \in 1..Len(tcpconn) : tcpconn'[i] = tcpconn[j]
    <3>1. at = "tcp"
      BY <1>3 DEF ReadTcp
    <3> QED BY <1>3, <3>1, ReadOutcome
  <2>2. Kept'
    BY <2>1 DEF FoundInv, Kept, Reading, Holding
  <2>3. ASSUME NEW p \in Pid, NEW s \in Tcp, <<p, s>> \in kept, NEW row \in Rows(Tcp), row.sock = s
        PROVE  row.inode = Inode[s]
    <3>1. s \in holds[p] /\ s \notin orphans
      BY <2>1, <2>3, HolderIsLive DEF Reading, ScanInv, KernelInv
    <3>2. row.inode = Inode[row.sock] \/ row.sock \in orphans
      BY Facts, RowIs
    <3> QED BY <2>3, <3>1, <3>2
  <2>4. KeptRows'
    <3> SUFFICES ASSUME NEW p \in Pid, NEW s \in Tcp, NEW i \in 1..Len(tcpconn'), <<p, s>> \in kept,
                        tcpconn'[i].sock = s
                 PROVE  tcpconn'[i].inode = Inode[s]
      BY <2>1 DEF KeptRows
    <3>1. Len(tcpconn) \in Nat
      <4>1. tcpconn \in Seq(Entry)
        BY DEF ScanInv, TablesOk, TableOk
      <4> QED BY <4>1
    <3>2. (\E j \in 1..Len(tcpconn) : tcpconn'[i] = tcpconn[j]) \/ tcpconn'[i] \in Rows(Tcp)
      <4>1. CASE /\ Len(tcpconn') = Len(tcpconn) + 1 /\ tcpconn'[Len(tcpconn) + 1] \in Rows(Tcp)
                 /\ \A j \in 1..Len(tcpconn) : tcpconn'[j] = tcpconn[j]
        <5>1. i \in 1..Len(tcpconn) \/ i = Len(tcpconn) + 1
          BY <3>1, <4>1
        <5> QED BY <4>1, <5>1
      <4> QED BY <2>1, <4>1
    <3> QED BY <2>1, <2>3, <3>2 DEF FoundInv, KeptRows, Reading
  <2>5. \A p \in Pid, s \in Tcp : ~Visited(p, s)'
    BY <2>1 DEF Visited
  <2> QED BY <2>1, <2>2, <2>4, <2>5 DEF FoundInv, VisitedIsNamed, HolderIsFound, Opening
<1>4. CASE ReadUdp /\ UNCHANGED packet
  <2>1. /\ at = "udp" /\ at' \in {"udp", "dir"} /\ UNCHANGED <<exe, holds, tcpconn, pid, kept, held, ran, app, pkt>>
    BY <1>4 DEF ReadUdp
  <2>2. Kept'
    BY <2>1 DEF FoundInv, Kept, Reading, Holding
  <2>3. \A p \in Pid, s \in Tcp : ~Visited(p, s)'
    <3>1. pid' = 0
      BY <2>1 DEF ScanInv, PlaceOk
    <3> QED BY <2>1, <3>1, PidsArePositive DEF Visited
  <2> QED BY <2>1, <2>2, <2>3, FoundFrame DEF Reading
<1>5. CASE EndFds /\ UNCHANGED packet
  <2>1. /\ at = "fd" /\ at' = "dir" /\ listed = {} /\ UNCHANGED <<exe, holds, tcpconn, pid, kept, held, ran, app, pkt>>
    BY <1>5 DEF EndFds
  <2>2. Kept'
    BY <2>1 DEF FoundInv, Kept, Reading, Holding
  <2>3. \A p \in Pid, s \in Tcp : Visited(p, s)' => Visited(p, s)
    BY <2>1 DEF Visited
  <2> QED BY <2>1, <2>2, <2>3, FoundFrame DEF Reading
<1>6. CASE Decide \/ Done
  <2>1. at' \in {"end", "idle"}
    BY <1>6 DEF Decide, Done
  <2> QED BY <2>1 DEF FoundInv, Kept, KeptRows, VisitedIsNamed, Visited, HolderIsFound, Opening, Reading
<1>7. CASE UNCHANGED vars
  <2>1. UNCHANGED <<at, holds, tcpconn, pid, listed, hit, kept, held, ran, app, pkt>>
    BY <1>7 DEF vars
  <2>2. Kept'
    BY <2>1 DEF FoundInv, Kept, Holding
  <2>3. \A p \in Pid, s \in Tcp : Visited(p, s)' => Visited(p, s)
    BY <2>1 DEF Visited
  <2> QED BY <2>1, <2>2, <2>3, FoundFrame DEF Reading
<1> QED
  BY <1>1, <1>2, <1>3, <1>4, <1>5, <1>6, <1>7,
     FoundMove, FoundNextPid, FoundLastPid, FoundStat, FoundLink, FoundLookup
  DEF Next, Handle, Rescan

\* A connection that one process holds while the scan runs gets the name of an
\* executable, unless two inodes of the table are too far apart for the sort, its
\* row was not read exactly once, or a process that held it was gone meanwhile.
THEOREM HoldersAreFound == Spec => []HolderIsFound
<1>1. FoundInv => HolderIsFound
  BY DEF FoundInv
<1> QED BY <1>1, ScanInit, ScanStep, NameInit, NameStep, FoundInit, FoundStep, PTL DEF Spec

-----------------------------------------------------------------------------
(* The masks.                                                              *)

\* Doubling up to k: what a prefix of Pow2 is.
Doubles(g, k) == \A n \in 0..k : g[n] = IF n = 0 THEN 1 ELSE 2 * g[n - 1]

LEMMA DoublesExist == \A k \in Nat : \E g : Doubles(g, k)
<1> DEFINE Bad == {k \in Nat : ~ \E g : Doubles(g, k)}
<1> SUFFICES ASSUME Bad # {} PROVE FALSE
  OBVIOUS
<1>1. PICK m \in Bad : \A k \in Bad : m <= k
  BY LeastNumber
<1>2. CASE m = 0
  <2>1. Doubles([n \in 0..0 |-> 1], 0)
    BY DEF Doubles
  <2> QED BY <1>2, <2>1
<1>3. CASE m # 0
  <2>1. m \in Nat /\ m - 1 \in Nat /\ m - 1 \notin Bad
    BY <1>1, <1>3
  <2>2. PICK g : Doubles(g, m - 1)
    BY <2>1
  <2> DEFINE h == [n \in 0..m |-> IF n = m THEN 2 * g[m - 1] ELSE g[n]]
  <2>3. Doubles(h, m)
    <3> SUFFICES ASSUME NEW n \in 0..m PROVE h[n] = IF n = 0 THEN 1 ELSE 2 * h[n - 1]
      BY DEF Doubles
    <3>1. CASE n = m
      BY <2>1, <3>1, <1>3
    <3>2. CASE n # m
      <4>1. n \in 0..(m - 1) /\ (n # 0 => n - 1 \in 0..m /\ n - 1 # m)
        BY <2>1, <3>2
      <4>2. g[n] = IF n = 0 THEN 1 ELSE 2 * g[n - 1]
        BY <4>1, <2>2 DEF Doubles
      <4> QED BY <4>1, <4>2, <3>2
    <3> QED BY <3>1, <3>2
  <2> QED BY <2>3
<1> QED BY <1>2, <1>3

LEMMA DoublesAgree ==
  ASSUME NEW k \in Nat, NEW g, NEW h, Doubles(g, k), Doubles(h, k)
  PROVE  g[k] = h[k]
<1> DEFINE Bad == {n \in Nat : n <= k /\ g[n] # h[n]}
<1>1. Bad = {}
  <2> SUFFICES ASSUME Bad # {} PROVE FALSE
    OBVIOUS
  <2>1. PICK m \in Bad : \A n \in Bad : m <= n
    BY LeastNumber
  <2>2. m \in 0..k /\ g[m] # h[m] /\ (m # 0 => m - 1 \in Nat /\ m - 1 <= k /\ m - 1 \notin Bad)
    BY <2>1
  <2>3. m # 0 => g[m - 1] = h[m - 1]
    BY <2>2
  <2> QED BY <2>2, <2>3 DEF Doubles
<1> QED BY <1>1

LEMMA DoublesShorter ==
  ASSUME NEW k \in Nat, NEW m \in Nat, m <= k, NEW g, Doubles(g, k)
  PROVE  Doubles(g, m)
BY DEF Doubles

LEMMA Pow2Is == Pow2[0] = 1 /\ \A n \in Nat : Pow2[n + 1] = 2 * Pow2[n]
<1> DEFINE G(n) == CHOOSE g : Doubles(g, n)
           F == [n \in Nat |-> G(n)[n]]
<1>1. \A n \in Nat : Doubles(G(n), n)
  BY DoublesExist, Zenon
<1> HIDE DEF G
<1>2. \A n \in Nat : G(n)[n] = IF n = 0 THEN 1 ELSE 2 * G(n - 1)[n - 1]
  <2> TAKE n \in Nat
  <2>1. Doubles(G(n), n)
    BY <1>1
  <2>2. G(n)[n] = IF n = 0 THEN 1 ELSE 2 * G(n)[n - 1]
    BY <2>1 DEF Doubles
  <2>3. CASE n = 0
    BY <2>2, <2>3
  <2>4. CASE n # 0
    <3>1. n - 1 \in Nat /\ n - 1 <= n
      BY <2>4
    <3>2. Doubles(G(n), n - 1) /\ Doubles(G(n - 1), n - 1)
      BY <1>1, <2>1, <3>1, DoublesShorter
    <3>3. G(n)[n - 1] = G(n - 1)[n - 1]
      BY <3>1, <3>2, DoublesAgree
    <3> QED BY <2>2, <2>4, <3>3
  <2> QED BY <2>3, <2>4
<1>3. F = [n \in Nat |-> IF n = 0 THEN 1 ELSE 2 * F[n - 1]]
  <2>1. \A n \in Nat : n # 0 => n - 1 \in Nat
    OBVIOUS
  <2> QED BY <1>2, <2>1
<1>4. Pow2 = [n \in Nat |-> IF n = 0 THEN 1 ELSE 2 * Pow2[n - 1]]
  <2> HIDE DEF F
  <2> QED BY <1>3, Zenon DEF Pow2
<1>5. Pow2[0] = 1
  BY <1>4
<1>6. ASSUME NEW n \in Nat PROVE Pow2[n + 1] = 2 * Pow2[n]
  <2>1. n + 1 \in Nat /\ n + 1 # 0 /\ (n + 1) - 1 = n
    OBVIOUS
  <2> QED BY <1>4, <2>1
<1> QED BY <1>5, <1>6

LEMMA Pow2Type == \A n \in Nat : Pow2[n] \in Nat /\ Pow2[n] > 0
<1> DEFINE Bad == {n \in Nat : ~(Pow2[n] \in Nat /\ Pow2[n] > 0)}
<1>1. Bad = {}
  <2> SUFFICES ASSUME Bad # {} PROVE FALSE
    OBVIOUS
  <2>1. PICK m \in Bad : \A n \in Bad : m <= n
    BY LeastNumber
  <2>2. m # 0
    BY <2>1, Pow2Is
  <2>3. m - 1 \in Nat /\ m - 1 \notin Bad /\ (m - 1) + 1 = m
    BY <2>1, <2>2
  <2>4. Pow2[m] = 2 * Pow2[m - 1]
    BY <2>3, Pow2Is
  <2> QED BY <2>1, <2>3, <2>4
<1> QED BY <1>1

LEMMA Pow2Sum == \A a, b \in Nat : Pow2[a + b] = Pow2[a] * Pow2[b]
<1> SUFFICES ASSUME NEW a \in Nat PROVE \A b \in Nat : Pow2[a + b] = Pow2[a] * Pow2[b]
  OBVIOUS
<1> DEFINE Bad == {b \in Nat : Pow2[a + b] # Pow2[a] * Pow2[b]}
<1>1. Bad = {}
  <2> SUFFICES ASSUME Bad # {} PROVE FALSE
    OBVIOUS
  <2>1. PICK m \in Bad : \A n \in Bad : m <= n
    BY LeastNumber
  <2>2. m # 0
    BY <2>1, Pow2Is, Pow2Type
  <2>3. m - 1 \in Nat /\ m - 1 \notin Bad /\ (m - 1) + 1 = m /\ (a + (m - 1)) + 1 = a + m /\ a + (m - 1) \in Nat
    BY <2>1, <2>2
  <2>4. Pow2[m] = 2 * Pow2[m - 1] /\ Pow2[a + m] = 2 * Pow2[a + (m - 1)]
    BY <2>3, Pow2Is
  <2>5. Pow2[a + (m - 1)] = Pow2[a] * Pow2[m - 1]
    BY <2>3
  <2>6. Pow2[a] \in Nat /\ Pow2[m - 1] \in Nat
    BY <2>3, Pow2Type
  <2>7. 2 * (Pow2[a] * Pow2[m - 1]) = Pow2[a] * (2 * Pow2[m - 1])
    BY <2>6
  <2> QED BY <2>1, <2>4, <2>5, <2>7
<1> QED BY <1>1

LEMMA DivIs ==
  ASSUME NEW x \in Nat, NEW d \in Nat, d > 0, NEW q \in Nat, NEW r \in Nat, r < d, x = q * d + r
  PROVE  x \div d = q /\ x % d = r
OBVIOUS

LEMMA DivSplits ==
  ASSUME NEW x \in Nat, NEW d \in Nat, d > 0
  PROVE  x = (x \div d) * d + (x % d) /\ x % d < d /\ x \div d \in Nat /\ x % d \in Nat
OBVIOUS

LEMMA BitSplits ==
  ASSUME NEW x \in Nat, NEW i \in Nat
  PROVE  /\ x \div Pow2[i] \in Nat /\ x \div Pow2[i + 1] \in Nat /\ Bit(x, i) \in {0, 1}
         /\ x \div Pow2[i] = 2 * (x \div Pow2[i + 1]) + Bit(x, i)
<1> DEFINE p == Pow2[i]
           q == x \div p
           r == x % p
           k == q \div 2
           b == q % 2
<1>1. p \in Nat /\ p > 0 /\ Pow2[i + 1] = 2 * p
  BY Pow2Is, Pow2Type
<1> HIDE DEF p
<1>2. x = q * p + r /\ r < p /\ q \in Nat /\ r \in Nat
  BY <1>1, DivSplits
<1> HIDE DEF q, r
<1>3. q = 2 * k + b /\ b \in {0, 1} /\ k \in Nat
  BY <1>2
<1> HIDE DEF k, b
<1>4. x = k * (2 * p) + (b * p + r)
  <2>1. q * p = k * (2 * p) + b * p
    BY <1>1, <1>2, <1>3
  <2> QED BY <2>1, <1>1, <1>2, <1>3
<1>5. b * p + r < 2 * p /\ b * p + r \in Nat
  BY <1>1, <1>2, <1>3
<1> DEFINE d == 2 * p
           s == b * p + r
<1>6. d \in Nat /\ d > 0 /\ s \in Nat /\ s < d /\ x = k * d + s
  BY <1>1, <1>4, <1>5
<1> HIDE DEF d, s
<1>7. x \div d = k
  BY <1>3, <1>6, DivIs
<1>8. Bit(x, i) = b
  BY DEF Bit, b, q, p
<1> QED BY <1>1, <1>2, <1>3, <1>7, <1>8 DEF d, q, p

LEMMA BitsType == GroupBits \in Nat \ {0} /\ Bits \in Nat /\ Bits = 2 * GroupBits /\ Ones \in Nat /\ Pow2[Bits] = Ones + 1
<1>1. GroupBits \in Nat \ {0} /\ Bits \in Nat /\ Bits = 2 * GroupBits
  BY MatchAssumption DEF MatchAssumption, Bits
<1>2. Pow2[Bits] \in Nat /\ Pow2[Bits] > 0
  BY <1>1, Pow2Type
<1> QED BY <1>1, <1>2 DEF Ones

\* Two addresses have the same bits from k on if they have the same quotient.
LEMMA HighBits ==
  ASSUME NEW x \in Address, NEW y \in Address
  PROVE  \A k \in 0..Bits :
           (\A i \in k..(Bits - 1) : Bit(x, i) = Bit(y, i)) <=> x \div Pow2[k] = y \div Pow2[k]
<1> DEFINE Same(k) == \A i \in k..(Bits - 1) : Bit(x, i) = Bit(y, i)
           Equal(k) == x \div Pow2[k] = y \div Pow2[k]
           Bad == {j \in Nat : j <= Bits /\ ~(Same(Bits - j) <=> Equal(Bits - j))}
<1>1. Bits \in Nat /\ x \in Nat /\ y \in Nat /\ x < Pow2[Bits] /\ y < Pow2[Bits] /\ Pow2[Bits] \in Nat /\ Pow2[Bits] > 0
  BY BitsType DEF Address
<1>2. Bad = {}
  <2> SUFFICES ASSUME Bad # {} PROVE FALSE
    OBVIOUS
  <2>1. PICK m \in Bad : \A n \in Bad : m <= n
    BY LeastNumber
  <2>2. m \in Nat /\ m <= Bits /\ ~(Same(Bits - m) <=> Equal(Bits - m))
    BY <2>1
  <2>3. CASE m = 0
    <3> DEFINE w == Pow2[Bits]
    <3>1. w \in Nat /\ w > 0 /\ x < w /\ y < w /\ x = 0 * w + x /\ y = 0 * w + y
      BY <1>1
    <3> HIDE DEF w
    <3>2. x \div w = 0 /\ y \div w = 0
      BY <1>1, <3>1, DivIs
    <3>3. Equal(Bits)
      BY <3>2 DEF w
    <3>4. Same(Bits)
      BY <1>1
    <3>5. Bits - m = Bits
      BY <1>1, <2>3
    <3> HIDE DEF Same, Equal
    <3> QED BY <2>2, <3>3, <3>4, <3>5
  <2>4. CASE m # 0
    <3> DEFINE k == Bits - m
    <3>1. k \in Nat /\ k + 1 \in 0..Bits /\ k < Bits /\ m - 1 \in Nat /\ m - 1 <= Bits /\ k + 1 = Bits - (m - 1) /\ m - 1 < m
      BY <1>1, <2>2, <2>4
    <3>2. Same(k + 1) <=> Equal(k + 1)
      <4>1. m - 1 \notin Bad
        <5> HIDE DEF Bad
        <5> QED BY <2>1, <2>2, <3>1
      <4> HIDE DEF Same, Equal, k
      <4> QED BY <3>1, <4>1
    <3> HIDE DEF k
    <3>3. Same(k) <=> (Same(k + 1) /\ Bit(x, k) = Bit(y, k))
      BY <3>1, <1>1
    <3>4. Equal(k) <=> (Equal(k + 1) /\ Bit(x, k) = Bit(y, k))
      <4> DEFINE A == x \div Pow2[k + 1]
                 B == y \div Pow2[k + 1]
                 a == Bit(x, k)
                 b == Bit(y, k)
      <4>1. A \in Nat /\ B \in Nat /\ a \in {0, 1} /\ b \in {0, 1}
            /\ x \div Pow2[k] = 2 * A + a /\ y \div Pow2[k] = 2 * B + b
        BY <1>1, <3>1, BitSplits
      <4> HIDE DEF A, B, a, b
      <4>2. 2 * A + a = 2 * B + b <=> A = B /\ a = b
        BY <4>1
      <4> QED BY <4>1, <4>2 DEF A, B, a, b
    <3> HIDE DEF Same, Equal
    <3> QED BY <2>2, <3>2, <3>3, <3>4 DEF k
  <2> QED BY <2>3, <2>4
<1>3. \A k \in 0..Bits : Same(k) <=> Equal(k)
  <2> TAKE k \in 0..Bits
  <2>1. Bits - k \in Nat /\ Bits - k <= Bits /\ Bits - (Bits - k) = k
    BY <1>1
  <2> HIDE DEF Same, Equal
  <2> QED BY <1>2, <2>1
<1> QED BY <1>3

\* The mask of m bits: the upper m.
LEMMA MaskBits ==
  ASSUME NEW m \in 1..Bits, NEW undef
  PROVE  \A i \in 0..(Bits - 1) : Bit(Mask(m, undef), i) = 1 <=> i >= Bits - m
<1> DEFINE c == Bits - m
           M == (Pow2[m] - 1) * Pow2[c]
<1>1. Bits \in Nat /\ m \in Nat /\ m - 1 \in Nat /\ c \in Nat /\ c + m = Bits /\ m # 0 /\ (m - 1) + 1 = m
  BY BitsType
<1> HIDE DEF c
<1>2. /\ Pow2[m] \in Nat /\ Pow2[m] > 0 /\ Pow2[c] \in Nat /\ Pow2[c] > 0
      /\ Pow2[m] = 2 * Pow2[m - 1] /\ Pow2[Bits] = Pow2[c] * Pow2[m] /\ Pow2[Bits] \in Nat /\ Pow2[Bits] > 0
  BY <1>1, Pow2Type, Pow2Is, Pow2Sum
<1>3. M \in Nat /\ M < Pow2[Bits]
  <2>1. (Pow2[m] - 1) * Pow2[c] = Pow2[c] * Pow2[m] - Pow2[c]
    BY <1>2
  <2>2. M \in Nat
    BY <1>2
  <2> QED BY <1>2, <2>1, <2>2
<1>4. Mask(m, undef) = M
  <2>1. Mask(m, undef) = M % Pow2[Bits]
    BY <1>1, <1>2 DEF Mask, c
  <2> DEFINE w == Pow2[Bits]
  <2> HIDE DEF M
  <2>2. w \in Nat /\ w > 0 /\ M < w /\ M = 0 * w + M
    BY <1>2, <1>3
  <2> HIDE DEF w
  <2>3. M % w = M
    BY <1>3, <2>2, DivIs
  <2> QED BY <2>1, <2>3 DEF w
<1>5. ASSUME NEW i \in 0..(Bits - 1), i < c PROVE Bit(M, i) = 0
  <2> DEFINE e == c - (i + 1)
             p == Pow2[i]
             f == Pow2[e]
             u == Pow2[m] - 1
  <2>1. i \in Nat /\ e \in Nat /\ c = (i + 1) + e
    BY <1>1, <1>5
  <2> HIDE DEF e
  <2>2. p \in Nat /\ p > 0 /\ f \in Nat /\ u \in Nat /\ Pow2[c] = (2 * p) * f
    <3>1. Pow2[c] = Pow2[i + 1] * Pow2[e] /\ Pow2[i + 1] = 2 * Pow2[i]
      BY <2>1, Pow2Sum, Pow2Is
    <3> QED BY <1>2, <2>1, <3>1, Pow2Type
  <2>3. M = u * ((2 * p) * f)
    BY <2>2
  <2> HIDE DEF p, f, u, M
  <2>4. u * f \in Nat
    BY <2>2
  <2> DEFINE v == u * f
  <2>5. M = (2 * v) * p + 0
    BY <2>2, <2>3
  <2> HIDE DEF v
  <2>6. v \in Nat /\ 2 * v \in Nat
    BY <2>4 DEF v
  <2>7. M \div p = 2 * v
    BY <1>3, <2>2, <2>5, <2>6, DivIs
  <2>8. (2 * v) % 2 = 0
    BY <2>6
  <2> QED BY <2>7, <2>8 DEF Bit, p
<1>6. ASSUME NEW i \in 0..(Bits - 1), i >= c PROVE Bit(M, i) = 1
  <2> DEFINE j == i - c
             e == m - (j + 1)
             pj == Pow2[j]
             pc == Pow2[c]
             f == Pow2[e]
  <2>1. i \in Nat /\ j \in Nat /\ e \in Nat /\ m = (j + 1) + e /\ i = c + j
    BY <1>1, <1>6
  <2> HIDE DEF j, e
  <2>2. /\ pj \in Nat /\ pj > 0 /\ pc \in Nat /\ pc > 0 /\ f \in Nat /\ f > 0
        /\ Pow2[m] = (2 * pj) * f /\ Pow2[i] = pc * pj
    <3>1. Pow2[j + 1] = 2 * Pow2[j]
      BY <2>1, Pow2Is
    <3>2. Pow2[i] = Pow2[c] * Pow2[j]
      BY <1>1, <2>1, Pow2Sum
    <3>3. Pow2[m] = Pow2[j + 1] * Pow2[e]
      <4>1. j + 1 \in Nat
        BY <2>1
      <4> QED BY <2>1, <4>1, Pow2Sum
    <3>4. pj \in Nat /\ pj > 0 /\ pc \in Nat /\ pc > 0 /\ f \in Nat /\ f > 0
      BY <1>1, <2>1, Pow2Type
    <3> QED BY <3>1, <3>2, <3>3, <3>4
  <2>3. M = ((2 * pj) * f - 1) * pc
    BY <2>2
  <2> HIDE DEF pj, pc, f, M
  <2> DEFINE d == pc * pj
             q == 2 * (f - 1) + 1
             r == (pj - 1) * pc
  <2>4. d \in Nat /\ d > 0 /\ q \in Nat /\ r \in Nat
    BY <2>2
  <2>5. r < d
    <3>1. r = pc * pj - pc
      BY <2>2
    <3> QED BY <2>2, <3>1
  <2>6. M = q * d + r
    <3> DEFINE P == pc * pj
               F == (2 * f) * P
    <3>1. q * d = F - P
      BY <2>2
    <3>2. r = P - pc
      BY <2>2
    <3>3. M = F - pc
      BY <2>2, <2>3
    <3>4. P \in Nat /\ F \in Nat
      BY <2>2
    <3> HIDE DEF P, F, q, d, r
    <3> QED BY <2>2, <3>1, <3>2, <3>3, <3>4
  <2> HIDE DEF d, r
  <2>7. M \div d = q
    <3> HIDE DEF q
    <3> QED BY <1>3, <2>4, <2>5, <2>6, DivIs
  <2>8. q % 2 = 1
    BY <2>2
  <2>9. Pow2[i] = d
    BY <2>2 DEF d
  <2> HIDE DEF q
  <2> QED BY <2>7, <2>8, <2>9 DEF Bit
<1> HIDE DEF M
<1>7. \A i \in 0..(Bits - 1) : i < c \/ i >= c
  BY <1>1
<1>8. \A i \in 0..(Bits - 1) : ~(i < c /\ i >= c)
  BY <1>1
<1> QED BY <1>4, <1>5, <1>6, <1>7, <1>8 DEF c

LEMMA HostIsAddress ==
  ASSUME NEW host, host.groups \in Group \X Group
  PROVE  HostIp(host) \in Address
<1> DEFINE w == Pow2[GroupBits]
           g == host.groups[1]
           h == host.groups[2]
<1>1. GroupBits \in Nat /\ Bits = GroupBits + GroupBits
  BY BitsType
<1>2. w \in Nat /\ w > 0 /\ Pow2[Bits] = w * w
  BY <1>1, Pow2Type, Pow2Sum
<1>3. g \in 0..(w - 1) /\ h \in 0..(w - 1)
  BY DEF Group
<1>4. HostIp(host) = g * w + h
  BY DEF HostIp
<1> HIDE DEF w, g, h
<1>5. g * w + h \in Nat /\ g * w + h <= w * w - 1
  <2>1. g * w <= (w - 1) * w /\ (w - 1) * w = w * w - w /\ g * w \in Nat
    BY <1>2, <1>3
  <2> QED BY <1>2, <1>3, <2>1
<1>6. Ones = w * w - 1
  BY <1>2 DEF Ones
<1> QED BY <1>4, <1>5, <1>6, BitsType DEF Address

\* The masked comparison is that of the prefixes.
LEMMA NetIs ==
  ASSUME NEW host, Parses(host), host.zero \/ host.mask # 0, NEW ip \in Address, NEW undef
  PROVE  SameNet(host, ip, undef) <=> InNet(host, ip)
<1>1. CASE host.zero
  BY <1>1, Zenon DEF SameNet, InNet
<1>2. CASE ~host.zero
  <2>1. host.groups \in Group \X Group /\ host.mask \in 0..Bits /\ host.mask # 0
    BY <1>2, Zenon DEF Parses
  <2> DEFINE x == HostIp(host)
             m == host.mask
             k == Bits - m
  <2>2. x \in Address
    BY <2>1, HostIsAddress
  <2>3. Bits \in Nat /\ m \in 1..Bits /\ k \in 0..Bits
    BY <2>1, BitsType
  <2> HIDE DEF x, m, k
  <2>4. (\A i \in k..(Bits - 1) : Bit(x, i) = Bit(ip, i)) <=> x \div Pow2[k] = ip \div Pow2[k]
    BY <2>2, <2>3, HighBits
  <2>5. \A i \in 0..(Bits - 1) : Bit(Mask(m, undef), i) = 1 <=> i >= k
    BY <2>3, MaskBits DEF k
  <2>6. SameUnder(Mask(m, undef), x, ip) <=> \A i \in k..(Bits - 1) : Bit(x, i) = Bit(ip, i)
    <3>1. \A i : i \in k..(Bits - 1) <=> i \in 0..(Bits - 1) /\ i >= k
      BY <2>3
    <3> QED BY <2>5, <3>1, Zenon DEF SameUnder
  <2>7. SameNet(host, ip, undef) <=> SameUnder(Mask(m, undef), x, ip)
    BY <1>2, Zenon DEF SameNet, m, x
  <2>8. InNet(host, ip) <=> x \div Pow2[k] = ip \div Pow2[k]
    BY <1>2, Zenon DEF InNet, m, x, k
  <2> QED BY <2>4, <2>6, <2>7, <2>8, Zenon
<1> QED BY <1>1, <1>2, Zenon

-----------------------------------------------------------------------------
(* The verdicts.                                                           *)

\* A regular rule hits the packets it is for.
LEMMA HitsIsCovers ==
  ASSUME NEW r, Regular(r), Parses(r.src), Parses(r.dst), NEW p \in Packet, NEW a, NEW undef
  PROVE  Hits(r, p, a, undef) <=> Covers(r, p, a)
<1>1. p.src \in Address /\ p.dst \in Address
  BY DEF Packet
<1>2. r.iface # 0 /\ (r.src.zero \/ r.src.mask # 0) /\ (r.dst.zero \/ r.dst.mask # 0)
  BY Zenon DEF Regular
<1>3. SameNet(r.src, p.src, undef) <=> InNet(r.src, p.src)
  BY <1>1, <1>2, NetIs
<1>4. SameNet(r.dst, p.dst, undef) <=> InNet(r.dst, p.dst)
  BY <1>1, <1>2, NetIs
<1>5. SamePort(r.sport, p.sport) <=> r.sport = 0 \/ r.sport = p.sport
  BY DEF SamePort
<1>6. SamePort(r.dport, p.dport) <=> r.dport = 0 \/ r.dport = p.dport
  BY DEF SamePort
<1>7. a \in Unknown \cup {r.app} <=> (a \notin Unknown => r.app = a)
  OBVIOUS
<1>8. <<r.iface, r.dir, r.proto>> = <<p.iface, p.dir, p.proto>>
      <=> r.iface = p.iface /\ r.dir = p.dir /\ r.proto = p.proto
  OBVIOUS
<1> QED BY <1>2, <1>3, <1>4, <1>5, <1>6, <1>7, <1>8, Zenon DEF Hits, Covers

\* What the reference says of a packet p of the application a, and the rules t.
RightVerdict(t, p, a) ==
  LET i == SelectInSeq(t, LAMBDA r : Covers(r, p, a))
  IN  IF p.proto = "tcp" /\ ~p.opens THEN "accept"
      ELSE VerdictOf(IF i = 0 THEN Default[p.dir] ELSE t[i].action)

\* So the first that hits is the first that covers.
LEMMA ActionIs ==
  ASSUME NEW t \in Tables, \A i \in DOMAIN t : Regular(t[i]), NEW p \in Packet, NEW a, NEW undef,
         ~(p.proto = "tcp" /\ ~p.opens)
  PROVE  VerdictOf(Action(t, p, a, undef, Default)) = RightVerdict(t, p, a)
<1> DEFINE I == {i \in 1..Len(t) : Hits(t[i], p, a, undef)}
           J == {i \in 1..Len(t) : Covers(t[i], p, a)}
<1>1. DOMAIN t = 1..Len(t) /\ \A i \in DOMAIN t : Parses(t[i].src) /\ Parses(t[i].dst)
  BY IntakeAssumption DEF IntakeAssumption
<1>2. \A i \in 1..Len(t) : Hits(t[i], p, a, undef) <=> Covers(t[i], p, a)
  BY <1>1, HitsIsCovers
<1>3. I = J
  BY <1>2, Zenon
<1>4. SelectInSeq(t, LAMBDA r : Hits(r, p, a, undef)) = IF I # {} THEN Min(I) ELSE 0
  BY DEF SelectInSeq
<1>5. SelectInSeq(t, LAMBDA r : Covers(r, p, a)) = IF J # {} THEN Min(J) ELSE 0
  BY DEF SelectInSeq
<1> HIDE DEF I, J
<1>6. SelectInSeq(t, LAMBDA r : Hits(r, p, a, undef)) = SelectInSeq(t, LAMBDA r : Covers(r, p, a))
  BY <1>3, <1>4, <1>5
<1> DEFINE i == SelectInSeq(t, LAMBDA r : Covers(r, p, a))
<1>7. Action(t, p, a, undef, Default) = IF i = 0 THEN Default[p.dir] ELSE t[i].action
  BY <1>6 DEF Action
<1>8. RightVerdict(t, p, a) = VerdictOf(IF i = 0 THEN Default[p.dir] ELSE t[i].action)
  BY Zenon DEF RightVerdict
<1> HIDE DEF i
<1> QED BY <1>7, <1>8

VerdictInv ==
  /\ at # "idle" => pkt \in Packet
  /\ at = "end" /\ (\A i \in DOMAIN rules : Regular(rules[i])) =>
       verdict = RightVerdict(rules, pkt, app)

LEMMA VerdictInit == Init => VerdictInv
BY DEF Init, ConnInit, VerdictInv

\* What comes in has the form of a packet.
LEMMA PacketComes ==
  ASSUME NEW p \in Packet, Receive(p)
  PROVE  pkt' \in Packet
<1>1. CASE p.proto = "tcp"
  BY <1>1, ReceiveFrame
<1>2. CASE p.proto # "tcp"
  <2>1. PICK sport, dport \in PortNr : pkt' = [p EXCEPT !.sport = sport, !.dport = dport]
    BY <1>2, ReceiveFrame
  <2>2. sport \in Nat /\ dport \in Nat
    BY IntakeAssumption DEF IntakeAssumption
  <2> QED BY <2>1, <2>2 DEF Packet
<1> QED BY <1>1, <1>2

LEMMA SynIsPacket == \A s \in Tcp : Syn(s) \in Packet
<1> SUFFICES ASSUME NEW s \in Tcp PROVE Syn(s) \in Packet
  OBVIOUS
<1>1. Addr[s] \in Ends
  BY IntakeAssumption DEF IntakeAssumption, Socket
<1>2. Syn(s) = [proto |-> "tcp", opens |-> TRUE, dir |-> "outgoing", iface |-> 1,
                src |-> Addr[s].src, sport |-> Addr[s].sport, dst |-> Addr[s].dst, dport |-> Addr[s].dport]
  BY DEF Syn, Message
<1> QED BY <1>1, <1>2 DEF Ends, Packet

LEMMA VerdictStep == VerdictInv /\ [Next]_vars => VerdictInv'
<1> SUFFICES ASSUME VerdictInv, [Next]_vars PROVE VerdictInv'
  OBVIOUS
<1> USE DEF kernel, tables, locals, history, packet
<1>1. ASSUME (\E s \in Tcp \ Listening : Connect(s)) \/ (\E p \in Strays : Receive(p)) PROVE VerdictInv'
  <2>1. PICK p \in Packet : Receive(p)
    <3>1. \A s \in Tcp \ Listening : Connect(s) => Syn(s) \in Packet /\ Receive(Syn(s))
      BY SynIsPacket, Zenon DEF Connect
    <3>2. Strays \subseteq Packet
      BY IntakeAssumption DEF IntakeAssumption
    <3> QED BY <1>1, <3>1, <3>2, Zenon
  <2>2. pkt' \in Packet
    BY <2>1, PacketComes
  <2>3. at' # "end"
    BY <2>1, ReceiveFrame
  <2> QED BY <2>2, <2>3, Zenon DEF VerdictInv
<1>2. CASE Decide
  <2>1. at = "rules" /\ at' = "end" /\ UNCHANGED <<pkt, app>>
    BY <1>2, DecideFrame
  <2>2. pkt \in Packet
    BY <2>1 DEF VerdictInv
  <2>3. PICK undef : /\ rules' \in Tables
                     /\ verdict' = IF Established THEN "accept"
                                   ELSE VerdictOf(Action(rules', pkt, app, undef, Default))
    BY <1>2, Zenon DEF Decide
  <2>4. ASSUME \A i \in DOMAIN rules' : Regular(rules'[i])
        PROVE  verdict' = RightVerdict(rules', pkt, app)
    <3>1. CASE Established
      BY <2>3, <3>1, Zenon DEF Established, RightVerdict
    <3>2. CASE ~Established
      <4>1. VerdictOf(Action(rules', pkt, app, undef, Default)) = RightVerdict(rules', pkt, app)
        BY <2>2, <2>3, <2>4, <3>2, ActionIs DEF Established
      <4> QED BY <2>3, <3>2, <4>1
    <3> QED BY <3>1, <3>2
  <2> QED BY <2>1, <2>2, <2>4 DEF VerdictInv
<1>3. CASE Lookup
  <2>1. at # "idle" /\ at' = "rules" /\ pkt' = pkt
    BY <1>3 DEF Lookup
  <2> QED BY <2>1 DEF VerdictInv
<1>4. CASE Done
  <2>1. at' = "idle"
    BY <1>4 DEF Done
  <2> QED BY <2>1 DEF VerdictInv
<1>5. CASE Move /\ UNCHANGED packet
  <2>1. at # "end" /\ at' = at /\ pkt' = pkt
    BY <1>5, MoveFrame
  <2> QED BY <2>1 DEF VerdictInv
<1>6. CASE Rescan /\ UNCHANGED packet
  <2>1. at \notin {"idle", "end"} /\ at' # "end"
    BY <1>6 DEF Rescan, PidExeScan, ReadTcp, ReadUdp, NextPid, LastPid, StatFd, ReadLink, EndFds
  <2> QED BY <1>6, <2>1 DEF VerdictInv
<1>7. CASE UNCHANGED vars
  <2>1. UNCHANGED <<at, pkt, app, rules, verdict>>
    BY <1>7 DEF vars
  <2> QED BY <2>1 DEF VerdictInv
<1> QED BY <1>1, <1>2, <1>3, <1>4, <1>5, <1>6, <1>7, Zenon DEF Next, Handle

\* Every verdict is that of the first rule that covers the packet, as long as
\* the rules are of those the reference speaks for.
THEOREM VerdictsAreFirstMatches == Spec => []VerdictIsFirstMatch
<1>1. VerdictInv => VerdictIsFirstMatch
  BY Zenon DEF VerdictInv, VerdictIsFirstMatch, RightVerdict, Established
<1> QED BY <1>1, VerdictInit, VerdictStep, PTL DEF Spec

=============================================================================
