-------------------------- MODULE MessagePassingProofs -------------------------
(* Proofs about the three kinds of programs of MessagePassing, of which one runs. *)
(* Redistribution: the messages on the way are the ones that the places of the   *)
(* ranks in their loops and the barriers between them allow, at most one from a  *)
(* rank to another; and the cyclic arrays and then the blocks hold, place by     *)
(* place, what the arithmetic of the two loops makes of the rank and the index.  *)
(* Collectives: an array holds what the program put there until the collective   *)
(* that fills it, and from then on its final contents, which are a function of   *)
(* the parts that the ranks start with; rank 0 gets to its last collective only  *)
(* when the others have brought theirs.                                          *)
EXTENDS MessagePassing, Sequences, SequenceTheorems, FiniteSetTheorems, TLAPS

--------------------------------------------------------------------------------
(* Division with a remainder. *)

(* A row ends where the next one starts, or before. *)
LEMMA RowEnds ==
    ASSUME NEW x \in Nat, NEW y \in Nat, NEW w \in Nat, x < y
    PROVE  x * w + w <= y * w
<1>1. PICK d \in Nat : y = x + 1 + d
  <2>1. y - x - 1 \in Nat /\ y = x + 1 + (y - x - 1) OBVIOUS
  <2> QED BY <2>1
<1>2. y * w = x * w + w + d * w BY <1>1
<1>3. d * w \in Nat OBVIOUS
<1>4. x * w \in Nat OBVIOUS
<1> QED BY <1>2, <1>3, <1>4

(* A number is a multiple of w and a remainder in one way. *)
LEMMA OneQuotient ==
    ASSUME NEW w \in Nat \ {0}, NEW x \in Nat, NEW c \in 0 .. w - 1,
           NEW y \in Nat, NEW d \in 0 .. w - 1, x * w + c = y * w + d
    PROVE  x = y /\ c = d
<1>1. x * w \in Nat /\ y * w \in Nat OBVIOUS
<1>2. x = y
  <2>1. CASE x < y
    <3>1. x * w + w <= y * w BY <2>1, RowEnds
    <3> QED BY <1>1, <3>1
  <2>2. CASE y < x
    <3>1. y * w + w <= x * w BY <2>2, RowEnds
    <3> QED BY <1>1, <3>1
  <2> QED BY <2>1, <2>2
<1> QED BY <1>1, <1>2

LEMMA Divided ==
    ASSUME NEW z \in Nat, NEW w \in Nat \ {0}
    PROVE  /\ z \div w \in Nat /\ z % w \in 0 .. w - 1
           /\ z = (z \div w) * w + (z % w)
OBVIOUS

LEMMA QuotientAndRest ==
    ASSUME NEW x \in Nat, NEW w \in Nat \ {0}, NEW c \in 0 .. w - 1
    PROVE  (x * w + c) \div w = x /\ (x * w + c) % w = c
<1>1. PICK z \in Nat : z = x * w + c OBVIOUS
<1>2. PICK y \in Nat, d \in 0 .. w - 1 : y = z \div w /\ d = z % w /\ z = y * w + d
  BY Divided
<1>3. y = x /\ d = c BY <1>1, <1>2, OneQuotient
<1> QED BY <1>1, <1>2, <1>3

--------------------------------------------------------------------------------
(* Redistribution: who sends to whom. *)

bs == RD!block_size

(* Every rank computed for a send or a receive is one, which fails of the numbers  *)
(* of processes tried for 2 only.                                                  *)
Fits == p = 1 \/ N <= p * (p + 1)

Fwd(r, k) == (r + k) % p
Back(r, k) == RD!Remainder(r - k + p, p)

LEMMA Blocks ==
    ASSUME p \in Sizes
    PROVE  /\ p \in Nat \ {0} /\ bs \in Nat \ {0} /\ bs * p = N
           /\ Fits => p = 1 \/ bs <= p + 1
           /\ ~Fits => p = 2 /\ bs > 3
<1>1. p \in Nat \ {0} /\ N \in Nat \ {0} BY BoundsAssumption
<1>2. N % p = 0 /\ (p <= 2 \/ N <= p * (p + 1)) BY DivisorsAssumption
<1>3. PICK m \in Nat : m = N \div p /\ m * p = N
  <2>1. /\ N \div p \in Nat /\ N % p \in 0 .. p - 1
        /\ N = (N \div p) * p + (N % p)
    BY <1>1, Divided
  <2>2. (N \div p) * p \in Nat BY <1>1, <2>1
  <2> QED BY <1>1, <1>2, <2>1, <2>2
<1>4. m # 0
  <2>1. 0 * p = 0 BY <1>1
  <2> QED BY <1>1, <1>3, <2>1
<1>5. ASSUME Fits, p # 1 PROVE m <= p + 1
  <2>1. N <= p * (p + 1) /\ p * (p + 1) = (p + 1) * p BY <1>1, <1>5 DEF Fits
  <2>2. ASSUME p + 1 < m PROVE FALSE
    <3>1. PICK x \in Nat : x = p + 1 BY <1>1
    <3>2. x * p + p <= m * p BY <1>1, <2>2, <3>1, RowEnds
    <3>3. x * p \in Nat /\ p * (p + 1) = x * p BY <1>1, <3>1
    <3> QED BY <1>1, <1>3, <2>1, <3>2, <3>3
  <2> QED BY <1>1, <2>2
<1>6. ASSUME ~Fits PROVE p = 2 /\ m > 3
  <2>1. p = 2 BY <1>1, <1>2, <1>6 DEF Fits
  <2>2. N > 6 /\ N = m * 2 BY <1>1, <1>3, <1>6, <2>1 DEF Fits
  <2> QED BY <2>1, <2>2
<1>7. bs = m BY <1>3 DEF bs, RD!block_size
<1> QED BY <1>1, <1>3, <1>4, <1>5, <1>6, <1>7

(* Forwards and back are the two directions of one bijection. *)
LEMMA Partners ==
    ASSUME p \in Sizes, Fits, NEW r \in RD!Ranks, NEW k \in RD!Places
    PROVE  /\ Fwd(r, k) \in RD!Ranks /\ Back(r, k) \in RD!Ranks
           /\ \A s \in RD!Ranks : Fwd(s, k) = r <=> s = Back(r, k)
<1>1. /\ p \in Nat \ {0} /\ bs \in Nat \ {0} /\ (p = 1 \/ bs <= p + 1)
      /\ r \in 0 .. p - 1 /\ k \in 0 .. bs - 1
  BY Blocks DEF RD!Ranks, RD!Places, bs
<1>2. Fwd(r, k) \in 0 .. p - 1
  <2>1. PICK z \in Nat : z = r + k BY <1>1
  <2> QED BY <1>1, <2>1, Divided DEF Fwd
<1>3. CASE p = 1
  <2>1. \A s \in 0 .. 0 : Fwd(s, k) = 0
    BY <1>1, <1>3 DEF Fwd
  <2>2. Back(r, k) = 0
    <3>1. PICK x \in Int : x = r - k + p BY <1>1
    <3>2. x >= 0 => x % 1 = 0 OBVIOUS
    <3>3. x < 0 => (-x) % 1 = 0 OBVIOUS
    <3> QED BY <1>3, <3>1, <3>2, <3>3 DEF Back, RD!Remainder
  <2> QED BY <1>1, <1>3, <2>1, <2>2 DEF RD!Ranks
<1>4. CASE p > 1
  <2>1. PICK x \in Nat : x = r - k + p BY <1>1, <1>4
  <2>2. PICK q \in Nat, m \in 0 .. p - 1 : x = q * p + m /\ m = x % p
    BY <1>1, Divided
  <2>3. Back(r, k) = m
    <3>1. RD!Remainder(x, p) = x % p
      <4>1. x >= 0 OBVIOUS
      <4> QED BY <4>1 DEF RD!Remainder
    <3> QED BY <2>1, <2>2, <3>1 DEF Back
  <2>4. ASSUME NEW s \in 0 .. p - 1 PROVE Fwd(s, k) = r <=> s = m
    <3>1. PICK z \in Nat : z = s + k BY <1>1
    <3>2. PICK e \in Nat, b \in 0 .. p - 1 : z = e * p + b /\ b = z % p
      BY <1>1, Divided
    <3>3. Fwd(s, k) = b BY <3>1, <3>2 DEF Fwd
    <3>4. (e + q) * p = e * p + q * p /\ e * p \in Nat /\ q * p \in Nat
          /\ 1 * p = p /\ e + q \in Nat
      BY <1>1
    <3>5. s + (e + q) * p + b = m + (e + q) * p + b + (s - m)
      BY <1>1, <3>4
    <3>6. e * p + b + q * p + m = s + k + (r - k + p)
      BY <1>1, <2>1, <2>2, <3>1, <3>2, <3>4
    <3>7. (e + q) * p + b + m = s + r + p
      BY <1>1, <3>4, <3>6
    <3>8. ASSUME s = m PROVE b = r
      <4>1. (e + q) * p + b = 1 * p + r BY <1>1, <3>4, <3>7, <3>8
      <4> QED BY <1>1, <3>4, <4>1, OneQuotient
    <3>9. ASSUME b = r PROVE s = m
      <4>1. (e + q) * p + m = 1 * p + s BY <1>1, <3>4, <3>7, <3>9
      <4> QED BY <1>1, <3>4, <4>1, OneQuotient
    <3> QED BY <3>3, <3>8, <3>9
  <2> QED BY <1>2, <2>3, <2>4 DEF RD!Ranks
<1> QED BY <1>1, <1>3, <1>4

--------------------------------------------------------------------------------
(* Redistribution: the invariant. *)

(* How many elements rank r has sent, and received, in loop l. *)
Posted(l, r) ==
    CASE loop[r] > l -> bs
      [] loop[r] < l -> 0
      [] loop[r] = l -> IF pc[r] \in {"receive", "return"} THEN i[r] + 1 ELSE i[r]

Got(l, r) ==
    CASE loop[r] > l -> bs
      [] loop[r] < l -> 0
      [] loop[r] = l -> IF pc[r] = "return" THEN i[r] + 1 ELSE i[r]

(* Element k of rank s goes to this rank in loop l, and element k of rank r comes *)
(* from that one.                                                                *)
Dest(l, s, k) == IF l = 0 THEN Fwd(s, k) ELSE Back(s, k)
Source(l, r, k) == IF l = 0 THEN Back(r, k) ELSE Fwd(r, k)

(* Element k of rank s as MPI_Scatter brought it, and what rank s sends at place *)
(* k in loop l: its own element, then that of the rank it has come from.         *)
Val(s, k) == s * bs + k + 1
Sent(l, s, k) == Val(IF l = 0 THEN s ELSE Back(s, k), k)

(* Where a rank is and what its loop variable is fit together. *)
RedPlaces ==
    \A r \in RD!Ranks :
        /\ pc[r] \in {"receive", "return"} => i[r] < bs
        /\ pc[r] \in {"post", "receive", "return"} => loop[r] < 2
        /\ pc[r] \in {"barrier", "done"} => i[r] = 0
        /\ pc[r] = "done" => loop[r] = 2

(* A message is of an element already sent, and there is one of each. *)
NetOnce ==
    /\ \A m \in net : m.nr < Posted(m.tag, m.from)
    /\ \A m, o \in net : m.tag = o.tag /\ m.from = o.from /\ m.nr = o.nr => m = o

(* What a rank has received its partner has sent before. *)
GotIsPosted ==
    \A l \in {0, 1}, r \in RD!Ranks, k \in RD!Places :
        k < Got(l, r) => k < Posted(l, Source(l, r, k))

(* Exactly the messages sent and not received are on their way, each to the      *)
(* partner of its sender and with the element of that place.                     *)
NetExact ==
    /\ \A m \in net : /\ m.to = Dest(m.tag, m.from, m.nr)
                      /\ m.value = Sent(m.tag, m.from, m.nr)
                      /\ Got(m.tag, m.to) <= m.nr
    /\ \A l \in {0, 1}, s \in RD!Ranks, k \in RD!Places :
          k < Posted(l, s) /\ Got(l, Dest(l, s, k)) <= k =>
              \E m \in net : m.tag = l /\ m.from = s /\ m.nr = k

(* The blocks are always what they were, as what comes back is what was there.   *)
ArraysExact ==
    \A r \in RD!Ranks, k \in RD!Places :
        /\ block[r][k] = Val(r, k)
        /\ k < Got(0, r) => cyclic[r][k] = Val(Back(r, k), k)

(* The two ranks of which one gets -1.  If it is an error rank 0 does not come   *)
(* further than to its send to -1.  If it is nobody rank 1 waits for an element  *)
(* that rank 0 does not send it: of those that go back it is sent only number 1. *)
RankZeroHeld ==
    /\ loop[0] <= 1
    /\ loop[0] = 1 => i[0] <= 3 /\ (i[0] = 3 => pc[0] = "post" \/ aborted)

RankOneHeld ==
    /\ loop[1] <= 1
    /\ loop[1] = 1 => i[1] <= 3 /\ (i[1] = 3 => pc[1] \in {"post", "receive"})

OneSent ==
    /\ \A m \in net : m.tag = 1 /\ m.from = 0 /\ m.to = 1 => m.nr = 1
    /\ Got(1, 1) > 1 =>
          /\ Posted(1, 0) > 1
          /\ \A m \in net : ~(m.tag = 1 /\ m.from = 0 /\ m.to = 1)

Stuck ==
    IF minus_one = "any source" THEN RankZeroHeld ELSE RankOneHeld /\ OneSent

--------------------------------------------------------------------------------
(* Redistribution: the steps. *)

RedTypes ==
    /\ p \in Sizes /\ p \in Nat \ {0} /\ bs \in Nat \ {0}
    /\ RD!Ranks = 0 .. p - 1 /\ RD!Places = 0 .. bs - 1
    /\ block \in [RD!Ranks -> [RD!Places -> RD!Elements]]
    /\ cyclic \in [RD!Ranks -> [RD!Places -> RD!Elements]]
    /\ loop \in [RD!Ranks -> 0 .. 2]
    /\ i \in [RD!Ranks -> 0 .. bs]
    /\ pc \in [RD!Ranks -> RD!Locations]
    /\ \A m \in net : /\ m \in RD!Messages
                      /\ m.tag \in {0, 1} /\ m.from \in RD!Ranks /\ m.to \in RD!Ranks
                      /\ m.nr \in RD!Places /\ m.value \in RD!Elements

LEMMA RedTypesAre == ASSUME RD!TypeOK PROVE RedTypes
<1>1. p \in Sizes BY DEF RD!TypeOK
<1>2. p \in Nat \ {0} /\ bs \in Nat \ {0} BY <1>1, Blocks
<1>3. RD!Ranks = 0 .. p - 1 /\ RD!Places = 0 .. bs - 1
  BY DEF RD!Ranks, RD!Places, bs
<1>4. \A m \in net : m \in RD!Messages BY DEF RD!TypeOK
<1>5. \A m \in RD!Messages :
         /\ m.tag \in {0, 1} /\ m.from \in RD!Ranks /\ m.to \in RD!Ranks
         /\ m.nr \in RD!Places /\ m.value \in RD!Elements
  BY DEF RD!Messages
<1> QED BY <1>1, <1>2, <1>3, <1>4, <1>5 DEF RD!TypeOK, RedTypes, bs

LEMMA CountsAre ==
    ASSUME RedTypes, RedPlaces, NEW l \in {0, 1}, NEW r \in RD!Ranks
    PROVE  /\ Posted(l, r) \in 0 .. bs /\ Got(l, r) \in 0 .. bs
           /\ Got(l, r) <= Posted(l, r)
<1>1. /\ loop[r] \in 0 .. 2 /\ i[r] \in 0 .. bs /\ bs \in Nat /\ l \in Nat
      /\ pc[r] \in {"receive", "return"} => i[r] < bs
  BY DEF RedTypes, RedPlaces
<1>2. CASE loop[r] > l BY <1>1, <1>2 DEF Posted, Got
<1>3. CASE loop[r] < l BY <1>1, <1>3 DEF Posted, Got
<1>4. CASE loop[r] = l BY <1>1, <1>4 DEF Posted, Got
<1> QED BY <1>1, <1>2, <1>3, <1>4

(* What depends on the number of processes only. *)
LEMMA SameRedSizes ==
    ASSUME p' = p
    PROVE  /\ bs' = bs /\ RD!Ranks' = RD!Ranks /\ RD!Places' = RD!Places
           /\ Fits' = Fits
           /\ \A r, k : Fwd(r, k)' = Fwd(r, k) /\ Back(r, k)' = Back(r, k)
           /\ \A l, s, k : /\ Dest(l, s, k)' = Dest(l, s, k)
                           /\ Source(l, s, k)' = Source(l, s, k)
                           /\ Sent(l, s, k)' = Sent(l, s, k)
           /\ \A s, k : Val(s, k)' = Val(s, k)
<1>1. bs' = bs BY DEF bs, RD!block_size
<1>2. \A r, k : Fwd(r, k)' = Fwd(r, k) /\ Back(r, k)' = Back(r, k)
  BY DEF Fwd, Back, RD!Remainder
<1>3. \A s, k : Val(s, k)' = Val(s, k) BY <1>1 DEF Val
<1>4. \A l, s, k : Dest(l, s, k)' = Dest(l, s, k) /\ Source(l, s, k)' = Source(l, s, k)
  BY <1>2 DEF Dest, Source
<1>5. \A l, s, k : Sent(l, s, k)' = Sent(l, s, k)
  BY <1>2, <1>1 DEF Sent, Val
<1>6. RD!Ranks' = RD!Ranks /\ RD!Places' = RD!Places
  BY <1>1 DEF RD!Ranks, RD!Places, bs
<1>7. Fits' = Fits BY DEF Fits
<1> QED BY <1>1, <1>2, <1>3, <1>4, <1>5, <1>6, <1>7

Exact == NetOnce /\ (Fits => GotIsPosted /\ NetExact /\ ArraysExact)

(* A step that sends and receives nothing. *)
LEMMA NothingMoves ==
    ASSUME RedTypes, Exact, UNCHANGED <<p, block, cyclic, net>>,
           \A l \in {0, 1}, r \in RD!Ranks :
               Posted(l, r)' = Posted(l, r) /\ Got(l, r)' = Got(l, r)
    PROVE  Exact'
<1>1. p' = p /\ net' = net /\ block' = block /\ cyclic' = cyclic OBVIOUS
<1>2. NetOnce'
  <2>1. \A m \in net : Posted(m.tag, m.from)' = Posted(m.tag, m.from)
    BY DEF RedTypes
  <2> QED BY <1>1, <2>1 DEF Exact, NetOnce
<1>3. ASSUME Fits PROVE GotIsPosted' /\ NetExact' /\ ArraysExact'
  <2>1. GotIsPosted /\ NetExact /\ ArraysExact BY <1>3 DEF Exact
  <2>2. \A l \in {0, 1}, r \in RD!Ranks, k \in RD!Places :
           Source(l, r, k) \in RD!Ranks /\ Dest(l, r, k) \in RD!Ranks
    BY <1>3, Partners DEF Source, Dest, RedTypes
  <2>3. GotIsPosted' BY <1>1, <2>1, <2>2, SameRedSizes DEF GotIsPosted
  <2>4. NetExact'
    <3>1. \A m \in net : Got(m.tag, m.to)' = Got(m.tag, m.to)
      BY DEF RedTypes
    <3>2. \A m \in net : /\ m.to = Dest(m.tag, m.from, m.nr)'
                         /\ m.value = Sent(m.tag, m.from, m.nr)'
      BY <1>1, <2>1, SameRedSizes DEF NetExact
    <3>3. \A l \in {0, 1}, s \in RD!Ranks, k \in RD!Places :
             k < Posted(l, s)' /\ Got(l, Dest(l, s, k))' <= k =>
                 \E m \in net : m.tag = l /\ m.from = s /\ m.nr = k
      <4> SUFFICES ASSUME NEW l \in {0, 1}, NEW s \in RD!Ranks, NEW k \in RD!Places,
                          k < Posted(l, s)', Got(l, Dest(l, s, k))' <= k
                   PROVE  \E m \in net : m.tag = l /\ m.from = s /\ m.nr = k
        OBVIOUS
      <4>1. PICK d \in RD!Ranks : d = Dest(l, s, k) BY <2>2
      <4>2. Dest(l, s, k)' = d BY <1>1, <4>1, SameRedSizes
      <4>3. Got(l, d) <= k BY <4>2
      <4>4. k < Posted(l, s) OBVIOUS
      <4> QED BY <2>1, <4>1, <4>3, <4>4 DEF NetExact
    <3> QED BY <1>1, <2>1, <3>1, <3>2, <3>3, SameRedSizes DEF NetExact
  <2>5. ArraysExact'
    <3>1. \A r \in RD!Ranks : Got(0, r)' = Got(0, r) OBVIOUS
    <3> QED BY <1>1, <2>1, <3>1, SameRedSizes DEF ArraysExact
  <2> QED BY <2>3, <2>4, <2>5
<1> QED BY <1>1, <1>2, <1>3, SameRedSizes DEF Exact

RedView == RD!TypeOK /\ RedPlaces /\ Exact

SameCounts ==
    \A l \in {0, 1}, s \in RD!Ranks :
        Posted(l, s)' = Posted(l, s) /\ Got(l, s)' = Got(l, s)

LEMMA BarrierStep ==
    ASSUME RedView, NEW r \in RD!Ranks, RD!Barrier(r)
    PROVE  RedView' /\ SameCounts
<1>1. RedTypes BY RedTypesAre DEF RedView
<1>2. /\ pc[r] = "barrier" /\ i[r] = 0 /\ i[r] \in Nat
      /\ pc' = [pc EXCEPT ![r] = IF loop[r] = 2 THEN "done" ELSE "post"]
      /\ UNCHANGED <<p, eager, minus_one, block, cyclic, loop, i, net, aborted>>
  BY DEF RD!Barrier, RD!Goto, RedView, RedPlaces
<1>3. RD!Ranks' = RD!Ranks /\ bs' = bs BY <1>2, SameRedSizes
<1>4. RD!TypeOK'
  <2>1. pc' \in [RD!Ranks -> RD!Locations]
    BY <1>1, <1>2 DEF RedTypes, RD!Locations
  <2> QED
    BY <1>2, <2>1 DEF RedView, RD!TypeOK, RD!Ranks, RD!Places, RD!block_size, RD!Messages,
                RD!Elements, RD!Locations
<1>5. RedPlaces'
  <2>1. loop[r] \in 0 .. 2 BY <1>1 DEF RedTypes
  <2> QED BY <1>1, <1>2, <1>3, <2>1 DEF RedView, RedPlaces, RedTypes
<1>6. \A l \in {0, 1}, s \in RD!Ranks :
         Posted(l, s)' = Posted(l, s) /\ Got(l, s)' = Got(l, s)
  BY <1>1, <1>2, <1>3 DEF RedTypes, Posted, Got
<1> QED BY <1>1, <1>2, <1>4, <1>5, <1>6, NothingMoves DEF RedView, SameCounts

LEMMA ReturnStep ==
    ASSUME RedView, NEW r \in RD!Ranks, RD!Return(r)
    PROVE  RedView' /\ SameCounts
<1>1. RedTypes BY RedTypesAre DEF RedView
<1>2. /\ pc[r] = "return" /\ i[r] \in 0 .. bs /\ i[r] < bs /\ loop[r] < 2
      /\ pc' = [pc EXCEPT ![r] = "post"] /\ i' = [i EXCEPT ![r] = i[r] + 1]
      /\ UNCHANGED <<p, eager, minus_one, block, cyclic, loop, net, aborted>>
  BY <1>1 DEF RD!Return, RD!Goto, RedView, RedPlaces, RedTypes
<1>3. RD!Ranks' = RD!Ranks /\ bs' = bs /\ bs \in Nat BY <1>1, <1>2, SameRedSizes DEF RedTypes
<1>4. RD!TypeOK'
  <2>1. pc' \in [RD!Ranks -> RD!Locations]
    BY <1>1, <1>2 DEF RedTypes, RD!Locations
  <2>2. i' \in [RD!Ranks -> 0 .. RD!block_size]
    BY <1>1, <1>2, <1>3 DEF RedTypes, bs
  <2> QED
    BY <1>2, <2>1, <2>2 DEF RedView, RD!TypeOK, RD!Ranks, RD!Places, RD!block_size,
                RD!Messages, RD!Elements, RD!Locations
<1>5. RedPlaces'
  BY <1>1, <1>2, <1>3 DEF RedView, RedPlaces, RedTypes
<1>6. \A l \in {0, 1}, s \in RD!Ranks :
         Posted(l, s)' = Posted(l, s) /\ Got(l, s)' = Got(l, s)
  BY <1>1, <1>2, <1>3 DEF RedTypes, Posted, Got
<1> QED BY <1>1, <1>2, <1>4, <1>5, <1>6, NothingMoves DEF RedView, SameCounts

LEMMA LoopEndsStep ==
    ASSUME RedView, NEW r \in RD!Ranks, RD!LoopEnds(r)
    PROVE  RedView' /\ SameCounts
<1>1. RedTypes BY RedTypesAre DEF RedView
<1>2. /\ pc[r] = "post" /\ i[r] = bs /\ loop[r] \in 0 .. 2 /\ loop[r] < 2
      /\ pc' = [pc EXCEPT ![r] = "barrier"] /\ i' = [i EXCEPT ![r] = 0]
      /\ loop' = [loop EXCEPT ![r] = loop[r] + 1]
      /\ UNCHANGED <<p, eager, minus_one, block, cyclic, net, aborted>>
  BY <1>1 DEF RD!LoopEnds, RD!Goto, RedView, RedPlaces, RedTypes, bs
<1>3. RD!Ranks' = RD!Ranks /\ bs' = bs /\ bs \in Nat BY <1>1, <1>2, SameRedSizes DEF RedTypes
<1>4. RD!TypeOK'
  <2>1. pc' \in [RD!Ranks -> RD!Locations]
    BY <1>1, <1>2 DEF RedTypes, RD!Locations
  <2>2. i' \in [RD!Ranks -> 0 .. RD!block_size] /\ loop' \in [RD!Ranks -> 0 .. 2]
    BY <1>1, <1>2, <1>3 DEF RedTypes, bs
  <2> QED
    BY <1>2, <2>1, <2>2 DEF RedView, RD!TypeOK, RD!Ranks, RD!Places, RD!block_size,
                RD!Messages, RD!Elements, RD!Locations
<1>5. RedPlaces'
  BY <1>1, <1>2, <1>3 DEF RedView, RedPlaces, RedTypes
<1>6. \A l \in {0, 1}, s \in RD!Ranks :
         Posted(l, s)' = Posted(l, s) /\ Got(l, s)' = Got(l, s)
  <2> SUFFICES ASSUME NEW l \in {0, 1}, NEW s \in RD!Ranks
               PROVE  Posted(l, s)' = Posted(l, s) /\ Got(l, s)' = Got(l, s)
    OBVIOUS
  <2>1. CASE s # r
    BY <1>1, <1>2, <1>3, <2>1 DEF RedTypes, Posted, Got
  <2>2. CASE s = r
    <3>1. pc'[r] = "barrier" /\ i'[r] = 0 /\ loop'[r] = loop[r] + 1
      BY <1>1, <1>2 DEF RedTypes
    <3>2. CASE loop[r] < l
      BY <1>2, <1>3, <2>2, <3>1, <3>2 DEF Posted, Got
    <3>3. CASE loop[r] = l
      BY <1>2, <1>3, <2>2, <3>1, <3>3 DEF Posted, Got
    <3>4. CASE loop[r] > l
      BY <1>2, <1>3, <2>2, <3>1, <3>4 DEF Posted, Got
    <3> QED BY <1>2, <3>2, <3>3, <3>4
  <2> QED BY <2>1, <2>2
<1> QED BY <1>1, <1>2, <1>4, <1>5, <1>6, NothingMoves DEF RedView, SameCounts

(* What is computed for a rank is one, or negative. *)
LEMMA RankOrNegative ==
    ASSUME RedTypes, NEW x \in Int
    PROVE  RD!Remainder(x, p) >= 0 => RD!Remainder(x, p) \in RD!Ranks
<1>1. p \in Nat \ {0} /\ RD!Ranks = 0 .. p - 1 BY DEF RedTypes
<1>2. CASE x >= 0
  <2>1. x % p \in 0 .. p - 1 BY <1>1, <1>2, Divided
  <2> QED BY <1>1, <1>2, <2>1 DEF RD!Remainder
<1>3. CASE x < 0
  <2>1. PICK y \in Nat : y = -x BY <1>3
  <2>2. y % p \in 0 .. p - 1 BY <1>1, <2>1, Divided
  <2>3. RD!Remainder(x, p) = -(y % p) BY <1>3, <2>1 DEF RD!Remainder
  <2> QED BY <1>1, <2>2, <2>3
<1> QED BY <1>2, <1>3

LEMMA SendTo ==
    ASSUME RedTypes, NEW r \in RD!Ranks, RD!send_to(r) >= 0
    PROVE  RD!send_to(r) \in RD!Ranks
<1>1. /\ p \in Nat \ {0} /\ RD!Ranks = 0 .. p - 1 /\ bs \in Nat
      /\ r \in 0 .. p - 1 /\ i[r] \in 0 .. bs
  BY DEF RedTypes
<1>2. RD!Forwards(r) \in RD!Ranks
  <2>1. PICK z \in Nat : z = r + i[r] BY <1>1
  <2> QED BY <1>1, <2>1, Divided DEF RD!Forwards
<1>3. RD!Backwards(r) >= 0 => RD!Backwards(r) \in RD!Ranks
  <2>1. PICK x \in Int : x = r - i[r] + p BY <1>1
  <2> QED BY <2>1, RankOrNegative DEF RD!Backwards
<1> QED BY <1>2, <1>3 DEF RD!send_to

LEMMA ThereAndBack ==
    ASSUME RedTypes, Fits, NEW l \in {0, 1}, NEW s \in RD!Ranks, NEW k \in RD!Places
    PROVE  /\ Dest(l, s, k) \in RD!Ranks /\ Source(l, s, k) \in RD!Ranks
           /\ Source(l, Dest(l, s, k), k) = s
           /\ Dest(l, Source(l, s, k), k) = s
<1>1. p \in Sizes BY DEF RedTypes
<1>2. PICK f \in RD!Ranks, b \in RD!Ranks : f = Fwd(s, k) /\ b = Back(s, k)
  BY <1>1, Partners
<1>3. Back(f, k) = s BY <1>1, <1>2, Partners
<1>4. Fwd(b, k) = s BY <1>1, <1>2, Partners
<1> QED BY <1>2, <1>3, <1>4 DEF Dest, Source

(* The partners that a rank has computed. *)
LEMMA PartnersAre ==
    ASSUME RedTypes, NEW r \in RD!Ranks, loop[r] < 2
    PROVE  /\ RD!send_to(r) = Dest(loop[r], r, i[r])
           /\ RD!recv_from(r) = Source(loop[r], r, i[r])
<1>1. RD!Forwards(r) = Fwd(r, i[r]) BY DEF RD!Forwards, Fwd
<1>2. RD!Backwards(r) = Back(r, i[r]) BY DEF RD!Backwards, Back
<1> QED BY <1>1, <1>2 DEF RD!send_to, RD!recv_from, Dest, Source

LEMMA PostCounts ==
    ASSUME RedTypes, RedPlaces, NEW r \in RD!Ranks, RD!Post(r)
    PROVE  /\ Posted(loop[r], r) = i[r] /\ Posted(loop[r], r)' = i[r] + 1
           /\ i[r] \in RD!Places /\ loop[r] \in {0, 1}
           /\ \A l \in {0, 1}, s \in RD!Ranks :
                 /\ Got(l, s)' = Got(l, s)
                 /\ s # r \/ l # loop[r] => Posted(l, s)' = Posted(l, s)
<1>1. /\ pc[r] = "post" /\ i[r] \in Nat /\ i[r] < bs /\ bs \in Nat
      /\ loop[r] \in {0, 1}
      /\ pc' = [pc EXCEPT ![r] = "receive"]
      /\ loop' = loop /\ i' = i /\ p' = p
  <2>1. pc[r] = "post" /\ i[r] < bs /\ pc' = [pc EXCEPT ![r] = "receive"]
        /\ loop' = loop /\ i' = i /\ p' = p
    BY DEF RD!Post, RD!Goto, bs
  <2>2. i[r] \in 0 .. bs /\ loop[r] \in 0 .. 2 /\ bs \in Nat BY DEF RedTypes
  <2>3. loop[r] < 2 BY <2>1 DEF RedPlaces
  <2> QED BY <2>1, <2>2, <2>3
<1>2. bs' = bs BY <1>1, SameRedSizes
<1>3. i[r] \in RD!Places BY <1>1 DEF RedTypes
<1>4. Posted(loop[r], r) = i[r] BY <1>1 DEF Posted
<1>5. Posted(loop[r], r)' = i[r] + 1
  BY <1>1, <1>2 DEF Posted, RedTypes
<1>6. ASSUME NEW l \in {0, 1}, NEW s \in RD!Ranks
      PROVE  /\ Got(l, s)' = Got(l, s)
             /\ s # r \/ l # loop[r] => Posted(l, s)' = Posted(l, s)
  BY <1>1, <1>2 DEF RedTypes, Posted, Got
<1> QED BY <1>1, <1>3, <1>4, <1>5, <1>6

LEMMA PostKeeps ==
    ASSUME RedView, NEW r \in RD!Ranks, RD!Post(r) PROVE RD!TypeOK' /\ RedPlaces'
<1>1. RedTypes BY RedTypesAre DEF RedView
<1>2. /\ pc[r] = "post" /\ i[r] \in RD!Places /\ i[r] < bs /\ loop[r] < 2
      /\ loop[r] \in {0, 1}
      /\ pc' = [pc EXCEPT ![r] = "receive"]
      /\ UNCHANGED <<p, eager, minus_one, block, cyclic, loop, i>>
  <2>1. pc[r] = "post" /\ i[r] < bs /\ pc' = [pc EXCEPT ![r] = "receive"]
        /\ UNCHANGED <<p, eager, minus_one, block, cyclic, loop, i>>
    BY DEF RD!Post, RD!Goto, bs
  <2>2. i[r] \in RD!Places /\ loop[r] \in {0, 1} BY <1>1, PostCounts DEF RedView
  <2> QED BY <2>1, <2>2
<1>3. RD!Ranks' = RD!Ranks /\ bs' = bs /\ bs \in Nat BY <1>1, <1>2, SameRedSizes DEF RedTypes
<1>4. RD!TypeOK'
  <2>1. pc' \in [RD!Ranks -> RD!Locations]
    BY <1>1, <1>2 DEF RedTypes, RD!Locations
  <2>2. net' \subseteq RD!Messages /\ aborted' \in BOOLEAN
    <3>1. CASE RD!send_to(r) >= 0
      <4>1. RD!send_to(r) \in RD!Ranks BY <1>1, <3>1, SendTo
      <4>2. RD!Outgoing(r) \in RD!Elements
        BY <1>1, <1>2 DEF RedTypes, RD!Outgoing
      <4>3. [tag |-> loop[r], from |-> r, to |-> RD!send_to(r), nr |-> i[r],
             value |-> RD!Outgoing(r)] \in RD!Messages
        BY <1>1, <1>2, <4>1, <4>2 DEF RD!Messages
      <4> QED BY <3>1, <4>3 DEF RD!Post, RedView, RD!TypeOK
    <3>2. CASE ~(RD!send_to(r) >= 0)
      BY <3>2 DEF RD!Post, RedView, RD!TypeOK
    <3> QED BY <3>1, <3>2
  <2> QED
    BY <1>2, <2>1, <2>2 DEF RedView, RD!TypeOK, RD!Ranks, RD!Places, RD!block_size,
                RD!Messages, RD!Elements, RD!Locations
<1>5. RedPlaces'
  BY <1>1, <1>2, <1>3 DEF RedView, RedPlaces, RedTypes
<1> QED BY <1>4, <1>5

LEMMA PostStep ==
    ASSUME RedView, NEW r \in RD!Ranks, RD!Post(r) PROVE RedView'
<1>1. RedTypes /\ RedPlaces /\ Exact BY RedTypesAre DEF RedView
<1>2. /\ p' = p /\ block' = block /\ cyclic' = cyclic /\ loop' = loop /\ i' = i
  BY DEF RD!Post
<1>3. RD!Ranks' = RD!Ranks /\ RD!Places' = RD!Places /\ bs' = bs /\ bs \in Nat
  BY <1>1, <1>2, SameRedSizes DEF RedTypes
<1>4. PICK tag \in {0, 1} : tag = loop[r] BY <1>1, PostCounts
<1>5. PICK k0 \in RD!Places : k0 = i[r] BY <1>1, PostCounts
<1>6. Posted(tag, r) = k0 /\ Posted(tag, r)' = k0 + 1 /\ k0 \in Nat
  <2>1. k0 \in Nat BY <1>1, <1>5 DEF RedTypes
  <2>2. Posted(loop[r], r) = i[r] /\ Posted(loop[r], r)' = i[r] + 1
    BY <1>1, PostCounts
  <2>3. Posted(loop[r], r)' = Posted(tag, r)' BY <1>2, <1>4 DEF Posted
  <2> QED BY <1>4, <1>5, <2>1, <2>2, <2>3
<1>7. \A l \in {0, 1}, s \in RD!Ranks :
         /\ Got(l, s)' = Got(l, s)
         /\ s # r \/ l # tag => Posted(l, s)' = Posted(l, s)
         /\ Posted(l, s) \in Nat /\ Posted(l, s)' \in Nat /\ Posted(l, s) <= Posted(l, s)'
  BY <1>1, <1>4, <1>6, CountsAre, PostCounts
<1>8. PICK m0 :
         /\ m0.tag = tag /\ m0.from = r /\ m0.to = RD!send_to(r) /\ m0.nr = k0
         /\ m0.value = RD!Outgoing(r)
         /\ net' = net \cup {m0} \/ net' = net
         /\ RD!send_to(r) >= 0 => net' = net \cup {m0}
  <2> DEFINE m1 == [tag |-> tag, from |-> r, to |-> RD!send_to(r), nr |-> k0,
                    value |-> RD!Outgoing(r)]
  <2>1. IF RD!send_to(r) >= 0 THEN net' = net \cup {m1} ELSE net' = net
    BY <1>4, <1>5 DEF RD!Post
  <2>2. /\ m1.tag = tag /\ m1.from = r /\ m1.to = RD!send_to(r) /\ m1.nr = k0
        /\ m1.value = RD!Outgoing(r)
    OBVIOUS
  <2> QED BY <2>1, <2>2
<1>11. \A m \in net : m.tag \in {0, 1} /\ m.from \in RD!Ranks /\ m.to \in RD!Ranks
                      /\ m.nr \in Nat
  BY <1>1 DEF RedTypes
<1>12. NetOnce'
  <2>1. \A m \in net : m.nr < Posted(m.tag, m.from) /\ m.nr < Posted(m.tag, m.from)'
    BY <1>1, <1>7, <1>11 DEF Exact, NetOnce
  <2>2. \A m \in net' : m.nr < Posted(m.tag, m.from)'
    BY <1>6, <1>8, <2>1
  <2>3. \A m \in net : ~(m.tag = tag /\ m.from = r /\ m.nr = k0)
    BY <1>6, <2>1
  <2>4. \A m, o \in net' : m.tag = o.tag /\ m.from = o.from /\ m.nr = o.nr => m = o
    BY <1>1, <1>8, <2>3 DEF Exact, NetOnce
  <2> QED BY <2>2, <2>4 DEF NetOnce
<1>13. ASSUME Fits PROVE GotIsPosted' /\ NetExact' /\ ArraysExact'
  <2>1. GotIsPosted /\ NetExact /\ ArraysExact BY <1>1, <1>13 DEF Exact
  <2>2. \A l \in {0, 1}, s \in RD!Ranks, k \in RD!Places :
           Source(l, s, k) \in RD!Ranks /\ Dest(l, s, k) \in RD!Ranks /\ k \in Nat
    <3>1. \A k \in RD!Places : k \in Nat BY <1>1 DEF RedTypes
    <3> QED BY <1>1, <1>13, <3>1, ThereAndBack
  <2>3. \A l \in {0, 1}, s \in RD!Ranks : Got(l, s) \in Nat BY <1>1, CountsAre
  <2>4. GotIsPosted'
    <3> SUFFICES ASSUME NEW l \in {0, 1}, NEW s \in RD!Ranks, NEW k \in RD!Places,
                        k < Got(l, s)'
                 PROVE  k < Posted(l, Source(l, s, k))'
      BY <1>2, <1>3, SameRedSizes DEF GotIsPosted
    <3>1. k < Posted(l, Source(l, s, k)) BY <1>7, <2>1 DEF GotIsPosted
    <3>2. PICK q \in RD!Ranks : q = Source(l, s, k) BY <2>2
    <3>3. Source(l, s, k)' = q BY <1>2, <3>2, SameRedSizes
    <3>4. k < Posted(l, q)'
      <4>1. PICK x \in Nat, y \in Nat :
               x = Posted(l, q) /\ y = Posted(l, q)' /\ x <= y
        BY <1>7, <3>2
      <4>2. k \in Nat /\ k < x BY <2>2, <3>1, <3>2, <4>1
      <4> QED BY <4>1, <4>2
    <3> QED BY <3>3, <3>4
  <2>5. PICK d \in RD!Ranks : d = Dest(tag, r, k0) /\ d = RD!send_to(r)
    BY <1>1, <1>4, <1>5, <2>2, PartnersAre
  <2>6. net' = net \cup {m0}
    <3>1. d >= 0 BY <1>1 DEF RedTypes
    <3> QED BY <1>8, <2>5, <3>1
  <2>7. RD!Outgoing(r) = Sent(tag, r, k0)
    <3>1. CASE tag = 0
      <4>1. RD!Outgoing(r) = block[r][k0] BY <1>4, <1>5, <3>1 DEF RD!Outgoing
      <4> QED BY <2>1, <3>1, <4>1 DEF ArraysExact, Sent
    <3>2. CASE tag = 1
      <4>1. RD!Outgoing(r) = cyclic[r][k0] BY <1>4, <1>5, <3>2 DEF RD!Outgoing
      <4>2. Got(0, r) = bs BY <1>4, <3>2 DEF Got
      <4>3. k0 < bs BY <1>1 DEF RedTypes
      <4> QED BY <2>1, <3>2, <4>1, <4>2, <4>3 DEF ArraysExact, Sent
    <3> QED BY <3>1, <3>2
  <2>8. Got(tag, d) <= k0
    <3>1. Source(tag, d, k0) = r 
      <4>1. Source(tag, Dest(tag, r, k0), k0) = r BY <1>1, <1>13, ThereAndBack
      <4> QED BY <2>5, <4>1
    <3>2. ~(k0 < Got(tag, d)) BY <1>6, <2>1, <3>1 DEF GotIsPosted
    <3> QED BY <1>6, <2>3, <3>2
  <2>9. \A m \in net' : /\ m.to = Dest(m.tag, m.from, m.nr)'
                        /\ m.value = Sent(m.tag, m.from, m.nr)'
    <3>1. \A m \in net' : /\ m.to = Dest(m.tag, m.from, m.nr)
                          /\ m.value = Sent(m.tag, m.from, m.nr)
      BY <1>8, <2>1, <2>5, <2>6, <2>7 DEF NetExact
    <3> QED BY <1>2, <3>1, SameRedSizes
  <2>10. \A m \in net' : Got(m.tag, m.to)' <= m.nr
    <3>1. \A m \in net : Got(m.tag, m.to)' <= m.nr BY <1>7, <1>11, <2>1 DEF NetExact
    <3>2. Got(m0.tag, m0.to)' <= m0.nr BY <1>7, <1>8, <2>5, <2>8
    <3> QED BY <2>6, <3>1, <3>2
  <2>11. ASSUME NEW l \in {0, 1}, NEW s \in RD!Ranks, NEW k \in RD!Places,
                k < Posted(l, s)', Got(l, Dest(l, s, k))' <= k
         PROVE  \E m \in net' : m.tag = l /\ m.from = s /\ m.nr = k
    <3>1. CASE k < Posted(l, s)
      <4>1. PICK e \in RD!Ranks : e = Dest(l, s, k) BY <2>2
      <4>2. Dest(l, s, k)' = e BY <1>2, <4>1, SameRedSizes
      <4>3. Got(l, e) <= k BY <1>7, <2>11, <4>2
      <4>4. \E m \in net : m.tag = l /\ m.from = s /\ m.nr = k
        BY <2>1, <3>1, <4>1, <4>3 DEF NetExact
      <4> QED BY <2>6, <4>4
    <3>2. CASE ~(k < Posted(l, s))
      <4>1. s = r /\ l = tag BY <1>7, <2>11, <3>2
      <4>2. k = k0 BY <1>6, <2>2, <2>11, <3>2, <4>1
      <4> QED BY <1>8, <2>6, <4>1, <4>2
    <3> QED BY <3>1, <3>2
  <2>12. NetExact' BY <1>2, <1>3, <2>9, <2>10, <2>11 DEF NetExact
  <2>13. ArraysExact'
    <3>1. \A s \in RD!Ranks : Got(0, s)' = Got(0, s) BY <1>7
    <3> QED BY <1>2, <1>3, <2>1, <3>1, SameRedSizes DEF ArraysExact
  <2> QED BY <2>4, <2>12, <2>13
<1>14. Fits' = Fits BY <1>2, SameRedSizes
<1> QED BY <1>12, <1>13, <1>14, PostKeeps DEF RedView, Exact

LEMMA ReceiveCounts ==
    ASSUME RedTypes, RedPlaces, NEW r \in RD!Ranks, RD!Receive(r)
    PROVE  /\ pc[r] = "receive" /\ pc' = [pc EXCEPT ![r] = "return"]
           /\ UNCHANGED <<p, eager, minus_one, loop, i, aborted>>
           /\ i[r] \in RD!Places /\ loop[r] \in {0, 1} /\ i[r] < bs
           /\ Got(loop[r], r) = i[r]
           /\ \A l \in {0, 1}, s \in RD!Ranks :
                 /\ Posted(l, s)' = Posted(l, s)
                 /\ s # r \/ l # loop[r] => Got(l, s)' = Got(l, s)
                 /\ s = r /\ l = loop[r] => Got(l, s)' = i[r] + 1
<1>1. /\ pc[r] = "receive" /\ pc' = [pc EXCEPT ![r] = "return"]
      /\ loop' = loop /\ i' = i /\ p' = p
      /\ UNCHANGED <<p, eager, minus_one, loop, i, aborted>>
  BY DEF RD!Receive, RD!Goto
<1>2. i[r] \in 0 .. bs /\ loop[r] \in 0 .. 2 /\ bs \in Nat BY DEF RedTypes
<1>3. i[r] < bs /\ loop[r] < 2 BY <1>1 DEF RedPlaces
<1>4. i[r] \in RD!Places BY <1>2, <1>3 DEF RedTypes
<1>5. bs' = bs BY <1>1, SameRedSizes
<1>6. Got(loop[r], r) = i[r] BY <1>1, <1>2 DEF Got
<1>7. ASSUME NEW l \in {0, 1}, NEW s \in RD!Ranks
      PROVE  /\ Posted(l, s)' = Posted(l, s)
             /\ s # r \/ l # loop[r] => Got(l, s)' = Got(l, s)
             /\ s = r /\ l = loop[r] => Got(l, s)' = i[r] + 1
  <2>1. CASE s # r BY <1>1, <1>5, <2>1 DEF RedTypes, Posted, Got
  <2>2. CASE s = r
    <3>1. pc'[r] = "return" /\ loop'[r] = loop[r] /\ i'[r] = i[r]
      BY <1>1 DEF RedTypes
    <3>2. CASE loop[r] < l BY <1>1, <1>2, <1>5, <2>2, <3>1, <3>2 DEF Posted, Got
    <3>3. CASE loop[r] = l BY <1>1, <1>2, <1>5, <2>2, <3>1, <3>3 DEF Posted, Got
    <3>4. CASE loop[r] > l BY <1>1, <1>2, <1>5, <2>2, <3>1, <3>4 DEF Posted, Got
    <3> QED BY <1>2, <3>2, <3>3, <3>4
  <2> QED BY <2>1, <2>2
<1> QED BY <1>1, <1>2, <1>3, <1>4, <1>6, <1>7

LEMMA ReceiveKeeps ==
    ASSUME RedView, NEW r \in RD!Ranks, RD!Receive(r) PROVE RD!TypeOK' /\ RedPlaces'
<1>1. RedTypes /\ RedPlaces BY RedTypesAre DEF RedView
<1>2. /\ pc[r] = "receive" /\ pc' = [pc EXCEPT ![r] = "return"]
      /\ UNCHANGED <<p, eager, minus_one, loop, i, aborted>>
      /\ i[r] \in RD!Places /\ loop[r] \in {0, 1} /\ i[r] < bs
  BY <1>1, ReceiveCounts
<1>3. RD!Ranks' = RD!Ranks /\ bs' = bs /\ bs \in Nat BY <1>1, <1>2, SameRedSizes DEF RedTypes
<1>4. RD!TypeOK'
  <2>1. pc' \in [RD!Ranks -> RD!Locations]
    BY <1>1, <1>2 DEF RedTypes, RD!Locations
  <2>2. /\ net' \subseteq RD!Messages
        /\ block' \in [RD!Ranks -> [RD!Places -> RD!Elements]]
        /\ cyclic' \in [RD!Ranks -> [RD!Places -> RD!Elements]]
    <3>1. CASE UNCHANGED <<block, cyclic, net>>
      BY <3>1 DEF RedView, RD!TypeOK
    <3>2. CASE \E m \in RD!Receivable(r) : RD!Store(r, m.value) /\ net' = net \ {m}
      <4>1. PICK m \in net : RD!Store(r, m.value) /\ net' = net \ {m}
        BY <3>2 DEF RD!Receivable
      <4>2. m.value \in RD!Elements BY <1>1 DEF RedTypes
      <4>3. \/ cyclic' = [cyclic EXCEPT ![r][i[r]] = m.value] /\ UNCHANGED block
            \/ block' = [block EXCEPT ![r][i[r]] = m.value] /\ UNCHANGED cyclic
        BY <4>1 DEF RD!Store
      <4>4. net' \subseteq RD!Messages BY <4>1 DEF RedView, RD!TypeOK
      <4>5. /\ [block EXCEPT ![r][i[r]] = m.value]
                   \in [RD!Ranks -> [RD!Places -> RD!Elements]]
            /\ [cyclic EXCEPT ![r][i[r]] = m.value]
                   \in [RD!Ranks -> [RD!Places -> RD!Elements]]
        BY <1>1, <1>2, <4>2 DEF RedTypes
      <4>6. /\ block \in [RD!Ranks -> [RD!Places -> RD!Elements]]
            /\ cyclic \in [RD!Ranks -> [RD!Places -> RD!Elements]]
        BY <1>1 DEF RedTypes
      <4> QED BY <4>3, <4>4, <4>5, <4>6
    <3> QED BY <3>1, <3>2 DEF RD!Receive
  <2> QED
    BY <1>2, <2>1, <2>2 DEF RedView, RD!TypeOK, RD!Ranks, RD!Places, RD!block_size,
                RD!Messages, RD!Elements, RD!Locations
<1>5. RedPlaces'
  BY <1>1, <1>2, <1>3 DEF RedPlaces, RedTypes
<1> QED BY <1>4, <1>5

(* What a rank receives is the element of the place it is at. *)
LEMMA Received ==
    ASSUME RedTypes, RedPlaces, NetOnce, GotIsPosted, NetExact, Fits,
           NEW r \in RD!Ranks, RD!Receive(r)
    PROVE  \E m \in net :
              /\ m.tag = loop[r] /\ m.from = Source(loop[r], r, i[r])
              /\ m.to = r /\ m.nr = i[r]
              /\ m.value = Sent(loop[r], m.from, i[r])
              /\ RD!Store(r, m.value) /\ net' = net \ {m}
<1>1. PICK l \in {0, 1} : l = loop[r] BY ReceiveCounts
<1>2. PICK k \in RD!Places : k = i[r] BY ReceiveCounts
<1>3. k \in Nat /\ loop[r] < 2 /\ Got(l, r) = k
  <2>1. Got(loop[r], r) = i[r] BY ReceiveCounts
  <2> QED BY <1>1, <1>2, <2>1 DEF RedTypes
<1>4. PICK s \in RD!Ranks : s = Source(l, r, k) /\ Dest(l, s, k) = r
  BY ThereAndBack
<1>5. RD!recv_from(r) = s /\ s \in Nat
  <2>1. RD!recv_from(r) = Source(loop[r], r, i[r]) BY <1>3, PartnersAre
  <2>2. s \in Nat BY <1>4 DEF RedTypes
  <2> QED BY <1>1, <1>2, <1>4, <2>1, <2>2
<1>6. PICK m \in RD!Receivable(r) : RD!Store(r, m.value) /\ net' = net \ {m}
  <2>1. s # -1 BY <1>5
  <2> QED BY <1>5, <2>1 DEF RD!Receive
<1>7. /\ m \in net /\ m.to = r /\ m.tag = l /\ m.from = s
      /\ \A o \in net : o.to = r /\ o.tag = l /\ o.from = s => m.nr <= o.nr
  BY <1>1, <1>5, <1>6 DEF RD!Receivable
<1>8. m.nr \in Nat /\ k <= m.nr /\ m.nr < Posted(l, s) /\ Posted(l, s) \in Nat
  <2>1. m.nr \in RD!Places /\ RD!Places \subseteq Nat BY <1>7 DEF RedTypes
  <2>2. m.nr < Posted(m.tag, m.from) BY <1>7 DEF NetOnce
  <2>3. Got(m.tag, m.to) <= m.nr BY <1>7 DEF NetExact
  <2>4. Posted(l, s) \in Nat
    <3>1. Posted(l, s) \in 0 .. bs BY CountsAre
    <3>2. bs \in Nat BY DEF RedTypes
    <3> QED BY <3>1, <3>2
  <2>5. m.nr < Posted(l, s) BY <1>7, <2>2
  <2>6. k <= m.nr BY <1>3, <1>7, <2>3
  <2>7. m.nr \in Nat BY <2>1
  <2> QED BY <2>4, <2>5, <2>6, <2>7
<1>9. PICK o \in net : o.tag = l /\ o.from = s /\ o.nr = k
  <2>1. k < Posted(l, s) BY <1>3, <1>8
  <2>2. Got(l, Dest(l, s, k)) <= k BY <1>3, <1>4
  <2> QED BY <2>1, <2>2 DEF NetExact
<1>10. o.to = r
  <2>1. o.to = Dest(o.tag, o.from, o.nr) BY DEF NetExact
  <2> QED BY <1>4, <1>9, <2>1
<1>11. m.nr = k
  <2>1. m.nr <= k BY <1>7, <1>9, <1>10
  <2> QED BY <1>3, <1>8, <2>1
<1>12. m.value = Sent(l, s, k)
  <2>1. m.value = Sent(m.tag, m.from, m.nr) BY <1>7 DEF NetExact
  <2> QED BY <1>7, <1>11, <2>1
<1> QED BY <1>1, <1>2, <1>4, <1>6, <1>7, <1>11, <1>12

LEMMA ReceiveExact ==
    ASSUME RedTypes, RedPlaces, NetOnce, GotIsPosted, NetExact, ArraysExact, Fits,
           NEW r \in RD!Ranks, RD!Receive(r)
    PROVE  GotIsPosted' /\ NetExact' /\ ArraysExact'
<1>1. PICK l \in {0, 1} : l = loop[r] BY ReceiveCounts
<1>2. PICK k0 \in RD!Places : k0 = i[r] BY ReceiveCounts
<1>3. k0 \in Nat /\ Got(l, r) = k0
  <2>1. Got(loop[r], r) = i[r] BY ReceiveCounts
  <2> QED BY <1>1, <1>2, <2>1 DEF RedTypes
<1>4. p' = p BY ReceiveCounts
<1>5. RD!Ranks' = RD!Ranks /\ RD!Places' = RD!Places BY <1>4, SameRedSizes
<1>6. \A u \in {0, 1}, s \in RD!Ranks :
         /\ Posted(u, s)' = Posted(u, s)
         /\ s # r \/ u # l => Got(u, s)' = Got(u, s)
         /\ Posted(u, s) \in Nat /\ Got(u, s) \in Nat
  BY <1>1, ReceiveCounts, CountsAre
<1>7. Got(l, r)' = k0 + 1
  <2>1. \A u \in {0, 1}, s \in RD!Ranks : s = r /\ u = loop[r] => Got(u, s)' = i[r] + 1
    BY ReceiveCounts
  <2> QED BY <1>1, <1>2, <2>1
<1>8. PICK s0 \in RD!Ranks : s0 = Source(l, r, k0) /\ Dest(l, s0, k0) = r
  BY ThereAndBack
<1>9. PICK m \in net : /\ m.tag = l /\ m.from = s0 /\ m.to = r /\ m.nr = k0
                       /\ m.value = Sent(l, s0, k0)
                       /\ RD!Store(r, m.value) /\ net' = net \ {m}
  BY <1>1, <1>2, <1>8, Received
<1>10. \A u \in {0, 1}, s \in RD!Ranks, k \in RD!Places :
          Source(u, s, k) \in RD!Ranks /\ Dest(u, s, k) \in RD!Ranks /\ k \in Nat
  <2>1. \A k \in RD!Places : k \in Nat BY DEF RedTypes
  <2> QED BY <2>1, ThereAndBack
<1>11. \A o \in net : /\ o.tag \in {0, 1} /\ o.from \in RD!Ranks /\ o.to \in RD!Ranks
                      /\ o.nr \in RD!Places
  BY DEF RedTypes
<1>12. GotIsPosted'
  <2> SUFFICES ASSUME NEW u \in {0, 1}, NEW s \in RD!Ranks, NEW k \in RD!Places,
                      k < Got(u, s)'
               PROVE  k < Posted(u, Source(u, s, k))'
    BY <1>4, <1>5, SameRedSizes DEF GotIsPosted
  <2>1. PICK q \in RD!Ranks : q = Source(u, s, k) BY <1>10
  <2>2. Source(u, s, k)' = q BY <1>4, <2>1, SameRedSizes
  <2>3. k < Posted(u, q)
    <3>1. CASE k < Got(u, s) BY <2>1, <3>1 DEF GotIsPosted
    <3>2. CASE ~(k < Got(u, s))
      <4>1. s = r /\ u = l BY <1>6, <3>2
      <4>2. k = k0 BY <1>3, <1>7, <1>10, <3>2, <4>1
      <4>3. m.nr < Posted(m.tag, m.from) BY DEF NetOnce
      <4>4. q = s0 BY <1>8, <2>1, <4>1, <4>2
      <4> QED BY <1>9, <4>1, <4>2, <4>3, <4>4
    <3> QED BY <3>1, <3>2
  <2>4. k < Posted(u, q)' BY <1>6, <2>3
  <2> QED BY <2>2, <2>4
<1>13. \A o \in net' : /\ o.to = Dest(o.tag, o.from, o.nr)'
                       /\ o.value = Sent(o.tag, o.from, o.nr)'
  <2>1. \A o \in net' : /\ o.to = Dest(o.tag, o.from, o.nr)
                        /\ o.value = Sent(o.tag, o.from, o.nr)
    BY <1>9 DEF NetExact
  <2> QED BY <1>4, <2>1, SameRedSizes
<1>14. ASSUME NEW o \in net' PROVE Got(o.tag, o.to)' <= o.nr
  <2>1. o \in net /\ o # m BY <1>9
  <2>2. Got(o.tag, o.to) <= o.nr /\ o.to = Dest(o.tag, o.from, o.nr)
    BY <2>1 DEF NetExact
  <2>3. CASE o.tag = l /\ o.to = r
    <3>1. o.nr # k0
      <4> SUFFICES ASSUME o.nr = k0 PROVE FALSE OBVIOUS
      <4>1. Dest(l, o.from, k0) = r BY <2>2, <2>3
      <4>2. Source(l, Dest(l, o.from, k0), k0) = o.from
        BY <1>11, <2>1, ThereAndBack
      <4>3. o.from = s0 BY <1>8, <4>1, <4>2
      <4> QED BY <1>9, <2>1, <2>3, <4>3 DEF NetOnce
    <3>2. o.nr \in Nat BY <1>10, <1>11, <2>1
    <3> QED BY <1>3, <1>7, <2>2, <2>3, <3>1, <3>2
  <2>4. CASE ~(o.tag = l /\ o.to = r)
    BY <1>6, <1>11, <2>1, <2>2, <2>4
  <2> QED BY <2>3, <2>4
<1>15. ASSUME NEW u \in {0, 1}, NEW s \in RD!Ranks, NEW k \in RD!Places,
              k < Posted(u, s)', Got(u, Dest(u, s, k))' <= k
       PROVE  \E o \in net' : o.tag = u /\ o.from = s /\ o.nr = k
  <2>1. PICK d \in RD!Ranks : d = Dest(u, s, k) BY <1>10
  <2>2. Dest(u, s, k)' = d BY <1>4, <2>1, SameRedSizes
  <2>3. Got(u, d)' <= k /\ k < Posted(u, s) /\ k \in Nat BY <1>6, <1>10, <1>15, <2>2
  <2>4. Got(u, d) <= k BY <1>3, <1>6, <1>7, <2>3
  <2>5. PICK o \in net : o.tag = u /\ o.from = s /\ o.nr = k
    BY <2>1, <2>3, <2>4 DEF NetExact
  <2>6. o # m
    <3> SUFFICES ASSUME o = m PROVE FALSE OBVIOUS
    <3>1. u = l /\ s = s0 /\ k = k0 BY <1>9, <2>5
    <3>2. d = r BY <1>8, <2>1, <3>1
    <3> QED BY <1>3, <1>7, <2>3, <3>1, <3>2
  <2> QED BY <1>9, <2>5, <2>6
<1>16. NetExact' BY <1>4, <1>5, <1>13, <1>14, <1>15 DEF NetExact
<1>17. ArraysExact'
  <2> SUFFICES ASSUME NEW s \in RD!Ranks, NEW k \in RD!Places
               PROVE  /\ block'[s][k] = Val(s, k)
                      /\ k < Got(0, s)' => cyclic'[s][k] = Val(Back(s, k), k)
    BY <1>4, <1>5, SameRedSizes DEF ArraysExact
  <2>1. /\ block[s][k] = Val(s, k)
        /\ k < Got(0, s) => cyclic[s][k] = Val(Back(s, k), k)
    BY DEF ArraysExact
  <2>2. CASE l = 0
    <3>1. cyclic' = [cyclic EXCEPT ![r][k0] = m.value] /\ block' = block
      BY <1>1, <1>2, <1>9, <2>2 DEF RD!Store
    <3>2. m.value = Val(Back(r, k0), k0) BY <1>8, <1>9, <2>2 DEF Sent, Source
    <3>3. CASE s = r /\ k = k0
      <4>1. cyclic'[r][k0] = m.value BY <3>1 DEF RedTypes
      <4> QED BY <2>1, <3>1, <3>2, <3>3, <4>1
    <3>4. CASE ~(s = r /\ k = k0)
      <4>1. cyclic'[s][k] = cyclic[s][k] BY <3>1, <3>4 DEF RedTypes
      <4>2. k < Got(0, s)' => k < Got(0, s)
        <5>1. CASE s # r BY <1>6, <5>1
        <5>2. CASE s = r
          <6>1. k \in Nat /\ k # k0 BY <1>10, <3>4, <5>2
          <6> QED BY <1>3, <1>7, <2>2, <5>2, <6>1
        <5> QED BY <5>1, <5>2
      <4> QED BY <2>1, <3>1, <4>1, <4>2
    <3> QED BY <3>3, <3>4
  <2>3. CASE l = 1
    <3>1. block' = [block EXCEPT ![r][k0] = m.value] /\ cyclic' = cyclic
      BY <1>1, <1>2, <1>9, <2>3 DEF RD!Store
    <3>2. m.value = Val(r, k0)
      <4>1. m.value = Val(Back(s0, k0), k0) BY <1>9, <2>3 DEF Sent
      <4>2. Back(s0, k0) = r BY <1>8, <2>3 DEF Dest
      <4> QED BY <4>1, <4>2
    <3>3. block'[s][k] = Val(s, k)
      BY <2>1, <3>1, <3>2 DEF RedTypes
    <3>4. Got(0, s)' = Got(0, s) BY <1>6, <2>3
    <3> QED BY <2>1, <3>1, <3>3, <3>4
  <2> QED BY <2>2, <2>3
<1> QED BY <1>12, <1>16, <1>17

LEMMA ReceiveStep ==
    ASSUME RedView, NEW r \in RD!Ranks, RD!Receive(r) PROVE RedView'
<1>1. RedTypes /\ RedPlaces /\ Exact BY RedTypesAre DEF RedView
<1>2. NetOnce'
  <2>1. net' \subseteq net
    BY DEF RD!Receive, RD!Receivable
  <2>2. \A m \in net : Posted(m.tag, m.from)' = Posted(m.tag, m.from)
    BY <1>1, ReceiveCounts DEF RedTypes
  <2> QED BY <1>1, <2>1, <2>2 DEF Exact, NetOnce
<1>3. Fits' = Fits
  <2>1. p' = p BY DEF RD!Receive
  <2> QED BY <2>1, SameRedSizes
<1> QED BY <1>1, <1>2, <1>3, ReceiveKeeps, ReceiveExact DEF RedView, Exact

--------------------------------------------------------------------------------
(* Redistribution: the two ranks of which one computes -1. *)

LEMMA OfTwoRanks ==
    ASSUME p = 2
    PROVE  /\ Back(0, 3) = -1
           /\ Fwd(1, 1) = 0 /\ Fwd(1, 3) = 0
           /\ \A k \in Nat : Back(0, k) = 1 => k = 1
<1>1. Back(0, 3) = -1
  <2>1. 0 - 3 + p = -1 /\ ~(-1 >= 0) OBVIOUS
  <2>2. -((-(-1)) % 2) = -1 OBVIOUS
  <2> QED BY <2>1, <2>2 DEF Back, RD!Remainder
<1>2. Fwd(1, 1) = 0 /\ Fwd(1, 3) = 0
  <2>1. (1 + 1) % 2 = 0 /\ (1 + 3) % 2 = 0 OBVIOUS
  <2> QED BY <2>1 DEF Fwd
<1>3. ASSUME NEW k \in Nat, Back(0, k) = 1 PROVE k = 1
  <2>1. PICK x \in Int : x = 0 - k + p OBVIOUS
  <2>2. RD!Remainder(x, 2) = 1 BY <1>3, <2>1 DEF Back
  <2>3. CASE x >= 0
    <3>1. x \in {0, 1, 2} BY <2>1, <2>3
    <3>2. x % 2 = 1 BY <2>2, <2>3 DEF RD!Remainder
    <3> QED BY <2>1, <3>1, <3>2
  <2>4. CASE ~(x >= 0)
    <3>1. PICK y \in Nat : y = -x BY <2>4
    <3>2. -(y % 2) = 1 BY <2>2, <2>4, <3>1 DEF RD!Remainder
    <3>3. y % 2 \in 0 .. 1 BY <3>1
    <3> QED BY <3>2, <3>3
  <2> QED BY <2>3, <2>4
<1> QED BY <1>1, <1>2, <1>3

LEMMA TwoRanks ==
    ASSUME RedTypes, RedPlaces, p = 2
    PROVE  /\ RD!Ranks = {0, 1} /\ 0 \in RD!Ranks /\ 1 \in RD!Ranks
           /\ loop[0] \in 0 .. 2 /\ i[0] \in Nat /\ i[0] <= bs
           /\ loop[1] \in 0 .. 2 /\ i[1] \in Nat /\ i[1] <= bs
           /\ bs \in Nat /\ Posted(1, 0) \in Nat /\ Got(1, 1) \in Nat
<1>1. RD!Ranks = {0, 1}
  <2>1. RD!Ranks = 0 .. 1 BY DEF RedTypes
  <2> QED BY <2>1
<1>2. PICK a \in RD!Ranks, b \in RD!Ranks : a = 0 /\ b = 1 BY <1>1
<1>3. /\ loop[a] \in 0 .. 2 /\ i[a] \in 0 .. bs
      /\ loop[b] \in 0 .. 2 /\ i[b] \in 0 .. bs /\ bs \in Nat
  BY DEF RedTypes
<1>4. PICK l \in {0, 1} : l = 1 OBVIOUS
<1>5. Posted(l, a) \in 0 .. bs /\ Got(l, b) \in 0 .. bs BY CountsAre
<1> QED BY <1>1, <1>2, <1>3, <1>4, <1>5

(* If it is an error: rank 0 stops at its send to -1. *)
LEMMA ErrorStops ==
    ASSUME RedView, p = 2, bs > 3, RankZeroHeld, minus_one = "any source",
           NEW r \in RD!Ranks, RD!RankStep(r)
    PROVE  RankZeroHeld'
<1>1. RedTypes /\ RedPlaces BY RedTypesAre DEF RedView
<1>2. PICK z \in RD!Ranks : z = 0 BY <1>1, TwoRanks
<1>3. loop[z] \in 0 .. 2 /\ i[z] \in Nat /\ i[z] <= bs /\ bs \in Nat
  BY <1>1, <1>2, TwoRanks
<1>4. /\ loop[z] <= 1
      /\ loop[z] = 1 => i[z] <= 3 /\ (i[z] = 3 => pc[z] = "post")
  BY <1>2 DEF RankZeroHeld, RD!RankStep
<1> SUFFICES /\ loop'[z] <= 1
             /\ loop'[z] = 1 => i'[z] <= 3 /\ (i'[z] = 3 => pc'[z] = "post" \/ aborted' = TRUE)
  BY <1>2 DEF RankZeroHeld
<1>5. CASE r # z
  <2>1. loop'[z] = loop[z] /\ i'[z] = i[z] /\ pc'[z] = pc[z]
    BY <1>1, <1>5 DEF RedTypes, RD!RankStep, RD!Barrier, RD!Post, RD!Receive,
         RD!Return, RD!LoopEnds, RD!Goto
  <2> QED BY <1>4, <2>1
<1>6. CASE RD!Barrier(z)
  <2>1. loop'[z] = loop[z] /\ i'[z] = i[z] /\ pc[z] = "barrier"
    BY <1>6 DEF RD!Barrier, RD!Goto
  <2> QED BY <1>4, <2>1
<1>7. CASE RD!Post(z)
  <2>1. loop'[z] = loop[z] /\ i'[z] = i[z] BY <1>7 DEF RD!Post
  <2>2. ASSUME loop[z] = 1, i[z] = 3 PROVE aborted' = TRUE
    <3>1. RD!send_to(z) = Back(z, 3)
      BY ONLY <2>2 DEF RD!send_to, RD!Backwards, Back
    <3>2. RD!send_to(z) = -1 BY <1>2, <3>1, OfTwoRanks
    <3>3. ~(RD!send_to(z) >= 0) BY ONLY <3>2
    <3> QED BY <1>7, <3>3 DEF RD!Post
  <2> QED BY <1>4, <2>1, <2>2
<1>8. CASE RD!Receive(z)
  <2>1. loop'[z] = loop[z] /\ i'[z] = i[z] /\ pc[z] = "receive"
    BY <1>8 DEF RD!Receive, RD!Goto
  <2> QED BY <1>4, <2>1
<1>9. CASE RD!Return(z)
  <2>1. loop'[z] = loop[z] /\ i'[z] = i[z] + 1 /\ pc[z] = "return" /\ pc'[z] = "post"
    BY <1>1, <1>9 DEF RD!Return, RD!Goto, RedTypes
  <2>2. loop[z] = 1 => i[z] < 3 BY ONLY <1>3, <1>4, <2>1
  <2>3. loop[z] = 1 => i[z] + 1 <= 3 BY ONLY <1>3, <2>2
  <2> QED BY <1>4, <2>1, <2>3
<1>10. CASE RD!LoopEnds(z)
  <2>1. loop'[z] = loop[z] + 1 /\ i'[z] = 0 /\ i[z] = bs
    BY <1>1, <1>10 DEF RD!LoopEnds, RedTypes, bs
  <2>2. bs > 3 OBVIOUS
  <2>3. loop[z] + 1 = 1 BY ONLY <1>3, <1>4, <2>1, <2>2
  <2>4. 0 <= 3 /\ 0 # 3 /\ 1 <= 1 BY ONLY TRUE
  <2> QED BY <2>1, <2>3, <2>4
<1> QED BY <1>5, <1>6, <1>7, <1>8, <1>9, <1>10 DEF RD!RankStep

(* If it is nobody: rank 0 sends rank 1 the one element and no other, for the    *)
(* rest of which it waits.                                                       *)
LEMMA NobodySends ==
    ASSUME RedView, p = 2, bs > 3, RankOneHeld, OneSent,
           NEW r \in RD!Ranks, RD!Post(r)
    PROVE  RankOneHeld' /\ OneSent'
<1>1. RedTypes /\ RedPlaces BY RedTypesAre DEF RedView
<1>2. PICK z \in RD!Ranks, o \in RD!Ranks : z = 0 /\ o = 1 BY <1>1, TwoRanks
<1>3. PICK b \in {0, 1} : b = 1 OBVIOUS
<1>4. Posted(b, z) \in Nat /\ Got(b, o) \in Nat /\ i[z] \in Nat
  BY <1>1, <1>2, <1>3, TwoRanks
<1>5. loop' = loop /\ i' = i /\ pc[r] = "post" /\ pc' = [pc EXCEPT ![r] = "receive"]
  BY DEF RD!Post, RD!Goto
<1>6. RankOneHeld'
  <2>1. pc'[o] = pc[o] \/ pc'[o] = "receive" BY <1>1, <1>5 DEF RedTypes
  <2>2. loop'[o] = loop[o] /\ i'[o] = i[o] BY <1>5
  <2> QED BY <1>2, <2>1, <2>2 DEF RankOneHeld
<1>7. Got(b, o)' = Got(b, o) BY <1>1, PostCounts
<1>8. Posted(b, z)' = Posted(b, z) \/ (r = z /\ Posted(b, z)' = Posted(b, z) + 1)
  <2>1. CASE r = z /\ loop[r] = b
    <3>1. Posted(loop[r], r) = i[r] /\ (Posted(loop[r], r))' = i[r] + 1
      BY <1>1, PostCounts
    <3>2. loop'[r] = b BY <1>5, <2>1
    <3> QED BY <2>1, <3>1, <3>2
  <2>2. CASE ~(r = z /\ loop[r] = b)
    BY <1>1, <2>2, PostCounts
  <2> QED BY <2>1, <2>2
<1>9. ASSUME NEW m \in net', m \notin net, m.tag = b, m.from = z, m.to = o
      PROVE  r = z /\ loop[z] = b /\ i[z] = 1 /\ m.nr = 1
  <2>1. m.tag = loop[r] /\ m.from = r /\ m.to = RD!send_to(r) /\ m.nr = i[r]
    <3>1. m = [tag |-> loop[r], from |-> r, to |-> RD!send_to(r), nr |-> i[r],
               value |-> RD!Outgoing(r)]
      BY <1>9 DEF RD!Post
    <3> QED BY <3>1
  <2>2. r = z /\ loop[z] = b BY <1>9, <2>1
  <2>3. RD!send_to(z) = Back(z, i[z])
    BY <1>3, <2>2 DEF RD!send_to, RD!Backwards, Back
  <2>4. Back(0, i[z]) = 1 BY <1>2, <1>9, <2>1, <2>2, <2>3
  <2>5. i[z] = 1 BY <1>4, <2>4, OfTwoRanks
  <2> QED BY <2>1, <2>2, <2>5
<1>10. \A m \in net' : m.tag = b /\ m.from = z /\ m.to = o => m.nr = 1
  BY <1>2, <1>3, <1>9 DEF OneSent
<1>11. ASSUME Got(b, o)' > 1
       PROVE  /\ Posted(b, z)' > 1
              /\ \A m \in net' : ~(m.tag = b /\ m.from = z /\ m.to = o)
  <2>1. Posted(b, z) > 1 /\ \A m \in net : ~(m.tag = b /\ m.from = z /\ m.to = o)
    BY <1>2, <1>3, <1>7, <1>11 DEF OneSent
  <2>2. ASSUME NEW m \in net', m.tag = b, m.from = z, m.to = o PROVE FALSE
    <3>1. r = z /\ loop[z] = b /\ i[z] = 1 BY <1>9, <2>1, <2>2
    <3>2. Posted(b, z) = 1 BY <1>3, <1>5, <3>1 DEF Posted
    <3> QED BY <2>1, <3>2
  <2>3. Posted(b, z)' > 1 BY <1>4, <1>8, <2>1
  <2> QED BY <2>2, <2>3
<1>12. OneSent' BY <1>2, <1>3, <1>10, <1>11 DEF OneSent
<1> QED BY <1>6, <1>12

LEMMA NobodyReceives ==
    ASSUME RedView, p = 2, bs > 3, RankOneHeld, OneSent,
           NEW r \in RD!Ranks, RD!Receive(r)
    PROVE  RankOneHeld' /\ OneSent'
<1>1. RedTypes /\ RedPlaces /\ NetOnce BY RedTypesAre DEF RedView, Exact
<1>2. PICK z \in RD!Ranks, o \in RD!Ranks : z = 0 /\ o = 1 BY <1>1, TwoRanks
<1>3. PICK b \in {0, 1} : b = 1 OBVIOUS
<1>4. Posted(b, z) \in Nat /\ Got(b, o) \in Nat /\ i[o] \in Nat /\ loop[o] \in 0 .. 2
  BY <1>1, <1>2, <1>3, TwoRanks
<1>5. /\ loop' = loop /\ i' = i /\ net' \subseteq net
      /\ pc[r] = "receive" /\ pc' = [pc EXCEPT ![r] = "return"]
  BY DEF RD!Receive, RD!Goto, RD!Receivable
<1>6. /\ loop[o] <= 1
      /\ loop[o] = b => i[o] <= 3 /\ (i[o] = 3 => pc[o] \in {"post", "receive"})
  BY <1>2, <1>3 DEF RankOneHeld
<1>7. /\ \A m \in net : m.tag = b /\ m.from = z /\ m.to = o => m.nr = 1
      /\ Got(b, o) > 1 =>
            /\ Posted(b, z) > 1
            /\ \A m \in net : ~(m.tag = b /\ m.from = z /\ m.to = o)
  BY <1>2, <1>3 DEF OneSent
<1>8. Posted(b, z)' = Posted(b, z) BY <1>1, ReceiveCounts
<1>9. /\ r = o /\ loop[o] = b => Got(b, o) = i[o] /\ Got(b, o)' = i[o] + 1
      /\ ~(r = o /\ loop[o] = b) => Got(b, o)' = Got(b, o)
  BY <1>1, ReceiveCounts
<1>10. SUFFICES /\ loop'[o] <= 1
                /\ loop'[o] = b => i'[o] <= 3 /\ (i'[o] = 3 => pc'[o] \in {"post", "receive"})
                /\ Got(b, o)' > 1 =>
                      /\ Posted(b, z) > 1
                      /\ \A m \in net' : ~(m.tag = b /\ m.from = z /\ m.to = o)
  <2>1. \A m \in net' : m.tag = b /\ m.from = z /\ m.to = o => m.nr = 1 BY <1>5, <1>7
  <2> QED BY <1>2, <1>3, <1>8, <2>1 DEF RankOneHeld, OneSent
<1>11. CASE r = o /\ loop[o] = b /\ i[o] \in {1, 3}
  <2>1. RD!recv_from(o) = z
    <3>1. RD!recv_from(o) = Fwd(o, i[o])
      BY <1>3, <1>11 DEF RD!recv_from, RD!Forwards, Fwd
    <3>2. i[o] = 1 \/ i[o] = 3 BY <1>11
    <3> QED BY <1>2, <3>1, <3>2, OfTwoRanks
  <2>2. PICK m \in net : m.tag = b /\ m.from = z /\ m.to = o /\ net' = net \ {m}
    <3>1. z # -1 BY <1>2
    <3>2. PICK m \in RD!Receivable(o) : net' = net \ {m}
      BY <1>11, <2>1, <3>1 DEF RD!Receive
    <3>3. /\ m \in net /\ m.to = o /\ m.tag = b /\ RD!recv_from(o) \in {m.from, -1}
      BY <1>11, <3>2 DEF RD!Receivable
    <3> QED BY <2>1, <3>1, <3>2, <3>3
  <2>3. i[o] = 1 BY <1>7, <1>9, <1>11, <2>2
  <2>4. m.nr = 1 BY <1>7, <2>2
  <2>5. Posted(b, z) > 1
    <3>1. m.nr < Posted(m.tag, m.from) BY <1>1 DEF NetOnce
    <3>2. 1 < Posted(b, z) BY <2>2, <2>4, <3>1
    <3> QED BY <1>4, <3>2
  <2>6. \A u \in net' : ~(u.tag = b /\ u.from = z /\ u.to = o)
    BY <1>1, <1>7, <2>2, <2>4 DEF NetOnce
  <2> QED BY <1>5, <1>6, <2>3, <2>5, <2>6
<1>12. CASE ~(r = o /\ loop[o] = b /\ i[o] \in {1, 3})
  <2>1. pc'[o] = pc[o] \/ (r = o /\ pc'[o] = "return") BY <1>1, <1>5 DEF RedTypes
  <2>2. Got(b, o)' > 1 => Got(b, o) > 1
    <3>1. CASE r = o /\ loop[o] = b
      <4>1. i[o] # 1 BY <1>12, <3>1
      <4>2. Got(b, o) = i[o] /\ Got(b, o)' = i[o] + 1 BY <1>9, <3>1
      <4> QED BY <1>4, <4>1, <4>2
    <3>2. CASE ~(r = o /\ loop[o] = b) BY <1>9, <3>2
    <3> QED BY <3>1, <3>2
  <2> QED BY <1>5, <1>6, <1>7, <1>12, <2>1, <2>2
<1> QED BY <1>11, <1>12

LEMMA NobodyMoves ==
    ASSUME RedView, p = 2, bs > 3, RankOneHeld, OneSent,
           NEW r \in RD!Ranks, RD!Barrier(r) \/ RD!Return(r) \/ RD!LoopEnds(r)
    PROVE  RankOneHeld' /\ OneSent'
<1>1. RedTypes /\ RedPlaces BY RedTypesAre DEF RedView
<1>2. PICK z \in RD!Ranks, o \in RD!Ranks : z = 0 /\ o = 1 BY <1>1, TwoRanks
<1>3. PICK b \in {0, 1} : b = 1 OBVIOUS
<1>4. i[o] \in Nat /\ loop[o] \in 0 .. 2 /\ bs \in Nat
  BY <1>1, <1>2, TwoRanks
<1>5. OneSent'
  <2>1. SameCounts BY BarrierStep, ReturnStep, LoopEndsStep
  <2>2. Got(b, o)' = Got(b, o) /\ Posted(b, z)' = Posted(b, z)
    BY <2>1 DEF SameCounts
  <2>3. net' = net BY DEF RD!Barrier, RD!Return, RD!LoopEnds
  <2> QED BY <1>2, <1>3, <2>2, <2>3 DEF OneSent
<1>6. /\ loop[o] <= 1
      /\ loop[o] = 1 => i[o] <= 3 /\ (i[o] = 3 => pc[o] \in {"post", "receive"})
  BY <1>2 DEF RankOneHeld
<1>7. /\ loop'[o] <= 1
      /\ loop'[o] = 1 => i'[o] <= 3 /\ (i'[o] = 3 => pc'[o] \in {"post", "receive"})
  <2>1. CASE r # o
    <3>1. loop'[o] = loop[o] /\ i'[o] = i[o] /\ pc'[o] = pc[o]
      BY <1>1, <2>1 DEF RedTypes, RD!Barrier, RD!Return, RD!LoopEnds, RD!Goto
    <3> QED BY <1>6, <3>1
  <2>2. CASE RD!Barrier(o)
    <3>1. loop'[o] = loop[o] /\ i'[o] = i[o] /\ pc[o] = "barrier"
      BY <2>2 DEF RD!Barrier, RD!Goto
    <3> QED BY <1>6, <3>1
  <2>3. CASE RD!Return(o)
    <3>1. /\ loop'[o] = loop[o] /\ i'[o] = i[o] + 1 /\ pc[o] = "return"
          /\ pc'[o] = "post"
      BY <1>1, <2>3 DEF RD!Return, RD!Goto, RedTypes
    <3>2. loop[o] = 1 => i[o] < 3 BY <1>4, <1>6, <3>1
    <3> QED BY <1>4, <1>6, <3>1, <3>2
  <2>4. CASE RD!LoopEnds(o)
    <3>1. loop'[o] = loop[o] + 1 /\ i'[o] = 0 /\ i[o] = bs
      BY <1>1, <2>4 DEF RD!LoopEnds, RedTypes, bs
    <3>2. loop[o] # 1 BY <1>4, <1>6, <3>1
    <3> QED BY <1>4, <1>6, <3>1, <3>2
  <2> QED BY <2>1, <2>2, <2>3, <2>4
<1>8. RankOneHeld' BY <1>2, <1>7 DEF RankOneHeld
<1> QED BY <1>5, <1>8

LEMMA StaysStuck ==
    ASSUME RedView, p = 2, bs > 3, Stuck, NEW r \in RD!Ranks, RD!RankStep(r)
    PROVE  Stuck'
<1>1. minus_one' = minus_one
  BY DEF RD!RankStep, RD!Barrier, RD!Post, RD!Receive, RD!Return, RD!LoopEnds
<1>2. CASE minus_one = "any source"
  BY <1>1, <1>2, ErrorStops DEF Stuck
<1>3. CASE minus_one # "any source"
  <2>1. RankOneHeld /\ OneSent BY <1>3 DEF Stuck
  <2>2. RankOneHeld' /\ OneSent'
    BY <2>1, NobodySends, NobodyReceives, NobodyMoves DEF RD!RankStep
  <2> QED BY <1>1, <1>3, <2>2 DEF Stuck
<1> QED BY <1>2, <1>3

--------------------------------------------------------------------------------
(* Redistribution: what always holds, and what follows. *)

RedInv == RedView /\ (~Fits => Stuck)

LEMMA RedInit == ASSUME RD!Init PROVE RedInv
<1>1. /\ p \in Sizes /\ net = {}
      /\ block = [r \in RD!Ranks |-> RD!Original(r)]
      /\ cyclic = [r \in RD!Ranks |-> [k \in RD!Places |-> 0]]
      /\ loop = [r \in RD!Ranks |-> 0] /\ i = [r \in RD!Ranks |-> 0]
      /\ pc = [r \in RD!Ranks |-> "barrier"]
  BY DEF RD!Init, RD!Uninitialised
<1>2. /\ p \in Nat \ {0} /\ bs \in Nat \ {0} /\ bs * p = N /\ N \in Nat
      /\ RD!Ranks = 0 .. p - 1 /\ RD!Places = 0 .. bs - 1
  BY <1>1, Blocks, BoundsAssumption DEF RD!Ranks, RD!Places, bs
<1>3. ASSUME NEW r \in RD!Ranks, NEW k \in RD!Places
      PROVE  r * bs + k + 1 \in RD!Elements
  <2>1. r \in Nat /\ r < p /\ k \in Nat /\ k < bs /\ p \in Nat /\ bs \in Nat BY <1>2
  <2>2. r * bs + bs <= p * bs BY <2>1, RowEnds
  <2>3. p * bs = N BY <1>2
  <2>4. r * bs \in Nat BY <2>1
  <2>5. r * bs + k + 1 \in 0 .. N BY <1>2, <2>1, <2>2, <2>3, <2>4
  <2> QED BY <2>5 DEF RD!Elements
<1>4. block \in [RD!Ranks -> [RD!Places -> RD!Elements]]
  <2>1. \A r \in RD!Ranks : RD!Original(r) \in [RD!Places -> RD!Elements]
    BY <1>3 DEF RD!Original, bs
  <2> QED BY <1>1, <2>1
<1>5. RD!TypeOK
  <2>1. 0 \in RD!Elements BY <1>2 DEF RD!Elements
  <2>2. 0 \in 0 .. RD!block_size /\ 0 \in 0 .. 2 BY <1>2 DEF bs
  <2>3. cyclic \in [RD!Ranks -> [RD!Places -> RD!Elements]] BY <1>1, <2>1
  <2>4. loop \in [RD!Ranks -> 0 .. 2] /\ i \in [RD!Ranks -> 0 .. RD!block_size]
    BY <1>1, <2>2
  <2>5. pc \in [RD!Ranks -> RD!Locations] BY <1>1 DEF RD!Locations
  <2>6. eager \in BOOLEAN /\ minus_one \in {"any source", "no process"} /\ aborted = FALSE
    BY DEF RD!Init
  <2> QED BY <1>1, <1>4, <2>3, <2>4, <2>5, <2>6 DEF RD!TypeOK
<1>6. RedPlaces BY <1>1 DEF RedPlaces
<1>7. \A l \in {0, 1}, r \in RD!Ranks : Posted(l, r) = 0 /\ Got(l, r) = 0
  <2> SUFFICES ASSUME NEW l \in {0, 1}, NEW r \in RD!Ranks
               PROVE  Posted(l, r) = 0 /\ Got(l, r) = 0
    OBVIOUS
  <2>1. loop[r] = 0 /\ i[r] = 0 /\ pc[r] = "barrier" BY <1>1
  <2> QED BY <2>1 DEF Posted, Got
<1>8. NetOnce BY <1>1 DEF NetOnce
<1>9. ASSUME Fits PROVE GotIsPosted /\ NetExact /\ ArraysExact
  <2>1. \A k \in RD!Places : ~(k < 0) BY <1>2
  <2>2. GotIsPosted BY <1>7, <2>1 DEF GotIsPosted
  <2>3. NetExact BY <1>1, <1>7, <2>1 DEF NetExact
  <2>4. \A r \in RD!Ranks, k \in RD!Places : block[r][k] = Val(r, k)
    BY <1>1 DEF RD!Original, Val, bs
  <2>5. ArraysExact BY <1>7, <2>1, <2>4 DEF ArraysExact
  <2> QED BY <2>2, <2>3, <2>5
<1>10. ASSUME ~Fits PROVE Stuck
  <2>1. RD!Ranks = 0 .. 1 BY <1>1, <1>2, <1>10, Blocks
  <2>2. PICK z \in RD!Ranks, o \in RD!Ranks : z = 0 /\ o = 1 BY <2>1
  <2>3. loop[z] = 0 /\ loop[o] = 0 BY <1>1
  <2>4. PICK b \in {0, 1} : b = 1 OBVIOUS
  <2>5. Got(b, o) = 0 BY <1>7
  <2>6. OneSent BY <1>1, <2>2, <2>4, <2>5 DEF OneSent
  <2> QED BY <2>2, <2>3, <2>6 DEF Stuck, RankZeroHeld, RankOneHeld
<1> QED BY <1>5, <1>6, <1>8, <1>9, <1>10 DEF RedInv, RedView, Exact

LEMMA RedStep ==
    ASSUME RedInv, NEW r \in RD!Ranks, RD!RankStep(r) PROVE RedInv'
<1>1. RedView'
  BY BarrierStep, PostStep, ReceiveStep, ReturnStep, LoopEndsStep DEF RedInv, RD!RankStep
<1>2. p' = p
  BY DEF RD!RankStep, RD!Barrier, RD!Post, RD!Receive, RD!Return, RD!LoopEnds
<1>3. p \in Sizes BY DEF RedInv, RedView, RD!TypeOK
<1>4. ASSUME ~Fits PROVE Stuck'
  <2>1. p = 2 /\ bs > 3 BY <1>3, <1>4, Blocks
  <2> QED BY <1>4, <2>1, StaysStuck DEF RedInv
<1> QED BY <1>1, <1>2, <1>4, SameRedSizes DEF RedInv

LEMMA RedIdle == ASSUME RedInv, UNCHANGED redVars PROVE RedInv'
<1>1. /\ p' = p /\ block' = block /\ cyclic' = cyclic /\ loop' = loop /\ i' = i
      /\ pc' = pc /\ net' = net /\ aborted' = aborted /\ minus_one' = minus_one
      /\ eager' = eager
  BY DEF redVars
<1>2. RD!TypeOK'
  BY <1>1 DEF RedInv, RedView, RD!TypeOK, RD!Ranks, RD!Places, RD!block_size,
              RD!Messages, RD!Elements, RD!Locations
<1>3. RedTypes BY RedTypesAre DEF RedInv, RedView
<1>4. RD!Ranks' = RD!Ranks /\ bs' = bs /\ Fits' = Fits BY <1>1, SameRedSizes
<1>5. RedPlaces' BY <1>1, <1>4 DEF RedInv, RedView, RedPlaces
<1>6. \A l, s : Posted(l, s)' = Posted(l, s) /\ Got(l, s)' = Got(l, s)
  BY <1>1, <1>4 DEF Posted, Got
<1>7. Exact' BY <1>1, <1>3, <1>6, NothingMoves DEF RedInv, RedView
<1>8. Stuck => Stuck'
  <2>1. RankZeroHeld' = RankZeroHeld /\ RankOneHeld' = RankOneHeld
    BY <1>1 DEF RankZeroHeld, RankOneHeld
  <2>2. Got(1, 1)' = Got(1, 1) /\ Posted(1, 0)' = Posted(1, 0) BY <1>6
  <2>3. OneSent => OneSent' BY <1>1, <2>2 DEF OneSent
  <2> QED BY <1>1, <2>1, <2>3 DEF Stuck
<1> QED BY <1>2, <1>4, <1>5, <1>7, <1>8 DEF RedInv, RedView

(* After the first loop: element k of rank r has come from Back(r, k). *)
LEMMA AllCyclic ==
    ASSUME RedInv, RD!ToCyclicDone, p # 2, NEW r \in RD!Ranks, NEW k \in RD!Places
    PROVE  cyclic[r][k] = Val(Back(r, k), k) /\ Fits
<1>1. RedTypes BY RedTypesAre DEF RedInv, RedView
<1>2. Fits BY <1>1, Blocks DEF RedTypes
<1>3. Got(0, r) = bs
  <2>1. loop[r] \in 0 .. 2 /\ loop[r] >= 1 BY <1>1 DEF RedTypes, RD!ToCyclicDone
  <2>2. loop[r] \in {1, 2} BY <2>1
  <2> QED BY <2>2 DEF Got
<1>4. k < bs BY <1>1 DEF RedTypes
<1> QED BY <1>2, <1>3, <1>4 DEF RedInv, RedView, Exact, ArraysExact

LEMMA Complete ==
    ASSUME RedInv, RD!ToCyclicDone, p # 2
    PROVE  {cyclic[r][k] : r \in RD!Ranks, k \in RD!Places} = 1 .. N
<1>1. RedTypes BY RedTypesAre DEF RedInv, RedView
<1>2. /\ p \in Nat \ {0} /\ bs \in Nat \ {0} /\ p * bs = N /\ N \in Nat /\ p \in Sizes
      /\ RD!Ranks = 0 .. p - 1 /\ RD!Places = 0 .. bs - 1
  <2>1. p \in Nat \ {0} /\ bs \in Nat \ {0} /\ bs * p = N /\ p \in Sizes
    BY <1>1, Blocks DEF RedTypes
  <2>2. p * bs = N BY <2>1
  <2> QED BY <1>1, <2>1, <2>2, BoundsAssumption DEF RedTypes
<1>3. ASSUME NEW r \in RD!Ranks, NEW k \in RD!Places PROVE cyclic[r][k] \in 1 .. N
  <2>1. cyclic[r][k] = Val(Back(r, k), k) /\ Fits BY AllCyclic
  <2>2. PICK s \in RD!Ranks : s = Back(r, k) BY <1>2, <2>1, Partners
  <2>3. s \in Nat /\ s < p /\ k \in Nat /\ k < bs /\ p \in Nat /\ bs \in Nat BY <1>2
  <2>4. s * bs + bs <= p * bs BY <2>3, RowEnds
  <2>5. s * bs \in Nat BY <2>3
  <2>6. cyclic[r][k] = s * bs + k + 1 BY <2>1, <2>2 DEF Val
  <2> QED BY <1>2, <2>3, <2>4, <2>5, <2>6
<1>4. ASSUME NEW v \in 1 .. N
      PROVE  \E r \in RD!Ranks, k \in RD!Places : cyclic[r][k] = v
  <2>1. PICK x \in Nat : x = v - 1 /\ x < N BY <1>2
  <2>2. PICK s \in Nat, k \in 0 .. bs - 1 : x = s * bs + k BY <1>2, Divided
  <2>3. s < p
    <3> SUFFICES ASSUME p <= s PROVE FALSE BY <1>2
    <3>1. PICK d \in Nat : s = p + d
      <4>1. s - p \in Nat /\ s = p + (s - p) BY <1>2
      <4> QED BY <4>1
    <3>2. s * bs = p * bs + d * bs BY <1>2, <3>1
    <3>3. d * bs \in Nat BY <1>2
    <3> QED BY <1>2, <2>1, <2>2, <3>2, <3>3
  <2>4. s \in RD!Ranks /\ k \in RD!Places BY <1>2, <2>2, <2>3
  <2>5. Fits BY <1>2, Blocks
  <2>6. PICK r \in RD!Ranks : r = Fwd(s, k) BY <1>2, <2>4, <2>5, Partners
  <2>7. Back(r, k) = s BY <1>2, <2>4, <2>5, <2>6, Partners
  <2>8. cyclic[r][k] = s * bs + k + 1 BY <2>4, <2>7, AllCyclic DEF Val
  <2> QED BY <2>1, <2>2, <2>4, <2>8
<1> QED BY <1>3, <1>4

LEMMA Order ==
    ASSUME RedInv, RD!ToCyclicDone, p # 2
    PROVE  RD!InCyclicOrder <=> bs % p = 1 % p
<1>1. RedTypes BY RedTypesAre DEF RedInv, RedView
<1>2. /\ p \in Nat \ {0} /\ bs \in Nat \ {0} /\ p \in Sizes /\ Fits
      /\ RD!Ranks = 0 .. p - 1 /\ RD!Places = 0 .. bs - 1
  BY <1>1, Blocks DEF RedTypes
<1>3. ASSUME NEW r \in RD!Ranks, NEW k \in RD!Places
      PROVE  /\ Back(r, k) \in RD!Ranks /\ Fwd(Back(r, k), k) = r
             /\ cyclic[r][k] - 1 = Back(r, k) * bs + k
  <2>1. PICK s \in RD!Ranks : s = Back(r, k) /\ Fwd(s, k) = r BY <1>2, Partners
  <2>2. s \in Nat /\ k \in Nat /\ bs \in Nat /\ s * bs \in Nat BY <1>2
  <2>3. cyclic[r][k] = s * bs + k + 1 BY <2>1, AllCyclic DEF Val
  <2> QED BY <2>1, <2>2, <2>3
<1>4. CASE p = 1
  <2>1. \A x \in Nat : x % 1 = 0 OBVIOUS
  <2>2. bs % p = 1 % p BY <1>2, <1>4, <2>1
  <2>3. ASSUME NEW r \in RD!Ranks, NEW k \in RD!Places
        PROVE  (cyclic[r][k] - 1) % p = r
    <3>1. PICK s \in RD!Ranks : s = Back(r, k) BY <1>3
    <3>2. s \in Nat /\ k \in Nat /\ bs \in Nat /\ r = 0 BY <1>2, <1>4
    <3>3. PICK x \in Nat : x = s * bs + k BY <3>2
    <3>4. cyclic[r][k] - 1 = x BY <1>3, <3>1, <3>3
    <3> QED BY <1>4, <2>1, <3>2, <3>4
  <2> QED BY <2>2, <2>3 DEF RD!InCyclicOrder
<1>5. CASE p > 1
  <2>1. 1 % p = 1 BY <1>2, <1>5
  <2>2. ASSUME bs % p = 1, NEW r \in RD!Ranks, NEW k \in RD!Places
        PROVE  (cyclic[r][k] - 1) % p = r
    <3>1. PICK m \in Nat : bs = m * p + 1 BY <1>2, <2>2, Divided
    <3>2. PICK s \in RD!Ranks : s = Back(r, k) /\ Fwd(s, k) = r BY <1>3
    <3>3. s \in Nat /\ k \in Nat /\ r \in 0 .. p - 1 BY <1>2
    <3>4. PICK z \in Nat : z = s + k BY <3>3
    <3>5. PICK e \in Nat : z = e * p + r
      <4>1. z % p = r BY <3>2, <3>4 DEF Fwd
      <4> QED BY <1>2, <4>1, Divided
    <3>6. PICK y \in Nat : y = s * m BY <3>1, <3>3
    <3>7. s * (m * p + 1) = y * p + s
      <4>1. s * (m * p + 1) = (s * m) * p + s BY <1>2, <3>1, <3>3
      <4> QED BY <3>6, <4>1
    <3>8. (y + e) * p = y * p + e * p /\ y * p \in Nat /\ e * p \in Nat /\ y + e \in Nat
      BY <1>2
    <3>9. s * bs + k = (y + e) * p + r
      <4>1. s * bs = y * p + s BY <3>1, <3>7
      <4>2. s + k = e * p + r BY <3>4, <3>5
      <4> QED BY <3>3, <3>8, <4>1, <4>2
    <3>10. ((y + e) * p + r) % p = r BY <1>2, <3>3, <3>8, QuotientAndRest
    <3> QED BY <1>3, <3>2, <3>9, <3>10
  <2>3. ASSUME RD!InCyclicOrder PROVE bs % p = 1
    <3>1. 1 \in RD!Ranks /\ 0 \in RD!Places BY <1>2, <1>5
    <3>2. PICK r \in RD!Ranks, k \in RD!Places : r = 1 /\ k = 0 BY <3>1
    <3>3. Fwd(r, k) = r BY <1>2, <1>5, <3>2 DEF Fwd
    <3>4. Back(r, k) = r BY <1>2, <3>3, Partners
    <3>5. cyclic[r][k] - 1 = r * bs + k BY <1>3, <3>4
    <3>6. r * bs + k = bs BY <1>2, <3>2
    <3>7. (cyclic[r][k] - 1) % p = r BY <2>3 DEF RD!InCyclicOrder
    <3> QED BY <3>2, <3>5, <3>6, <3>7
  <2> QED BY <2>1, <2>2, <2>3 DEF RD!InCyclicOrder
<1> QED BY <1>2, <1>4, <1>5

LEMMA Returned ==
    ASSUME RedInv, RD!AllDone, NEW r \in RD!Ranks
    PROVE  block[r] = RD!Original(r)
<1>1. RedTypes /\ RedPlaces BY RedTypesAre DEF RedInv, RedView
<1>2. Fits
  <2> SUFFICES ASSUME ~Fits PROVE FALSE OBVIOUS
  <2>1. p = 2 /\ Stuck BY <1>1, Blocks DEF RedInv, RedTypes
  <2>2. PICK z \in RD!Ranks, o \in RD!Ranks : z = 0 /\ o = 1 BY <1>1, <2>1, TwoRanks
  <2>3. loop[z] = 2 /\ loop[o] = 2 BY <1>1 DEF RedPlaces, RD!AllDone
  <2>4. loop[z] <= 1 \/ loop[o] <= 1
    BY <2>1, <2>2 DEF Stuck, RankZeroHeld, RankOneHeld
  <2> QED BY <2>3, <2>4
<1>3. \A k \in RD!Places : block[r][k] = r * bs + k + 1
  BY <1>2 DEF RedInv, RedView, Exact, ArraysExact, Val
<1>4. block[r] = [k \in RD!Places |-> r * bs + k + 1] BY <1>1, <1>3 DEF RedTypes
<1> QED BY <1>4 DEF RD!Original, bs

LEMMA RedHolds == ASSUME RedInv PROVE RD!TypeOK /\ RD!RoundTrip
<1>1. RD!TypeOK BY DEF RedInv, RedView
<1>2. ASSUME RD!ToCyclicDone, p # 2
      PROVE  /\ {cyclic[r][k] : r \in RD!Ranks, k \in RD!Places} = 1 .. N
             /\ RD!InCyclicOrder <=> RD!block_size % p = 1 % p
  BY <1>2, Complete, Order DEF bs
<1>3. RD!AllDone => \A r \in RD!Ranks : block[r] = RD!Original(r)
  BY Returned
<1> QED BY <1>1, <1>2, <1>3 DEF RD!RoundTrip

--------------------------------------------------------------------------------
(* Ping-pong: the type invariant. *)

LEMMA PingInit == ASSUME PP!Init PROVE PP!TypeOK
BY DEF PP!Init, PP!TypeOK, PP!Locations

LEMMA PingStep ==
    ASSUME PP!TypeOK, NEW r \in PP!Ranks, PP!RankStep(r) PROVE PP!TypeOK'
<1>1. UNCHANGED <<replies, comm_sz, ping_eager>>
  BY DEF PP!RankStep, PP!Started, PP!Send, PP!SendReturns, PP!Receive, PP!Stop
<1>2. PP!Ranks' = PP!Ranks BY <1>1 DEF PP!Ranks
<1>3. ping_aborted' \in BOOLEAN
  BY DEF PP!TypeOK, PP!RankStep, PP!Started, PP!Send, PP!SendReturns, PP!Receive, PP!Stop
<1>4. ping_net' \subseteq [tag : {0, 1}, from : PP!Ranks, to : PP!Ranks]
  <2>1. CASE PP!Outgoing(r).to \in PP!Ranks
    <3>1. PP!Outgoing(r) \in [tag : {0, 1}, from : PP!Ranks, to : PP!Ranks]
      BY <2>1 DEF PP!Outgoing, PP!Ping, PP!Pong
    <3> QED
      BY <3>1 DEF PP!TypeOK, PP!RankStep, PP!Started, PP!Send, PP!SendReturns,
                  PP!Receive, PP!Stop
  <2>2. CASE PP!Outgoing(r).to \notin PP!Ranks
    BY <2>2 DEF PP!TypeOK, PP!RankStep, PP!Started, PP!Send, PP!SendReturns,
                PP!Receive, PP!Stop
  <2> QED BY <2>1, <2>2
<1>5. ping_pc' \in [PP!Ranks -> PP!Locations]
  <2>1. \E from, to : ping_pc' = ping_pc \/ (PP!Goto(r, from, to) /\ to \in PP!Locations)
    <3>1. PP!Branch(r) \in PP!Locations
      <4>1. comm_sz \in Nat /\ r \in 0 .. comm_sz - 1 /\ replies \in BOOLEAN
        BY BoundsAssumption DEF PP!TypeOK, PP!Ranks
      <4>2. r = 0 \/ r = 1 \/ (r > 1 /\ replies) \/ (r > 1 /\ ~replies)
        BY <4>1
      <4> QED BY <4>1, <4>2 DEF PP!Branch, PP!Locations
    <3> QED
      BY <3>1 DEF PP!RankStep, PP!Started, PP!Send, PP!SendReturns, PP!Receive,
                  PP!Stop, PP!Locations
  <2> QED BY <2>1 DEF PP!TypeOK, PP!Goto
<1> QED BY <1>1, <1>2, <1>3, <1>4, <1>5 DEF PP!TypeOK, PP!Locations

LEMMA PingIdle == ASSUME PP!TypeOK, UNCHANGED pingVars PROVE PP!TypeOK'
BY DEF PP!TypeOK, pingVars, PP!Ranks, PP!Locations

--------------------------------------------------------------------------------
(* Arrays. *)

(* An array of that length, of whatever elements. *)
IsArray(arr, length) == arr = [c \in 1 .. length |-> arr[c]]

LEMMA LengthOf ==
    ASSUME NEW len \in Nat, NEW arr, IsArray(arr, len) PROVE Len(arr) = len
<1> DEFINE S == {arr[c] : c \in 1 .. len}
<1>1. arr \in [1 .. len -> S] BY DEF IsArray
<1>2. arr \in Seq(S) BY <1>1, SeqDef
<1>3. DOMAIN arr = 1 .. len BY <1>1
<1> HIDE DEF S
<1>4. DOMAIN arr = 1 .. Len(arr) /\ Len(arr) \in Nat BY <1>2, LenProperties
<1> QED BY <1>3, <1>4

(* The whole array is replaced if as many elements are written. *)
LEMMA Replaced ==
    ASSUME NEW len \in Nat, NEW arr, IsArray(arr, len), NEW e, IsArray(e, len)
    PROVE  CO!Overwritten(arr, 0, e) = e
<1> DEFINE S == {e[c] : c \in 1 .. len}
<1>1. e \in [1 .. len -> S] BY DEF IsArray
<1>2. e \in Seq(S) BY <1>1, SeqDef
<1>3. Len(arr) = len /\ Len(e) = len BY LengthOf
<1>4. SubSeq(arr, 1, 0) = <<>> BY SubSeqEmpty
<1>5. SubSeq(arr, 0 + len + 1, len) = <<>>
  <2>1. 0 + len + 1 \in Int /\ len < 0 + len + 1 OBVIOUS
  <2> QED BY <2>1, SubSeqEmpty
<1> HIDE DEF S
<1>6. <<>> \o e = e /\ e \o <<>> = e BY <1>2, ConcatEmptySeq
<1> QED BY <1>3, <1>4, <1>5, <1>6 DEF CO!Overwritten

(* A part of an array, element by element. *)
LEMMA PartElements ==
    ASSUME NEW arr, NEW nr \in Nat, NEW w \in Nat, NEW first \in Nat, first = nr * w
    PROVE  /\ IsArray(CO!Part(arr, nr, w), w)
           /\ \A c \in 1 .. w : CO!Part(arr, nr, w)[c] = arr[first + c]
<1> DEFINE S == {arr[c] : c \in first + 1 .. first + w}
<1>1. \A c \in first + 1 .. first + w : arr[c] \in S OBVIOUS
<1> HIDE DEF S
<1> DEFINE out == SubSeq(arr, first + 1, first + w)
<1>2. /\ out \in Seq(S) /\ Len(out) = w
      /\ \A c \in 1 .. w : out[c] = arr[first + c]
  BY <1>1, SubSeqProperties
<1> HIDE DEF out
<1>3. out \in [1 .. w -> S] BY <1>2, LenProperties
<1>4. CO!Part(arr, nr, w) = out BY DEF CO!Part, out
<1> QED BY <1>2, <1>3, <1>4 DEF IsArray

(* The whole of an array is the first part of it. *)
LEMMA WholePart ==
    ASSUME NEW len \in Nat, NEW arr, IsArray(arr, len)
    PROVE  CO!Part(arr, 0, len) = arr
<1>1. PICK zero \in Nat : zero = 0 OBVIOUS
<1>2. zero = zero * len BY <1>1
<1>3. /\ IsArray(CO!Part(arr, zero, len), len)
      /\ \A c \in 1 .. len : CO!Part(arr, zero, len)[c] = arr[zero + c]
  BY ONLY <1>2, PartElements
<1>4. CO!Part(arr, zero, len) = [c \in 1 .. len |-> CO!Part(arr, zero, len)[c]]
  BY ONLY <1>3 DEF IsArray
<1>5. \A c \in 1 .. len : CO!Part(arr, zero, len)[c] = arr[c] BY <1>1, <1>3
<1>6. CO!Part(arr, zero, len) = [c \in 1 .. len |-> arr[c]] BY ONLY <1>4, <1>5
<1> QED BY <1>1, <1>6 DEF IsArray

(* A row of the transposed matrix is a column of the matrix. *)
LEMMA TransposedRow ==
    ASSUME NEW side \in Nat \ {0}, NEW matrix, IsArray(matrix, side * side),
           NEW c \in 0 .. side - 1
    PROVE  CO!Part(CO!Transposed(matrix, side), c, side) =
               [k \in 1 .. side |-> matrix[(k - 1) * side + c + 1]]
<1> DEFINE turned == CO!Transposed(matrix, side)
<1>1. PICK len \in Nat : len = side * side OBVIOUS
<1>2. IsArray(turned, len)
      /\ \A q \in 1 .. len :
            turned[q] = matrix[((q - 1) \div side) + ((q - 1) % side) * side + 1]
  BY <1>1 DEF CO!Transposed, IsArray
<1> HIDE DEF turned
<1>3. PICK first \in Nat : first = c * side /\ first + side <= len
  BY <1>1, RowEnds
<1>4. /\ IsArray(CO!Part(turned, c, side), side)
      /\ \A k \in 1 .. side : CO!Part(turned, c, side)[k] = turned[first + k]
  <2>1. c \in Nat /\ side \in Nat /\ first = c * side BY <1>3
  <2> QED BY ONLY <1>3, <2>1, PartElements
<1>5. ASSUME NEW k \in 1 .. side
      PROVE  turned[first + k] = matrix[(k - 1) * side + c + 1]
  <2>1. (c * side + (k - 1)) \div side = c /\ (c * side + (k - 1)) % side = k - 1
    <3>1. PICK j \in 0 .. side - 1 : j = k - 1 OBVIOUS
    <3>2. (c * side + j) \div side = c /\ (c * side + j) % side = j BY QuotientAndRest
    <3> QED BY <3>1, <3>2
  <2>2. PICK q \in 1 .. len : q = first + k BY <1>3
  <2>3. q - 1 = c * side + (k - 1) BY <1>3, <2>2
  <2>4. turned[q] = matrix[((q - 1) \div side) + ((q - 1) % side) * side + 1]
    BY <1>2
  <2>5. turned[q] = matrix[c + (k - 1) * side + 1] BY <2>1, <2>3, <2>4
  <2>6. PICK before \in Nat : before = (k - 1) * side OBVIOUS
  <2>7. c + before + 1 = before + c + 1 OBVIOUS
  <2> QED BY <2>2, <2>5, <2>6, <2>7
<1>6. CO!Part(turned, c, side) = [k \in 1 .. side |-> CO!Part(turned, c, side)[k]]
  BY <1>4 DEF IsArray
<1>7. \A k \in 1 .. side :
         CO!Part(turned, c, side)[k] = matrix[(k - 1) * side + c + 1]
  BY <1>4, <1>5
<1> QED BY <1>6, <1>7 DEF turned

(* Arrays of cnt elements put one after the other. *)
LEMMA InRow ==
    ASSUME NEW n \in Nat, NEW cnt \in Nat, NEW k \in 1 .. n * cnt
    PROVE  /\ cnt # 0 /\ (k - 1) \div cnt \in 0 .. n - 1
           /\ ((k - 1) % cnt) + 1 \in 1 .. cnt
<1>1. PICK z \in Nat, len \in Nat : z = k - 1 /\ len = n * cnt /\ z < len OBVIOUS
<1>2. cnt # 0
  <2>1. n * 0 = 0 OBVIOUS
  <2> QED BY <1>1, <2>1
<1>3. PICK x \in Nat, c \in 0 .. cnt - 1 :
         x = z \div cnt /\ c = z % cnt /\ z = x * cnt + c
  BY <1>1, <1>2, Divided
<1>4. x < n
  <2> SUFFICES ASSUME n <= x PROVE FALSE OBVIOUS
  <2>1. PICK d \in Nat : x = n + d
    <3>1. x - n \in Nat /\ x = n + (x - n) OBVIOUS
    <3> QED BY <3>1
  <2>2. x * cnt = n * cnt + d * cnt BY <2>1
  <2>3. d * cnt \in Nat BY <1>2
  <2> QED BY <1>1, <1>3, <2>2, <2>3
<1> QED BY <1>1, <1>2, <1>3, <1>4

--------------------------------------------------------------------------------
(* Collectives: the invariant. *)

lr == CO!local_rows
ch == CO!Chunk
cols == CO!Columns

(* What the parts of all ranks make, in the order of the ranks. *)
Together(b) ==
    [k \in 1 .. size * ch |-> CO!Element(b, (k - 1) \div ch, ((k - 1) % ch) + 1)]

(* The final contents of the arrays: the matrix scattered, the columns, the rows *)
(* of a rank, their products, and all products.                                  *)
Whole == IF collective = "product" THEN Together("part1") ELSE CO!Allocated(0, "matrix1")

ColB == IF collective = "product" THEN CO!Transposed(Together("part2"), dim)
                                  ELSE CO!Allocated(0, "col_matrixB")

Local(r) == CO!Part(Whole, r, ch)

LocalC(r) == CO!Product(Local(r), lr, ColB, cols, dim)

Result ==
    [k \in 1 .. size * (lr * cols) |->
        LocalC((k - 1) \div (lr * cols))[((k - 1) % (lr * cols)) + 1]]

(* The array is as it was at first; it gets its final contents with collective   *)
(* k, in which rank 0 has no part if its test fails.                             *)
Kept(r, b) == mem[r][b] = CO!Allocated(r, b)

Gets(r, b, k, final) ==
    mem[r][b] = IF stage[r] > k /\ ~CO!Refused THEN final ELSE CO!Allocated(r, b)

ProductMem(r) ==
    /\ Kept(r, "part1") /\ Kept(r, "part2")
    /\ r = 0 => /\ Gets(r, "matrix1", 1, Together("part1"))
                /\ Gets(r, "matrix2", 2, Together("part2"))
                /\ Gets(r, "col_matrixB", 2, ColB)
                /\ Gets(r, "result", 5, Result)
    /\ r # 0 => /\ Kept(r, "matrix1") /\ Kept(r, "matrix2") /\ Kept(r, "result")
                /\ Gets(r, "col_matrixB", 3, ColB)
    /\ Gets(r, "local_matrix1", 4, Local(r))
    /\ Gets(r, "local_C", 4, LocalC(r))

(* A rank other than 0 does not come past the broadcast of the vector. *)
VectorMem(r) ==
    /\ Kept(r, "matrix1") /\ Kept(r, "col_matrixB")
    /\ Gets(r, "local_matrix1", 1, Local(r))
    /\ Gets(r, "local_C", 2, LocalC(r))
    /\ r = 0 => Gets(r, "result", 3, Result) /\ (size > 1 => stage[r] <= 3)
    /\ r # 0 => Kept(r, "result") /\ stage[r] <= 2

ScatterMem(r) == Kept(r, "matrix1") /\ Gets(r, "local_matrix1", 1, Local(r))

GatherMem(r) ==
    /\ Kept(r, "part1")
    /\ IF r = 0 \/ collective = "allgather" THEN Gets(r, "matrix1", 1, Together("part1"))
                                            ELSE Kept(r, "matrix1")

MemOf(r) ==
    /\ collective = "product" => ProductMem(r)
    /\ collective = "vector" => VectorMem(r)
    /\ collective = "scatter" => ScatterMem(r)
    /\ collective \in {"gather", "allgather"} => GatherMem(r)

CollTypes ==
    /\ collective \in CO!Programs
    /\ size \in 1 .. MaxSize /\ dim \in CO!Dimensions
    /\ coll_eager \in BOOLEAN
    /\ tested \in BOOLEAN
    /\ stage \in [CO!Ranks -> 1 .. CO!Finalize + 1]
    /\ mem = [r \in CO!Ranks |-> [b \in CO!Arrays |-> mem[r][b]]]
    /\ coll_aborted \in BOOLEAN

CollInv == CollTypes /\ \A r \in CO!Ranks : MemOf(r)

--------------------------------------------------------------------------------
(* The programs one by one. *)

IsCall(c, op, from, to, count, then) ==
    c.op = op /\ c.from = from /\ c.to = to /\ c.count = count /\ c.then = then

LEMMA ProductProgram ==
    ASSUME collective = "product"
    PROVE  /\ CO!Calls = CO!ProductCalls /\ Len(CO!Calls) = 5 /\ CO!Finalize = 6
           /\ CO!Arrays = {"part1", "part2", "matrix1", "matrix2", "col_matrixB",
                           "local_matrix1", "local_C", "result"}
           /\ IsCall(CO!Calls[1], "gather", "part1", "matrix1", ch, "go on")
           /\ IsCall(CO!Calls[2], "gather", "part2", "matrix2", ch, "transpose")
           /\ IsCall(CO!Calls[3], "bcast", "col_matrixB", "col_matrixB", dim * dim, "go on")
           /\ IsCall(CO!Calls[4], "scatter", "matrix1", "local_matrix1", ch, "multiply")
           /\ IsCall(CO!Calls[5], "gather", "local_C", "result", ch, "go on")
<1>1. CO!Calls = CO!ProductCalls BY DEF CO!Calls
<1>2. /\ Len(CO!ProductCalls) = 5
      /\ IsCall(CO!ProductCalls[1], "gather", "part1", "matrix1", ch, "go on")
      /\ IsCall(CO!ProductCalls[2], "gather", "part2", "matrix2", ch, "transpose")
      /\ IsCall(CO!ProductCalls[3], "bcast", "col_matrixB", "col_matrixB", dim * dim, "go on")
      /\ IsCall(CO!ProductCalls[4], "scatter", "matrix1", "local_matrix1", ch, "multiply")
      /\ IsCall(CO!ProductCalls[5], "gather", "local_C", "result", ch, "go on")
  BY DEF CO!ProductCalls, CO!Call, IsCall, ch
<1>3. CO!Finalize = 6
  <2>1. Len(CO!ProductCalls) = 5 BY ONLY <1>2
  <2>2. Len(CO!Calls) = 5 BY ONLY <1>1, <2>1
  <2>3. 5 + 1 = 6 BY ONLY TRUE
  <2> QED BY ONLY <2>2, <2>3 DEF CO!Finalize
<1>4. 1 .. 5 = {1, 2, 3, 4, 5} OBVIOUS
<1>5. CO!Arrays = {"part1", "part2", "matrix1", "matrix2", "col_matrixB",
                   "local_matrix1", "local_C", "result"}
  <2>1. CO!Arrays = UNION {{CO!ProductCalls[k].from, CO!ProductCalls[k].to}
                              : k \in {1, 2, 3, 4, 5}}
    BY <1>1, <1>2, <1>4 DEF CO!Arrays
  <2>2. CO!ProductCalls[1].from = "part1" /\ CO!ProductCalls[1].to = "matrix1"
    BY <1>2 DEF IsCall
  <2>3. CO!ProductCalls[2].from = "part2" /\ CO!ProductCalls[2].to = "matrix2"
    BY <1>2 DEF IsCall
  <2>4. CO!ProductCalls[3].from = "col_matrixB" /\ CO!ProductCalls[3].to = "col_matrixB"
    BY <1>2 DEF IsCall
  <2>5. CO!ProductCalls[4].from = "matrix1" /\ CO!ProductCalls[4].to = "local_matrix1"
    BY <1>2 DEF IsCall
  <2>6. CO!ProductCalls[5].from = "local_C" /\ CO!ProductCalls[5].to = "result"
    BY <1>2 DEF IsCall
  <2> QED BY ONLY <2>1, <2>2, <2>3, <2>4, <2>5, <2>6
<1> QED BY <1>1, <1>2, <1>3, <1>5

LEMMA VectorProgram ==
    ASSUME collective = "vector"
    PROVE  /\ Len(CO!Calls) = 3 /\ CO!Finalize = 4
           /\ CO!Arrays = {"matrix1", "local_matrix1", "col_matrixB", "local_C", "result"}
           /\ IsCall(CO!Calls[1], "scatter", "matrix1", "local_matrix1", ch, "go on")
           /\ IsCall(CO!Calls[2], "bcast", "col_matrixB", "col_matrixB", dim, "multiply")
           /\ IsCall(CO!Calls[3], "gather", "local_C", "result", lr, "go on")
<1>1. CO!Calls = CO!VectorCalls BY DEF CO!Calls
<1>2. /\ Len(CO!VectorCalls) = 3
      /\ IsCall(CO!VectorCalls[1], "scatter", "matrix1", "local_matrix1", ch, "go on")
      /\ IsCall(CO!VectorCalls[2], "bcast", "col_matrixB", "col_matrixB", dim, "multiply")
      /\ IsCall(CO!VectorCalls[3], "gather", "local_C", "result", lr, "go on")
  BY DEF CO!VectorCalls, CO!Call, IsCall, ch, lr
<1>3. CO!Finalize = 4
  <2>1. Len(CO!VectorCalls) = 3 BY ONLY <1>2
  <2>2. Len(CO!Calls) = 3 BY ONLY <1>1, <2>1
  <2>3. 3 + 1 = 4 BY ONLY TRUE
  <2> QED BY ONLY <2>2, <2>3 DEF CO!Finalize
<1>4. 1 .. 3 = {1, 2, 3} OBVIOUS
<1>5. CO!Arrays = {"matrix1", "local_matrix1", "col_matrixB", "local_C", "result"}
  <2>1. CO!Arrays = UNION {{CO!VectorCalls[k].from, CO!VectorCalls[k].to} : k \in {1, 2, 3}}
    BY <1>1, <1>2, <1>4 DEF CO!Arrays
  <2>2. CO!VectorCalls[1].from = "matrix1" /\ CO!VectorCalls[1].to = "local_matrix1"
    BY <1>2 DEF IsCall
  <2>3. CO!VectorCalls[2].from = "col_matrixB" /\ CO!VectorCalls[2].to = "col_matrixB"
    BY <1>2 DEF IsCall
  <2>4. CO!VectorCalls[3].from = "local_C" /\ CO!VectorCalls[3].to = "result"
    BY <1>2 DEF IsCall
  <2> QED BY ONLY <2>1, <2>2, <2>3, <2>4
<1> QED BY <1>1, <1>2, <1>3, <1>5

LEMMA OneCallPrograms ==
    ASSUME collective \in {"scatter", "gather", "allgather"}
    PROVE  /\ Len(CO!Calls) = 1 /\ CO!Finalize = 2
           /\ collective = "scatter" =>
                 /\ CO!Arrays = {"matrix1", "local_matrix1"}
                 /\ IsCall(CO!Calls[1], "scatter", "matrix1", "local_matrix1", ch, "go on")
           /\ collective # "scatter" =>
                 /\ CO!Arrays = {"part1", "matrix1"}
                 /\ IsCall(CO!Calls[1], collective, "part1", "matrix1", ch, "go on")
<1> DEFINE cs == CO!Calls
<1>1. /\ Len(cs) = 1
      /\ collective = "scatter" =>
            IsCall(cs[1], "scatter", "matrix1", "local_matrix1", ch, "go on")
      /\ collective # "scatter" =>
            IsCall(cs[1], collective, "part1", "matrix1", ch, "go on")
  <2>1. CASE collective = "scatter"
    <3>1. CO!Calls = CO!ScatterCalls BY <2>1 DEF CO!Calls
    <3> QED BY <2>1, <3>1 DEF CO!ScatterCalls, CO!Call, IsCall, ch
  <2>2. CASE collective = "gather"
    <3>1. CO!Calls = CO!GatherCalls BY <2>2 DEF CO!Calls
    <3> QED BY <2>2, <3>1 DEF CO!GatherCalls, CO!Call, IsCall, ch
  <2>3. CASE collective = "allgather"
    <3>1. CO!Calls = CO!AllgatherCalls BY <2>3 DEF CO!Calls
    <3> QED BY <2>3, <3>1 DEF CO!AllgatherCalls, CO!Call, IsCall, ch
  <2> QED BY <2>1, <2>2, <2>3
<1> HIDE DEF cs
<1>2. 1 .. 1 = {1} OBVIOUS
<1>3. CO!Arrays = {cs[1].from, cs[1].to} BY <1>1, <1>2 DEF CO!Arrays, cs
<1>4. CO!Finalize = 2
  <2>1. Len(cs) = 1 BY ONLY <1>1
  <2>2. Len(CO!Calls) = 1 BY ONLY <2>1 DEF cs
  <2>3. 1 + 1 = 2 BY ONLY TRUE
  <2> QED BY ONLY <2>2, <2>3 DEF CO!Finalize
<1>5. collective = "scatter" => CO!Arrays = {"matrix1", "local_matrix1"}
  BY <1>1, <1>3 DEF IsCall
<1>6. collective # "scatter" => CO!Arrays = {"part1", "matrix1"}
  BY <1>1, <1>3 DEF IsCall
<1> QED BY <1>1, <1>4, <1>5, <1>6 DEF cs

(* The sizes. *)
LEMMA CollSizes ==
    ASSUME CollTypes
    PROVE  /\ size \in Nat \ {0} /\ dim \in Nat \ {0} /\ lr \in Nat
           /\ cols \in Nat \ {0} /\ ch \in Nat /\ CO!Ranks = 0 .. size - 1
           /\ collective = "product" => cols = dim
           /\ collective = "vector" => cols = 1
           /\ collective \in {"product", "vector"} => ch = lr * dim
           /\ collective \notin {"product", "vector"} => ch = dim
           /\ ~CO!Refused /\ collective = "product" => size * lr = dim
           /\ size = 1 => lr = dim
<1>1. size \in Nat \ {0} BY BoundsAssumption DEF CollTypes
<1>2. dim \in Nat \ {0} BY BoundsAssumption DEF CollTypes, CO!Dimensions, CO!Programs
<1>3. PICK m \in Nat, d \in 0 .. size - 1 : m = dim \div size /\ d = dim % size
                                           /\ dim = m * size + d
  BY <1>1, <1>2, Divided
<1>4. lr = m BY <1>3 DEF lr, CO!local_rows
<1>5. ~CO!Refused /\ collective = "product" => size * lr = dim
  <2> SUFFICES ASSUME ~CO!Refused, collective = "product" PROVE size * lr = dim OBVIOUS
  <2>1. d = 0 BY <1>3 DEF CO!Refused
  <2>2. m * size \in Nat /\ m * size = size * m BY <1>1
  <2>3. dim = m * size BY <1>2, <1>3, <2>1, <2>2
  <2> QED BY <1>4, <2>2, <2>3
<1>6. size = 1 => lr = dim
  <2> SUFFICES ASSUME size = 1 PROVE m = dim BY <1>4
  <2> QED BY <1>3
<1>7. cols = (IF collective = "vector" THEN 1 ELSE dim) BY DEF cols, CO!Columns
<1>8. ch = (IF collective \in {"product", "vector"} THEN lr * dim ELSE dim)
  BY DEF ch, CO!Chunk, lr
<1>9. lr * dim \in Nat BY <1>2, <1>4
<1> QED BY <1>1, <1>2, <1>4, <1>5, <1>6, <1>7, <1>8, <1>9 DEF CO!Ranks

--------------------------------------------------------------------------------
(* The arrays of the programs. *)

AllocatedLength(r, b) == IF b \in CO!AtRoot /\ r # 0 THEN 0 ELSE CO!Length(b)

LEMMA AllocatedIs ==
    \A r, b : /\ IsArray(CO!Allocated(r, b), AllocatedLength(r, b))
              /\ b \in CO!FilledFirst =>
                    CO!Allocated(r, b) = [c \in 1 .. AllocatedLength(r, b) |-> CO!Element(b, r, c)]
BY DEF IsArray, CO!Allocated, AllocatedLength

LEMMA Lengths ==
    ASSUME CollTypes
    PROVE  /\ CO!Length("part1") = ch /\ CO!Length("part2") = ch
           /\ CO!Length("local_matrix1") = ch /\ CO!Length("local_C") = lr * cols
           /\ collective \in {"product", "vector"} =>
                 CO!Length("matrix1") = dim * dim /\ CO!Length("matrix2") = dim * dim
           /\ collective \notin {"product", "vector"} => CO!Length("matrix1") = size * ch
           /\ CO!Length("col_matrixB") = dim * cols /\ CO!Length("result") = dim * cols
<1>1. collective \notin {"product", "vector"} => ch = dim BY CollSizes
<1> QED BY <1>1 DEF CO!Length, ch, lr, cols

(* Lengths of what the program puts together. *)
LEMMA WholeLengths ==
    ASSUME CollTypes, collective = "product", ~CO!Refused
    PROVE  size * ch = dim * dim /\ dim * cols = dim * dim
           /\ lr * cols = ch /\ size * (lr * cols) = dim * dim
<1>1. /\ size \in Nat /\ dim \in Nat /\ lr \in Nat /\ cols = dim
      /\ ch = lr * dim /\ size * lr = dim
  BY CollSizes
<1>2. size * (lr * dim) = (size * lr) * dim BY <1>1
<1> QED BY <1>1, <1>2

LEMMA ContentsShape ==
    ASSUME CollTypes
    PROVE  /\ \A b : IsArray(Together(b), size * ch)
           /\ collective = "product" => IsArray(ColB, dim * dim)
           /\ \A r \in CO!Ranks : IsArray(Local(r), ch) /\ IsArray(LocalC(r), lr * cols)
           /\ IsArray(Result, size * (lr * cols))
<1>1. \A b : IsArray(Together(b), size * ch) BY DEF IsArray, Together
<1>2. collective = "product" => IsArray(ColB, dim * dim)
  BY DEF IsArray, ColB, CO!Transposed
<1>3. ASSUME NEW r \in CO!Ranks PROVE IsArray(Local(r), ch)
  <2>1. r \in Nat /\ ch \in Nat BY CollSizes
  <2>2. PICK first \in Nat : first = r * ch BY <2>1
  <2>3. IsArray(CO!Part(Whole, r, ch), ch)
    BY ONLY <2>1, <2>2, PartElements
  <2> QED BY ONLY <2>3 DEF Local
<1>4. \A r : IsArray(LocalC(r), lr * cols)
  BY DEF IsArray, LocalC, CO!Product
<1>5. IsArray(Result, size * (lr * cols)) BY DEF IsArray, Result
<1> QED BY <1>1, <1>2, <1>3, <1>4, <1>5

(* What a gather puts together. *)
LEMMA GatheredIs ==
    ASSUME CollTypes, NEW c, NEW f, NEW cnt \in Nat, c.count = cnt,
           \A q \in CO!Ranks : mem[q][c.from] = f[q]
    PROVE  CO!Gathered(c) =
               [k \in 1 .. size * cnt |-> f[(k - 1) \div cnt][((k - 1) % cnt) + 1]]
<1>1. size \in Nat /\ CO!Ranks = 0 .. size - 1 BY CollSizes
<1>2. \A k \in 1 .. size * cnt : (k - 1) \div cnt \in CO!Ranks BY <1>1, InRow
<1>3. CO!Gathered(c) = [k \in 1 .. size * cnt |->
                           mem[(k - 1) \div cnt][c.from][((k - 1) % cnt) + 1]]
  BY DEF CO!Gathered
<1> QED BY <1>2, <1>3

LEMMA PartsGathered ==
    ASSUME CollTypes, NEW b \in {"part1", "part2"},
           \A q \in CO!Ranks : mem[q][b] = CO!Allocated(q, b),
           NEW c, c.from = b, c.count = ch
    PROVE  CO!Gathered(c) = Together(b)
<1> DEFINE f == [q \in CO!Ranks |-> CO!Allocated(q, b)]
<1>1. ch \in Nat /\ size \in Nat /\ CO!Ranks = 0 .. size - 1 BY CollSizes
<1>2. \A q \in CO!Ranks : mem[q][c.from] = f[q] OBVIOUS
<1>3. ASSUME NEW q \in CO!Ranks, NEW x \in 1 .. ch PROVE f[q][x] = CO!Element(b, q, x)
  <2>1. b \notin CO!AtRoot /\ b \in CO!FilledFirst BY DEF CO!AtRoot, CO!FilledFirst
  <2>2. AllocatedLength(q, b) = ch BY <2>1, Lengths DEF AllocatedLength
  <2>3. CO!Allocated(q, b) = [x1 \in 1 .. ch |-> CO!Element(b, q, x1)]
    BY <2>1, <2>2, AllocatedIs
  <2> QED BY <2>3
<1> HIDE DEF f
<1>4. CO!Gathered(c) = [k \in 1 .. size * ch |-> f[(k - 1) \div ch][((k - 1) % ch) + 1]]
  <2>1. PICK cnt \in Nat : cnt = ch BY <1>1
  <2>2. CO!Gathered(c)
            = [k \in 1 .. size * cnt |-> f[(k - 1) \div cnt][((k - 1) % cnt) + 1]]
    BY <1>2, <2>1, GatheredIs
  <2> QED BY <2>1, <2>2
<1>5. \A k \in 1 .. size * ch :
         f[(k - 1) \div ch][((k - 1) % ch) + 1]
             = CO!Element(b, (k - 1) \div ch, ((k - 1) % ch) + 1)
  BY <1>1, <1>3, InRow
<1> QED BY <1>4, <1>5 DEF Together

LEMMA ProductsGathered ==
    ASSUME CollTypes, \A q \in CO!Ranks : mem[q]["local_C"] = LocalC(q),
           NEW c, c.from = "local_C", c.count = lr * cols
    PROVE  CO!Gathered(c) = Result
<1> DEFINE f == [q \in CO!Ranks |-> LocalC(q)]
<1>1. PICK cnt \in Nat : cnt = lr * cols BY CollSizes
<1>2. size \in Nat /\ CO!Ranks = 0 .. size - 1 BY CollSizes
<1>3. \A q \in CO!Ranks : f[q] = LocalC(q) OBVIOUS
<1> HIDE DEF f
<1>4. \A q \in CO!Ranks : mem[q][c.from] = f[q] BY <1>3
<1>5. CO!Gathered(c) = [k \in 1 .. size * cnt |-> f[(k - 1) \div cnt][((k - 1) % cnt) + 1]]
  BY <1>1, <1>4, GatheredIs
<1>6. \A k \in 1 .. size * cnt : f[(k - 1) \div cnt] = LocalC((k - 1) \div cnt)
  BY <1>1, <1>2, <1>3, InRow
<1>7. CO!Gathered(c) =
         [k \in 1 .. size * cnt |-> LocalC((k - 1) \div cnt)[((k - 1) % cnt) + 1]]
  BY <1>5, <1>6
<1> QED BY <1>1, <1>7 DEF Result

--------------------------------------------------------------------------------
(* Collectives: the steps. *)

(* What the sizes determine. *)
LEMMA SameColl ==
    ASSUME UNCHANGED <<collective, size, dim>>
    PROVE  /\ CO!Ranks' = CO!Ranks /\ CO!Finalize' = CO!Finalize /\ CO!Arrays' = CO!Arrays
           /\ CO!Dimensions' = CO!Dimensions /\ CO!Refused' = CO!Refused
           /\ \A r, b : CO!Allocated(r, b)' = CO!Allocated(r, b)
           /\ \A b : Together(b)' = Together(b)
           /\ ColB' = ColB
           /\ \A r : Local(r)' = Local(r) /\ LocalC(r)' = LocalC(r)
           /\ Result' = Result
<1>1. lr' = lr BY DEF lr, CO!local_rows
<1>2. cols' = cols BY DEF cols, CO!Columns
<1>3. ch' = ch BY DEF ch, CO!Chunk, CO!local_rows
<1>4. CO!Calls' = CO!Calls
  BY DEF CO!Calls, CO!ProductCalls, CO!VectorCalls, CO!ScatterCalls, CO!GatherCalls,
         CO!AllgatherCalls, CO!Call, CO!Chunk, CO!local_rows
<1>5. CO!Ranks' = CO!Ranks /\ CO!Finalize' = CO!Finalize /\ CO!Arrays' = CO!Arrays
      /\ CO!Dimensions' = CO!Dimensions /\ CO!Refused' = CO!Refused
  BY <1>4 DEF CO!Ranks, CO!Finalize, CO!Arrays, CO!Dimensions, CO!Refused
<1>6. \A r, b : CO!Allocated(r, b)' = CO!Allocated(r, b)
  BY DEF CO!Allocated, CO!AtRoot, CO!FilledFirst, CO!Length, CO!Chunk, CO!local_rows,
         CO!Columns
<1>7. \A b : Together(b)' = Together(b) BY <1>3 DEF Together
<1>8. Whole' = Whole BY <1>6, <1>7 DEF Whole
<1>9. ColB' = ColB BY <1>6, <1>7 DEF ColB, CO!Transposed
<1>10. \A r : Local(r)' = Local(r) BY <1>3, <1>8 DEF Local, CO!Part
<1>11. \A r : LocalC(r)' = LocalC(r)
  BY <1>1, <1>2, <1>9, <1>10 DEF LocalC, CO!Product, CO!DotProduct, CO!Part
<1>12. Result' = Result BY <1>1, <1>2, <1>11 DEF Result
<1> QED BY <1>5, <1>6, <1>7, <1>9, <1>10, <1>11, <1>12

LEMMA TypesKept ==
    ASSUME CollTypes, UNCHANGED <<collective, size, dim, coll_eager>>,
           tested' \in BOOLEAN, coll_aborted' \in BOOLEAN,
           stage' \in [CO!Ranks -> 1 .. CO!Finalize + 1],
           mem' = [r \in CO!Ranks |-> [b \in CO!Arrays |-> mem'[r][b]]]
    PROVE  CollTypes'
<1>1. CO!Ranks' = CO!Ranks /\ CO!Finalize' = CO!Finalize /\ CO!Arrays' = CO!Arrays
      /\ CO!Dimensions' = CO!Dimensions
  BY SameColl
<1> QED BY <1>1 DEF CollTypes

(* What was true of a rank stays true of it while it does nothing. *)
LEMMA OthersKeep ==
    ASSUME UNCHANGED <<collective, size, dim>>, NEW r, MemOf(r),
           mem'[r] = mem[r], stage'[r] = stage[r]
    PROVE  MemOf(r)'
<1>1. /\ \A b : Kept(r, b)' <=> Kept(r, b)
      /\ \A b, k, f : Gets(r, b, k, f)' <=> Gets(r, b, k, f)
      /\ \A b : Together(b)' = Together(b)
      /\ ColB' = ColB /\ Local(r)' = Local(r) /\ LocalC(r)' = LocalC(r) /\ Result' = Result
  BY SameColl DEF Kept, Gets
<1>2. ProductMem(r)' <=> ProductMem(r)
  <2>1. Gets(r, "matrix1", 1, Together("part1"))' <=> Gets(r, "matrix1", 1, Together("part1"))
    BY SameColl DEF Gets
  <2>2. Gets(r, "matrix2", 2, Together("part2"))' <=> Gets(r, "matrix2", 2, Together("part2"))
    BY SameColl DEF Gets
  <2>3. \A k : Gets(r, "col_matrixB", k, ColB)' <=> Gets(r, "col_matrixB", k, ColB)
    BY SameColl DEF Gets
  <2>4. Gets(r, "result", 5, Result)' <=> Gets(r, "result", 5, Result)
    BY SameColl DEF Gets
  <2>5. Gets(r, "local_matrix1", 4, Local(r))' <=> Gets(r, "local_matrix1", 4, Local(r))
    BY SameColl DEF Gets
  <2>6. Gets(r, "local_C", 4, LocalC(r))' <=> Gets(r, "local_C", 4, LocalC(r))
    BY SameColl DEF Gets
  <2> QED BY ONLY <1>1, <2>1, <2>2, <2>3, <2>4, <2>5, <2>6 DEF ProductMem
<1>3. VectorMem(r)' <=> VectorMem(r)
  <2>1. Gets(r, "local_matrix1", 1, Local(r))' <=> Gets(r, "local_matrix1", 1, Local(r))
    BY SameColl DEF Gets
  <2>2. Gets(r, "local_C", 2, LocalC(r))' <=> Gets(r, "local_C", 2, LocalC(r))
    BY SameColl DEF Gets
  <2>3. Gets(r, "result", 3, Result)' <=> Gets(r, "result", 3, Result)
    BY SameColl DEF Gets
  <2> QED BY <1>1, <2>1, <2>2, <2>3 DEF VectorMem
<1>4. ScatterMem(r)' <=> ScatterMem(r)
  <2>1. Gets(r, "local_matrix1", 1, Local(r))' <=> Gets(r, "local_matrix1", 1, Local(r))
    BY SameColl DEF Gets
  <2> QED BY <1>1, <2>1 DEF ScatterMem
<1>5. GatherMem(r)' <=> GatherMem(r)
  <2>1. Gets(r, "matrix1", 1, Together("part1"))' <=> Gets(r, "matrix1", 1, Together("part1"))
    BY SameColl DEF Gets
  <2> QED BY <1>1, <2>1 DEF GatherMem
<1> QED BY <1>2, <1>3, <1>4, <1>5 DEF MemOf

(* Rank r leaves collective k: where the rank is then and what it has. *)
Moved(r, k) ==
    LET c == CO!Calls[k] IN
    /\ stage'[r] = k + 1
    /\ mem'[r][c.to] = CO!Received(r, c)
    /\ c.then = "transpose" /\ r = 0 =>
          mem'[r]["col_matrixB"] = CO!Transposed(mem'[r]["matrix2"], dim)
    /\ c.then = "multiply" =>
          mem'[r]["local_C"] = CO!Product(mem'[r]["local_matrix1"], lr,
                                          mem'[r]["col_matrixB"], cols, dim)
    /\ \A b \in CO!Arrays :
          \/ b = c.to
          \/ c.then = "transpose" /\ r = 0 /\ b = "col_matrixB"
          \/ c.then = "multiply" /\ b = "local_C"
          \/ mem'[r][b] = mem[r][b]

(* The arrays of a rank. *)
Memory(f) == f = [b \in CO!Arrays |-> f[b]]

LEMMA Leaves ==
    ASSUME CollTypes, NEW r \in CO!Ranks, NEW k \in 1 .. Len(CO!Calls), k = stage[r],
           CO!Return(r), ~CO!Nowhere(r, CO!Calls[k]),
           CO!Calls[k].to \in CO!Arrays,
           CO!Calls[k].then = "transpose" => {"matrix2", "col_matrixB"} \subseteq CO!Arrays
                                             /\ CO!Calls[k].to = "matrix2",
           CO!Calls[k].then = "multiply" =>
               {"local_matrix1", "col_matrixB", "local_C"} \subseteq CO!Arrays
               /\ CO!Calls[k].to # "local_C"
    PROVE  /\ CollTypes'
           /\ UNCHANGED <<collective, size, dim, coll_eager, tested, coll_aborted>>
           /\ CO!Joined(r, k) /\ CO!MayReturn(r, k)
           /\ Moved(r, k)
           /\ \A q \in CO!Ranks \ {r} : mem'[q] = mem[q] /\ stage'[q] = stage[q]
<1> DEFINE c == CO!Calls[k]
           got == [mem[r] EXCEPT ![c.to] = CO!Received(r, c)]
           new == CO!Computed(r, got, c.then)
<1>1. /\ stage' = [stage EXCEPT ![r] = k + 1]
      /\ mem' = [mem EXCEPT ![r] = new]
      /\ UNCHANGED <<collective, size, dim, coll_eager, tested, coll_aborted>>
      /\ CO!Joined(r, k) /\ CO!MayReturn(r, k)
  BY DEF CO!Return, CO!Leave, CO!Ready
<1>2. mem[r] = [b \in CO!Arrays |-> mem[r][b]] /\ mem = [q \in CO!Ranks |-> mem[q]]
  BY DEF CollTypes
<1>3. PICK g : /\ g = got
               /\ g[c.to] = CO!Received(r, c)
               /\ \A b \in CO!Arrays : b # c.to => g[b] = mem[r][b]
               /\ Memory(g)
  <2>1. Memory(got) BY <1>2 DEF Memory
  <2>2. got[c.to] = CO!Received(r, c) BY <1>2
  <2>3. \A b \in CO!Arrays : b # c.to => got[b] = mem[r][b] BY <1>2
  <2> HIDE DEF got
  <2> QED BY <2>1, <2>2, <2>3
<1>4. PICK n : /\ n = new
               /\ Memory(n)
               /\ n[c.to] = CO!Received(r, c)
               /\ c.then = "transpose" /\ r = 0 =>
                     n["col_matrixB"] = CO!Transposed(n["matrix2"], dim)
               /\ c.then = "multiply" =>
                     n["local_C"] = CO!Product(n["local_matrix1"], lr, n["col_matrixB"],
                                               cols, dim)
               /\ \A b \in CO!Arrays :
                     \/ b = c.to
                     \/ c.then = "transpose" /\ r = 0 /\ b = "col_matrixB"
                     \/ c.then = "multiply" /\ b = "local_C"
                     \/ n[b] = mem[r][b]
  <2>0. PICK n : n = new OBVIOUS
  <2>1. CASE c.then = "transpose" /\ r = 0
    <3>1. n = [g EXCEPT !["col_matrixB"] = CO!Transposed(g["matrix2"], dim)]
      BY <1>3, <2>0, <2>1 DEF CO!Computed
    <3>2. {"matrix2", "col_matrixB"} \subseteq CO!Arrays /\ c.to = "matrix2" BY <2>1
    <3>3. n["matrix2"] = g["matrix2"] /\ Memory(n)
          /\ n["col_matrixB"] = CO!Transposed(g["matrix2"], dim)
          /\ \A b \in CO!Arrays : b # "col_matrixB" => n[b] = g[b]
      BY ONLY <1>3, <3>1, <3>2 DEF Memory
    <3>4. n["col_matrixB"] = CO!Transposed(n["matrix2"], dim) BY ONLY <3>3
    <3>5. n[c.to] = CO!Received(r, c) BY ONLY <1>3, <3>2, <3>3
    <3>6. \A b \in CO!Arrays : b = c.to \/ b = "col_matrixB" \/ n[b] = mem[r][b]
      BY ONLY <1>3, <3>3
    <3> QED BY ONLY <2>0, <2>1, <3>3, <3>4, <3>5, <3>6
  <2>2. CASE c.then = "multiply"
    <3>1. n = [g EXCEPT !["local_C"] =
                  CO!Product(g["local_matrix1"], lr, g["col_matrixB"], cols, dim)]
      BY <1>3, <2>0, <2>2 DEF CO!Computed, lr, cols
    <3>2. {"local_matrix1", "col_matrixB", "local_C"} \subseteq CO!Arrays
          /\ c.to # "local_C" /\ c.to \in CO!Arrays /\ c.then # "transpose"
      BY <2>2
    <3>3. /\ n["local_matrix1"] = g["local_matrix1"] /\ n["col_matrixB"] = g["col_matrixB"]
          /\ n["local_C"] = CO!Product(g["local_matrix1"], lr, g["col_matrixB"], cols, dim)
          /\ \A b \in CO!Arrays : b # "local_C" => n[b] = g[b]
          /\ Memory(n)
      BY ONLY <1>3, <3>1, <3>2 DEF Memory
    <3>4. n["local_C"] = CO!Product(n["local_matrix1"], lr, n["col_matrixB"], cols, dim)
      BY ONLY <3>3
    <3>5. n[c.to] = CO!Received(r, c) BY ONLY <1>3, <3>2, <3>3
    <3>6. \A b \in CO!Arrays : b = c.to \/ b = "local_C" \/ n[b] = mem[r][b]
      BY ONLY <1>3, <3>3
    <3> QED BY ONLY <2>0, <2>2, <3>2, <3>3, <3>4, <3>5, <3>6
  <2>3. CASE ~(c.then = "transpose" /\ r = 0) /\ c.then # "multiply"
    <3>1. n = g BY <1>3, <2>0, <2>3 DEF CO!Computed
    <3>2. Memory(n) /\ n[c.to] = CO!Received(r, c) BY ONLY <1>3, <3>1
    <3>3. \A b \in CO!Arrays : b = c.to \/ n[b] = mem[r][b] BY ONLY <1>3, <3>1
    <3> QED BY ONLY <2>0, <2>3, <3>2, <3>3
  <2> QED BY ONLY <2>1, <2>2, <2>3
<1>5. mem'[r] = n /\ \A q \in CO!Ranks \ {r} : mem'[q] = mem[q] BY <1>1, <1>2, <1>4
<1>6. stage'[r] = k + 1 /\ \A q \in CO!Ranks \ {r} : stage'[q] = stage[q]
  BY <1>1 DEF CollTypes
<1>7. Moved(r, k) BY <1>4, <1>5, <1>6 DEF Moved
<1>8. CollTypes'
  <2>1. \A q \in CO!Ranks : mem'[q] = [b \in CO!Arrays |-> mem'[q][b]]
    BY <1>4, <1>5 DEF CollTypes, Memory
  <2>2. mem' = [q \in CO!Ranks |-> [b \in CO!Arrays |-> mem'[q][b]]]
    <3>1. mem' = [q \in CO!Ranks |-> mem'[q]] BY <1>1, <1>2
    <3> QED BY <2>1, <3>1
  <2>3. stage' \in [CO!Ranks -> 1 .. CO!Finalize + 1]
    <3>1. k + 1 \in 1 .. CO!Finalize + 1 BY DEF CO!Finalize
    <3> QED BY <1>1, <3>1 DEF CollTypes
  <2>4. tested' \in BOOLEAN /\ coll_aborted' \in BOOLEAN BY <1>1 DEF CollTypes
  <2> QED BY <1>1, <2>2, <2>3, <2>4, TypesKept
<1> QED BY <1>1, <1>5, <1>6, <1>7, <1>8

--------------------------------------------------------------------------------
(* What a rank knows when it leaves a collective. *)

LEMMA Causes ==
    ASSUME NEW r \in CO!Ranks, NEW k \in 1 .. Len(CO!Calls), k # CO!Finalize,
           CO!Joined(r, k), CO!MayReturn(r, k)
    PROVE  /\ CO!Calls[k].op \in {"bcast", "scatter"} =>
                 ~CO!Refused /\ stage[0] >= k
           /\ CO!Calls[k].op = "allgather" \/ (CO!Calls[k].op = "gather" /\ r = 0) =>
                 \A q \in CO!Ranks : stage[q] >= k
           /\ r = 0 => ~CO!Refused
<1>1. CO!Joined(0, k) => ~CO!Refused /\ stage[0] >= k BY DEF CO!Joined
<1>2. CO!Calls[k].op \in {"bcast", "scatter"} => CO!Joined(0, k)
  BY DEF CO!MayReturn
<1>3. CO!Calls[k].op = "allgather" \/ (CO!Calls[k].op = "gather" /\ r = 0) => CO!AllJoined(k)
  BY DEF CO!MayReturn
<1>4. CO!AllJoined(k) => \A q \in CO!Ranks : stage[q] >= k BY DEF CO!AllJoined, CO!Joined
<1> QED BY <1>1, <1>2, <1>3, <1>4

(* The array is after the step as the program or the collective leaves it. *)
StillKept(r, b) == mem'[r][b] = CO!Allocated(r, b)

NowGets(r, b, k, final) ==
    mem'[r][b] = IF stage'[r] > k /\ ~CO!Refused THEN final ELSE CO!Allocated(r, b)

LEMMA Afterwards ==
    ASSUME UNCHANGED <<collective, size, dim>>, NEW r
    PROVE  /\ \A b : Kept(r, b)' <=> StillKept(r, b)
           /\ \A b, k, x : Gets(r, b, k, Together(x))' <=> NowGets(r, b, k, Together(x))
           /\ \A b, k : Gets(r, b, k, ColB)' <=> NowGets(r, b, k, ColB)
           /\ \A b, k : Gets(r, b, k, Result)' <=> NowGets(r, b, k, Result)
           /\ \A b, k : Gets(r, b, k, Local(r))' <=> NowGets(r, b, k, Local(r))
           /\ \A b, k : Gets(r, b, k, LocalC(r))' <=> NowGets(r, b, k, LocalC(r))
BY SameColl DEF Kept, StillKept, Gets, NowGets

LEMMA ProductAfterwards ==
    ASSUME UNCHANGED <<collective, size, dim>>, NEW r,
           StillKept(r, "part1"), StillKept(r, "part2"),
           r = 0 => /\ NowGets(r, "matrix1", 1, Together("part1"))
                    /\ NowGets(r, "matrix2", 2, Together("part2"))
                    /\ NowGets(r, "col_matrixB", 2, ColB)
                    /\ NowGets(r, "result", 5, Result),
           r # 0 => /\ StillKept(r, "matrix1") /\ StillKept(r, "matrix2")
                    /\ StillKept(r, "result")
                    /\ NowGets(r, "col_matrixB", 3, ColB),
           NowGets(r, "local_matrix1", 4, Local(r)),
           NowGets(r, "local_C", 4, LocalC(r))
    PROVE  ProductMem(r)'
BY Afterwards DEF ProductMem

LEMMA VectorAfterwards ==
    ASSUME UNCHANGED <<collective, size, dim>>, NEW r,
           StillKept(r, "matrix1"), StillKept(r, "col_matrixB"),
           NowGets(r, "local_matrix1", 1, Local(r)),
           NowGets(r, "local_C", 2, LocalC(r)),
           r = 0 => NowGets(r, "result", 3, Result) /\ (size > 1 => stage'[r] <= 3),
           r # 0 => StillKept(r, "result") /\ stage'[r] <= 2
    PROVE  VectorMem(r)'
BY Afterwards DEF VectorMem

LEMMA OneCallAfterwards ==
    ASSUME UNCHANGED <<collective, size, dim>>, NEW r
    PROVE  /\ StillKept(r, "matrix1") /\ NowGets(r, "local_matrix1", 1, Local(r))
              => ScatterMem(r)'
           /\ StillKept(r, "part1")
              /\ (IF r = 0 \/ collective = "allgather"
                  THEN NowGets(r, "matrix1", 1, Together("part1"))
                  ELSE StillKept(r, "matrix1"))
              => GatherMem(r)'
BY Afterwards DEF ScatterMem, GatherMem

--------------------------------------------------------------------------------
(* The product, collective by collective. *)

(* Arrays that are as they were at first have their lengths. *)
LEMMA ProductShapes ==
    ASSUME CollTypes, collective = "product", NEW r \in CO!Ranks
    PROVE  /\ IsArray(CO!Allocated(r, "col_matrixB"), dim * dim)
           /\ IsArray(CO!Allocated(r, "local_matrix1"), ch)
           /\ r = 0 => /\ IsArray(CO!Allocated(r, "matrix1"), dim * dim)
                       /\ IsArray(CO!Allocated(r, "matrix2"), dim * dim)
                       /\ IsArray(CO!Allocated(r, "result"), dim * dim)
<1>1. /\ CO!Length("col_matrixB") = dim * dim /\ CO!Length("local_matrix1") = ch
      /\ CO!Length("matrix1") = dim * dim /\ CO!Length("matrix2") = dim * dim
      /\ CO!Length("result") = dim * dim
  BY Lengths, CollSizes
<1>2. /\ AllocatedLength(r, "col_matrixB") = dim * dim
      /\ AllocatedLength(r, "local_matrix1") = ch
      /\ r = 0 => /\ AllocatedLength(r, "matrix1") = dim * dim
                  /\ AllocatedLength(r, "matrix2") = dim * dim
                  /\ AllocatedLength(r, "result") = dim * dim
  BY <1>1 DEF AllocatedLength, CO!AtRoot
<1> QED BY <1>2, AllocatedIs

LEMMA ProductLeaves ==
    ASSUME CollInv, collective = "product", NEW r \in CO!Ranks, CO!Return(r)
    PROVE  /\ CollTypes'
           /\ UNCHANGED <<collective, size, dim, coll_eager, tested, coll_aborted>>
           /\ \A q \in CO!Ranks \ {r} : mem'[q] = mem[q] /\ stage'[q] = stage[q]
           /\ stage[r] \in 1 .. 5 /\ Moved(r, stage[r])
           /\ CO!Joined(r, stage[r]) /\ CO!MayReturn(r, stage[r])
<1>1. CollTypes /\ ProductMem(r) BY DEF CollInv, MemOf
<1>2. PICK k \in 1 .. 5 : k = stage[r]
  <2>1. CO!Finalize = 6 BY ProductProgram
  <2>2. stage[r] \in 1 .. CO!Finalize + 1 /\ stage[r] < CO!Finalize
    BY <1>1 DEF CollTypes, CO!Return
  <2>3. stage[r] \in 1 .. 5 BY ONLY <2>1, <2>2
  <2> QED BY ONLY <2>3
<1>3. ~CO!Nowhere(r, CO!Calls[k])
  <2>1. CASE k # 3
    <3>1. k = 1 \/ k = 2 \/ k = 4 \/ k = 5 BY ONLY k \in 1 .. 5, <2>1
    <3>2. CO!Calls[k].op # "bcast" BY <3>1, ProductProgram DEF IsCall
    <3> QED BY <3>2 DEF CO!Nowhere
  <2>2. CASE k = 3
    <3>1. CO!Calls[k].to = "col_matrixB" BY <2>2, ProductProgram DEF IsCall
    <3>2. \/ mem[r]["col_matrixB"] = ColB
          \/ mem[r]["col_matrixB"] = CO!Allocated(r, "col_matrixB")
      BY <1>1 DEF ProductMem, Gets
    <3>3. IsArray(mem[r]["col_matrixB"], dim * dim)
      BY ONLY <1>1, <3>2, ContentsShape, ProductShapes, collective = "product", r \in CO!Ranks
    <3>4. PICK len \in Nat : len = dim * dim /\ len # 0
      <4>1. PICK d \in Nat \ {0} : d = dim BY <1>1, CollSizes
      <4>2. d * d \in Nat /\ d * d # 0 BY ONLY d \in Nat \ {0}
      <4> QED BY <4>1, <4>2
    <3>5. Len(mem[r]["col_matrixB"]) = len BY ONLY <3>3, <3>4, LengthOf
    <3>6. Len(<<>>) = 0 OBVIOUS
    <3>7. mem[r]["col_matrixB"] # <<>> BY ONLY <3>4, <3>5, <3>6
    <3> QED BY <3>1, <3>7 DEF CO!Nowhere
  <2> QED BY <2>1, <2>2
<1>4. k \in 1 .. Len(CO!Calls) BY <1>2, ProductProgram
<1>5. /\ CO!Calls[k].to \in CO!Arrays
      /\ CO!Calls[k].then = "transpose" => k = 2
      /\ CO!Calls[k].then = "multiply" => k = 4
  <2>1. k = 1 \/ k = 2 \/ k = 3 \/ k = 4 \/ k = 5 BY ONLY k \in 1 .. 5
  <2> QED BY <2>1, ProductProgram DEF IsCall
<1>6. /\ CO!Calls[k].then = "transpose" =>
             {"matrix2", "col_matrixB"} \subseteq CO!Arrays /\ CO!Calls[k].to = "matrix2"
      /\ CO!Calls[k].then = "multiply" =>
             {"local_matrix1", "col_matrixB", "local_C"} \subseteq CO!Arrays
             /\ CO!Calls[k].to # "local_C"
  BY <1>5, ProductProgram DEF IsCall
<1> QED BY <1>1, <1>2, <1>3, <1>4, <1>5, <1>6, Leaves

LEMMA ProductCauses ==
    ASSUME collective = "product", NEW r \in CO!Ranks, NEW k \in 1 .. 5,
           CO!Joined(r, k), CO!MayReturn(r, k)
    PROVE  /\ k \in {3, 4} => ~CO!Refused /\ stage[0] >= k
           /\ r = 0 => ~CO!Refused
           /\ k = 5 /\ r = 0 => \A q \in CO!Ranks : stage[q] >= 5
<1>1. /\ Len(CO!Calls) = 5 /\ CO!Finalize = 6
      /\ CO!Calls[3].op = "bcast" /\ CO!Calls[4].op = "scatter" /\ CO!Calls[5].op = "gather"
  BY ProductProgram DEF IsCall
<1>2. k \in 1 .. Len(CO!Calls) BY ONLY <1>1, k \in 1 .. 5
<1>3. k # CO!Finalize BY ONLY <1>1, k \in 1 .. 5
<1> QED BY <1>1, <1>2, <1>3, Causes

(* What an array holds before the collective that fills it. *)
LEMMA NotYet ==
    ASSUME NEW r, NEW b, NEW k \in Nat, NEW f, Gets(r, b, k, f), stage[r] = k
    PROVE  mem[r][b] = CO!Allocated(r, b)
BY DEF Gets

LEMMA ProductFirst ==
    ASSUME CollInv, collective = "product", NEW r \in CO!Ranks, CO!Return(r), stage[r] = 1
    PROVE  ProductMem(r)'
<1> DEFINE c == CO!Calls[1]
<1>1. /\ UNCHANGED <<collective, size, dim>> /\ Moved(r, 1) /\ CollTypes
      /\ r = 0 => ~CO!Refused
  <2>1. PICK k \in 1 .. 5 : k = 1 OBVIOUS
  <2> QED BY <2>1, ProductLeaves, ProductCauses DEF CollInv
<1>2. /\ IsCall(c, "gather", "part1", "matrix1", ch, "go on")
      /\ Len(CO!Calls) = 5 /\ CO!Finalize = 6
  BY ProductProgram
<1>3. /\ stage'[r] = 2 /\ mem'[r]["matrix1"] = CO!Received(r, c)
      /\ \A b \in CO!Arrays : b = "matrix1" \/ mem'[r][b] = mem[r][b]
  <2>1. PICK k \in Nat : k = 1 OBVIOUS
  <2>2. Moved(r, k) /\ CO!Calls[k].to = "matrix1" /\ CO!Calls[k].then = "go on"
    BY <1>1, <1>2, <2>1 DEF IsCall
  <2>3. /\ stage'[r] = k + 1 /\ mem'[r]["matrix1"] = CO!Received(r, CO!Calls[k])
        /\ \A b \in CO!Arrays : b = "matrix1" \/ mem'[r][b] = mem[r][b]
    BY ONLY <2>2 DEF Moved
  <2> QED BY ONLY <2>1, <2>3
<1>4. \A q \in CO!Ranks : ProductMem(q) BY DEF CollInv, MemOf
<1>5. /\ mem'[r]["part1"] = mem[r]["part1"] /\ mem'[r]["part2"] = mem[r]["part2"]
      /\ mem'[r]["matrix2"] = mem[r]["matrix2"] /\ mem'[r]["result"] = mem[r]["result"]
      /\ mem'[r]["col_matrixB"] = mem[r]["col_matrixB"]
      /\ mem'[r]["local_matrix1"] = mem[r]["local_matrix1"]
      /\ mem'[r]["local_C"] = mem[r]["local_C"]
  BY <1>3, ProductProgram
<1>6. r = 0 => NowGets(r, "matrix1", 1, Together("part1"))
  <2> SUFFICES ASSUME r = 0 PROVE NowGets(r, "matrix1", 1, Together("part1")) OBVIOUS
  <2>1. ~CO!Refused BY <1>1
  <2>2. CO!Gathered(c) = Together("part1")
    <3>1. \A q \in CO!Ranks : mem[q]["part1"] = CO!Allocated(q, "part1")
      BY <1>4 DEF ProductMem, Kept
    <3> QED BY <1>1, <1>2, <3>1, PartsGathered DEF IsCall
  <2>3. PICK len \in Nat : len = dim * dim /\ len = size * ch
    BY <1>1, <2>1, CollSizes, WholeLengths
  <2>4. IsArray(mem[r]["matrix1"], len)
    <3>1. mem[r]["matrix1"] = CO!Allocated(r, "matrix1")
      BY <1>4, NotYet DEF ProductMem
    <3> QED BY <1>1, <2>3, <3>1, ProductShapes
  <2>5. IsArray(Together("part1"), len) BY <1>1, <2>3, ContentsShape
  <2>6. mem'[r]["matrix1"] = CO!Overwritten(mem[r]["matrix1"], 0, Together("part1"))
    BY <1>2, <1>3, <2>2 DEF CO!Received, IsCall
  <2>7. mem'[r]["matrix1"] = Together("part1")
    BY ONLY <2>3, <2>4, <2>5, <2>6, Replaced
  <2> QED BY <1>3, <2>1, <2>7 DEF NowGets
<1>7. r # 0 => StillKept(r, "matrix1")
  <2> SUFFICES ASSUME r # 0 PROVE StillKept(r, "matrix1") OBVIOUS
  <2>1. CO!Received(r, c) = mem[r]["matrix1"] BY <1>2 DEF CO!Received, IsCall
  <2> QED BY <1>3, <1>4, <2>1 DEF ProductMem, Kept, StillKept
<1>8. /\ StillKept(r, "part1") /\ StillKept(r, "part2")
      /\ r # 0 => StillKept(r, "matrix2") /\ StillKept(r, "result")
                  /\ NowGets(r, "col_matrixB", 3, ColB)
      /\ r = 0 => /\ NowGets(r, "matrix2", 2, Together("part2"))
                  /\ NowGets(r, "col_matrixB", 2, ColB)
                  /\ NowGets(r, "result", 5, Result)
      /\ NowGets(r, "local_matrix1", 4, Local(r)) /\ NowGets(r, "local_C", 4, LocalC(r))
  <2>1. ProductMem(r) BY <1>4
  <2> QED BY ONLY <1>3, <1>5, <2>1, stage[r] = 1
          DEF ProductMem, Kept, StillKept, Gets, NowGets
<1> QED BY ONLY <1>1, <1>6, <1>7, <1>8, ProductAfterwards

LEMMA ProductSecond ==
    ASSUME CollInv, collective = "product", NEW r \in CO!Ranks, CO!Return(r), stage[r] = 2
    PROVE  ProductMem(r)'
<1> DEFINE c == CO!Calls[2]
<1>1. /\ UNCHANGED <<collective, size, dim>> /\ Moved(r, 2) /\ CollTypes
      /\ r = 0 => ~CO!Refused
  <2>1. PICK k \in 1 .. 5 : k = 2 OBVIOUS
  <2> QED BY <2>1, ProductLeaves, ProductCauses DEF CollInv
<1>2. IsCall(c, "gather", "part2", "matrix2", ch, "transpose")
  BY ProductProgram
<1>3. /\ stage'[r] = 3 /\ mem'[r]["matrix2"] = CO!Received(r, c)
      /\ r = 0 => mem'[r]["col_matrixB"] = CO!Transposed(mem'[r]["matrix2"], dim)
      /\ \A b \in CO!Arrays :
            b = "matrix2" \/ (r = 0 /\ b = "col_matrixB") \/ mem'[r][b] = mem[r][b]
  <2>1. PICK k \in Nat : k = 2 OBVIOUS
  <2>2. Moved(r, k) /\ CO!Calls[k].to = "matrix2" /\ CO!Calls[k].then = "transpose"
    BY <1>1, <1>2, <2>1 DEF IsCall
  <2>3. /\ stage'[r] = k + 1 /\ mem'[r]["matrix2"] = CO!Received(r, CO!Calls[k])
        /\ r = 0 => mem'[r]["col_matrixB"] = CO!Transposed(mem'[r]["matrix2"], dim)
        /\ \A b \in CO!Arrays :
              b = "matrix2" \/ (r = 0 /\ b = "col_matrixB") \/ mem'[r][b] = mem[r][b]
    BY ONLY <2>2 DEF Moved
  <2> QED BY ONLY <2>1, <2>3
<1>4. \A q \in CO!Ranks : ProductMem(q) BY DEF CollInv, MemOf
<1>5. /\ mem'[r]["part1"] = mem[r]["part1"] /\ mem'[r]["part2"] = mem[r]["part2"]
      /\ mem'[r]["matrix1"] = mem[r]["matrix1"] /\ mem'[r]["result"] = mem[r]["result"]
      /\ r # 0 => mem'[r]["col_matrixB"] = mem[r]["col_matrixB"]
      /\ mem'[r]["local_matrix1"] = mem[r]["local_matrix1"]
      /\ mem'[r]["local_C"] = mem[r]["local_C"]
  BY <1>3, ProductProgram
<1>6. r = 0 => /\ NowGets(r, "matrix2", 2, Together("part2"))
               /\ NowGets(r, "col_matrixB", 2, ColB)
  <2> SUFFICES ASSUME r = 0
               PROVE  /\ NowGets(r, "matrix2", 2, Together("part2"))
                      /\ NowGets(r, "col_matrixB", 2, ColB)
    OBVIOUS
  <2>1. ~CO!Refused BY <1>1
  <2>2. CO!Gathered(c) = Together("part2")
    <3>1. \A q \in CO!Ranks : mem[q]["part2"] = CO!Allocated(q, "part2")
      BY <1>4 DEF ProductMem, Kept
    <3> QED BY <1>1, <1>2, <3>1, PartsGathered DEF IsCall
  <2>3. PICK len \in Nat : len = dim * dim /\ len = size * ch
    BY <1>1, <2>1, CollSizes, WholeLengths
  <2>4. IsArray(mem[r]["matrix2"], len)
    <3>1. mem[r]["matrix2"] = CO!Allocated(r, "matrix2")
      BY <1>4, NotYet DEF ProductMem
    <3> QED BY <1>1, <2>3, <3>1, ProductShapes
  <2>5. IsArray(Together("part2"), len) BY <1>1, <2>3, ContentsShape
  <2>6. mem'[r]["matrix2"] = CO!Overwritten(mem[r]["matrix2"], 0, Together("part2"))
    BY <1>2, <1>3, <2>2 DEF CO!Received, IsCall
  <2>7. mem'[r]["matrix2"] = Together("part2")
    BY ONLY <2>3, <2>4, <2>5, <2>6, Replaced
  <2>8. mem'[r]["col_matrixB"] = ColB BY <1>3, <2>7 DEF ColB
  <2> QED BY <1>3, <2>1, <2>7, <2>8 DEF NowGets
<1>7. r # 0 => StillKept(r, "matrix2")
  <2> SUFFICES ASSUME r # 0 PROVE StillKept(r, "matrix2") OBVIOUS
  <2>1. CO!Received(r, c) = mem[r]["matrix2"] BY <1>2 DEF CO!Received, IsCall
  <2> QED BY <1>3, <1>4, <2>1 DEF ProductMem, Kept, StillKept
<1>8. /\ StillKept(r, "part1") /\ StillKept(r, "part2")
      /\ r # 0 => StillKept(r, "matrix1") /\ StillKept(r, "result")
                  /\ NowGets(r, "col_matrixB", 3, ColB)
      /\ r = 0 => /\ NowGets(r, "matrix1", 1, Together("part1"))
                  /\ NowGets(r, "result", 5, Result)
      /\ NowGets(r, "local_matrix1", 4, Local(r)) /\ NowGets(r, "local_C", 4, LocalC(r))
  <2>1. ProductMem(r) BY <1>4
  <2> QED BY ONLY <1>3, <1>5, <2>1, stage[r] = 2
          DEF ProductMem, Kept, StillKept, Gets, NowGets
<1> QED BY ONLY <1>1, <1>6, <1>7, <1>8, ProductAfterwards

LEMMA ProductThird ==
    ASSUME CollInv, collective = "product", NEW r \in CO!Ranks, CO!Return(r), stage[r] = 3
    PROVE  ProductMem(r)'
<1> DEFINE c == CO!Calls[3]
<1>1. /\ UNCHANGED <<collective, size, dim>> /\ Moved(r, 3) /\ CollTypes
      /\ ~CO!Refused /\ stage[0] >= 3
  <2>1. PICK k \in 1 .. 5 : k = 3 OBVIOUS
  <2>2. CO!Joined(r, k) /\ CO!MayReturn(r, k) /\ k \in {3, 4} BY <2>1, ProductLeaves
  <2>3. ~CO!Refused /\ stage[0] >= k BY <2>2, ProductCauses
  <2> QED BY <2>1, <2>3, ProductLeaves DEF CollInv
<1>2. IsCall(c, "bcast", "col_matrixB", "col_matrixB", dim * dim, "go on")
  BY ProductProgram
<1>3. /\ stage'[r] = 4 /\ mem'[r]["col_matrixB"] = CO!Received(r, c)
      /\ \A b \in CO!Arrays : b = "col_matrixB" \/ mem'[r][b] = mem[r][b]
  <2>1. PICK k \in Nat : k = 3 OBVIOUS
  <2>2. Moved(r, k) /\ CO!Calls[k].to = "col_matrixB" /\ CO!Calls[k].then = "go on"
    BY <1>1, <1>2, <2>1 DEF IsCall
  <2>3. /\ stage'[r] = k + 1 /\ mem'[r]["col_matrixB"] = CO!Received(r, CO!Calls[k])
        /\ \A b \in CO!Arrays : b = "col_matrixB" \/ mem'[r][b] = mem[r][b]
    BY ONLY <2>2 DEF Moved
  <2> QED BY ONLY <2>1, <2>3
<1>4. \A q \in CO!Ranks : ProductMem(q) BY DEF CollInv, MemOf
<1>5. /\ mem'[r]["part1"] = mem[r]["part1"] /\ mem'[r]["part2"] = mem[r]["part2"]
      /\ mem'[r]["matrix1"] = mem[r]["matrix1"] /\ mem'[r]["matrix2"] = mem[r]["matrix2"]
      /\ mem'[r]["result"] = mem[r]["result"]
      /\ mem'[r]["local_matrix1"] = mem[r]["local_matrix1"]
      /\ mem'[r]["local_C"] = mem[r]["local_C"]
  BY <1>3, ProductProgram
<1>6. mem'[r]["col_matrixB"] = ColB
  <2>1. PICK len \in Nat : len = dim * dim BY <1>1, CollSizes
  <2>2. PICK zero \in CO!Ranks : zero = 0 BY <1>1, CollSizes
  <2>3. mem[zero]["col_matrixB"] = ColB
    <3>1. Gets(zero, "col_matrixB", 2, ColB) BY <1>4, <2>2 DEF ProductMem
    <3>2. stage[zero] > 2
      <4>1. stage[zero] \in Int BY <1>1 DEF CollTypes
      <4> QED BY <1>1, <2>2, <4>1
    <3> QED BY <1>1, <3>1, <3>2 DEF Gets
  <2>4. IsArray(ColB, len) BY <1>1, <2>1, ContentsShape
  <2>5. CO!Part(ColB, 0, len) = ColB BY ONLY <2>1, <2>4, WholePart
  <2>6. CO!Received(r, c) =
            CO!Overwritten(mem[r]["col_matrixB"], 0, CO!Part(mem[0]["col_matrixB"], 0, len))
    BY <1>2, <2>1 DEF CO!Received, IsCall
  <2>7. mem'[r]["col_matrixB"] = CO!Overwritten(mem[r]["col_matrixB"], 0, ColB)
    BY <1>3, <2>2, <2>3, <2>5, <2>6
  <2>8. IsArray(mem[r]["col_matrixB"], len)
    <3>1. mem[r]["col_matrixB"] \in {ColB, CO!Allocated(r, "col_matrixB")}
      BY <1>4 DEF ProductMem, Gets
    <3> QED BY <1>1, <2>1, <2>4, <3>1, ProductShapes
  <2> QED BY ONLY <2>1, <2>4, <2>7, <2>8, Replaced
<1>7. /\ r = 0 => NowGets(r, "col_matrixB", 2, ColB)
      /\ r # 0 => NowGets(r, "col_matrixB", 3, ColB)
  BY <1>1, <1>3, <1>6 DEF NowGets
<1>8. /\ StillKept(r, "part1") /\ StillKept(r, "part2")
      /\ r # 0 => StillKept(r, "matrix1") /\ StillKept(r, "matrix2") /\ StillKept(r, "result")
      /\ r = 0 => /\ NowGets(r, "matrix1", 1, Together("part1"))
                  /\ NowGets(r, "matrix2", 2, Together("part2"))
                  /\ NowGets(r, "result", 5, Result)
      /\ NowGets(r, "local_matrix1", 4, Local(r)) /\ NowGets(r, "local_C", 4, LocalC(r))
  <2>1. ProductMem(r) BY <1>4
  <2> QED BY ONLY <1>3, <1>5, <2>1, stage[r] = 3
          DEF ProductMem, Kept, StillKept, Gets, NowGets
<1> QED BY ONLY <1>1, <1>7, <1>8, ProductAfterwards

(* A rank's part of a matrix takes the place of its array. *)
LEMMA PartReceived ==
    ASSUME CollTypes, NEW r \in CO!Ranks, NEW c, c.op = "scatter", c.count = ch,
           mem[0][c.from] = Whole, IsArray(mem[r][c.to], ch)
    PROVE  CO!Received(r, c) = Local(r)
<1>1. PICK len \in Nat : len = ch BY CollSizes
<1>2. IsArray(Local(r), len) BY <1>1, ContentsShape
<1>3. CO!Received(r, c) = CO!Overwritten(mem[r][c.to], 0, Local(r))
  BY DEF CO!Received, Local
<1>4. CO!Overwritten(mem[r][c.to], 0, Local(r)) = Local(r)
  BY ONLY <1>1, <1>2, IsArray(mem[r][c.to], ch), Replaced
<1> QED BY ONLY <1>3, <1>4

LEMMA ProductFourth ==
    ASSUME CollInv, collective = "product", NEW r \in CO!Ranks, CO!Return(r), stage[r] = 4
    PROVE  ProductMem(r)'
<1> DEFINE c == CO!Calls[4]
<1>1. /\ UNCHANGED <<collective, size, dim>> /\ Moved(r, 4) /\ CollTypes
      /\ ~CO!Refused /\ stage[0] >= 4
  <2>1. PICK k \in 1 .. 5 : k = 4 OBVIOUS
  <2>2. CO!Joined(r, k) /\ CO!MayReturn(r, k) /\ k \in {3, 4} BY <2>1, ProductLeaves
  <2>3. ~CO!Refused /\ stage[0] >= k BY <2>2, ProductCauses
  <2> QED BY <2>1, <2>3, ProductLeaves DEF CollInv
<1>2. IsCall(c, "scatter", "matrix1", "local_matrix1", ch, "multiply")
  BY ProductProgram
<1>3. /\ stage'[r] = 5 /\ mem'[r]["local_matrix1"] = CO!Received(r, c)
      /\ mem'[r]["local_C"] = CO!Product(mem'[r]["local_matrix1"], lr,
                                         mem'[r]["col_matrixB"], cols, dim)
      /\ \A b \in CO!Arrays :
            b = "local_matrix1" \/ b = "local_C" \/ mem'[r][b] = mem[r][b]
  <2>1. PICK k \in Nat : k = 4 OBVIOUS
  <2>2. Moved(r, k) /\ CO!Calls[k].to = "local_matrix1" /\ CO!Calls[k].then = "multiply"
    BY <1>1, <1>2, <2>1 DEF IsCall
  <2>3. /\ stage'[r] = k + 1 /\ mem'[r]["local_matrix1"] = CO!Received(r, CO!Calls[k])
        /\ mem'[r]["local_C"] = CO!Product(mem'[r]["local_matrix1"], lr,
                                           mem'[r]["col_matrixB"], cols, dim)
        /\ \A b \in CO!Arrays :
              b = "local_matrix1" \/ b = "local_C" \/ mem'[r][b] = mem[r][b]
    BY ONLY <2>2 DEF Moved
  <2> QED BY ONLY <2>1, <2>3
<1>4. \A q \in CO!Ranks : ProductMem(q) BY DEF CollInv, MemOf
<1>5. /\ mem'[r]["part1"] = mem[r]["part1"] /\ mem'[r]["part2"] = mem[r]["part2"]
      /\ mem'[r]["matrix1"] = mem[r]["matrix1"] /\ mem'[r]["matrix2"] = mem[r]["matrix2"]
      /\ mem'[r]["col_matrixB"] = mem[r]["col_matrixB"]
      /\ mem'[r]["result"] = mem[r]["result"]
  BY <1>3, ProductProgram
<1>6. mem'[r]["local_matrix1"] = Local(r)
  <2>1. PICK zero \in CO!Ranks : zero = 0 BY <1>1, CollSizes
  <2>2. mem[0]["matrix1"] = Whole
    <3>1. Gets(zero, "matrix1", 1, Together("part1")) BY <1>4, <2>1 DEF ProductMem
    <3>2. stage[zero] > 1
      <4>1. stage[zero] \in Int BY <1>1 DEF CollTypes
      <4> QED BY <1>1, <2>1, <4>1
    <3> QED BY <1>1, <2>1, <3>1, <3>2 DEF Gets, Whole
  <2>3. IsArray(mem[r]["local_matrix1"], ch)
    <3>1. mem[r]["local_matrix1"] = CO!Allocated(r, "local_matrix1")
      BY <1>4, NotYet DEF ProductMem
    <3> QED BY <1>1, <3>1, ProductShapes
  <2> QED BY <1>1, <1>2, <1>3, <2>2, <2>3, PartReceived DEF IsCall
<1>7. mem'[r]["local_C"] = LocalC(r)
  <2>1. mem[r]["col_matrixB"] = ColB
    <3>1. CASE r = 0
      <4>1. Gets(r, "col_matrixB", 2, ColB) BY <1>4, <3>1 DEF ProductMem
      <4> QED BY <1>1, <4>1 DEF Gets
    <3>2. CASE r # 0
      <4>1. Gets(r, "col_matrixB", 3, ColB) BY <1>4, <3>2 DEF ProductMem
      <4> QED BY <1>1, <4>1 DEF Gets
    <3> QED BY <3>1, <3>2
  <2> QED BY <1>3, <1>5, <1>6, <2>1 DEF LocalC
<1>8. NowGets(r, "local_matrix1", 4, Local(r)) /\ NowGets(r, "local_C", 4, LocalC(r))
  BY <1>1, <1>3, <1>6, <1>7 DEF NowGets
<1>9. /\ StillKept(r, "part1") /\ StillKept(r, "part2")
      /\ r # 0 => /\ StillKept(r, "matrix1") /\ StillKept(r, "matrix2")
                  /\ StillKept(r, "result") /\ NowGets(r, "col_matrixB", 3, ColB)
      /\ r = 0 => /\ NowGets(r, "matrix1", 1, Together("part1"))
                  /\ NowGets(r, "matrix2", 2, Together("part2"))
                  /\ NowGets(r, "col_matrixB", 2, ColB)
                  /\ NowGets(r, "result", 5, Result)
  <2>1. ProductMem(r) BY <1>4
  <2> QED BY ONLY <1>3, <1>5, <2>1, stage[r] = 4
          DEF ProductMem, Kept, StillKept, Gets, NowGets
<1> QED BY ONLY <1>1, <1>8, <1>9, ProductAfterwards

LEMMA ProductFifth ==
    ASSUME CollInv, collective = "product", NEW r \in CO!Ranks, CO!Return(r), stage[r] = 5
    PROVE  ProductMem(r)'
<1> DEFINE c == CO!Calls[5]
<1>1. /\ UNCHANGED <<collective, size, dim>> /\ Moved(r, 5) /\ CollTypes
      /\ r = 0 => ~CO!Refused /\ \A q \in CO!Ranks : stage[q] >= 5
  <2>1. PICK k \in 1 .. 5 : k = 5 OBVIOUS
  <2>2. CO!Joined(r, k) /\ CO!MayReturn(r, k) BY <2>1, ProductLeaves
  <2>3. r = 0 => ~CO!Refused /\ \A q \in CO!Ranks : stage[q] >= 5
    BY <2>1, <2>2, ProductCauses
  <2> QED BY <2>1, <2>3, ProductLeaves DEF CollInv
<1>2. IsCall(c, "gather", "local_C", "result", ch, "go on")
  BY ProductProgram
<1>3. /\ stage'[r] = 6 /\ mem'[r]["result"] = CO!Received(r, c)
      /\ \A b \in CO!Arrays : b = "result" \/ mem'[r][b] = mem[r][b]
  <2>1. PICK k \in Nat : k = 5 OBVIOUS
  <2>2. Moved(r, k) /\ CO!Calls[k].to = "result" /\ CO!Calls[k].then = "go on"
    BY <1>1, <1>2, <2>1 DEF IsCall
  <2>3. /\ stage'[r] = k + 1 /\ mem'[r]["result"] = CO!Received(r, CO!Calls[k])
        /\ \A b \in CO!Arrays : b = "result" \/ mem'[r][b] = mem[r][b]
    BY ONLY <2>2 DEF Moved
  <2> QED BY ONLY <2>1, <2>3
<1>4. \A q \in CO!Ranks : ProductMem(q) BY DEF CollInv, MemOf
<1>5. /\ mem'[r]["part1"] = mem[r]["part1"] /\ mem'[r]["part2"] = mem[r]["part2"]
      /\ mem'[r]["matrix1"] = mem[r]["matrix1"] /\ mem'[r]["matrix2"] = mem[r]["matrix2"]
      /\ mem'[r]["col_matrixB"] = mem[r]["col_matrixB"]
      /\ mem'[r]["local_matrix1"] = mem[r]["local_matrix1"]
      /\ mem'[r]["local_C"] = mem[r]["local_C"]
  BY <1>3, ProductProgram
<1>6. r = 0 => NowGets(r, "result", 5, Result)
  <2> SUFFICES ASSUME r = 0 PROVE NowGets(r, "result", 5, Result) OBVIOUS
  <2>1. ~CO!Refused BY <1>1
  <2>2. CO!Gathered(c) = Result
    <3>1. ASSUME NEW q \in CO!Ranks PROVE mem[q]["local_C"] = LocalC(q)
      <4>1. Gets(q, "local_C", 4, LocalC(q)) BY <1>4 DEF ProductMem
      <4>2. stage[q] \in Int /\ stage[q] >= 5 BY <1>1 DEF CollTypes
      <4> QED BY <2>1, <4>1, <4>2 DEF Gets
    <3>2. c.from = "local_C" /\ c.count = lr * cols
      BY <1>1, <1>2, <2>1, WholeLengths DEF IsCall
    <3> QED BY <1>1, <3>1, <3>2, ProductsGathered
  <2>3. PICK len \in Nat : len = dim * dim /\ len = size * (lr * cols)
    BY <1>1, <2>1, CollSizes, WholeLengths
  <2>4. IsArray(mem[r]["result"], len)
    <3>1. mem[r]["result"] = CO!Allocated(r, "result")
      BY <1>4, NotYet DEF ProductMem
    <3> QED BY <1>1, <2>3, <3>1, ProductShapes
  <2>5. IsArray(Result, len) BY <1>1, <2>3, ContentsShape
  <2>6. mem'[r]["result"] = CO!Overwritten(mem[r]["result"], 0, Result)
    BY <1>2, <1>3, <2>2 DEF CO!Received, IsCall
  <2>7. mem'[r]["result"] = Result
    BY ONLY <2>3, <2>4, <2>5, <2>6, Replaced
  <2> QED BY <1>3, <2>1, <2>7 DEF NowGets
<1>7. r # 0 => StillKept(r, "result")
  <2> SUFFICES ASSUME r # 0 PROVE StillKept(r, "result") OBVIOUS
  <2>1. CO!Received(r, c) = mem[r]["result"] BY <1>2 DEF CO!Received, IsCall
  <2> QED BY <1>3, <1>4, <2>1 DEF ProductMem, Kept, StillKept
<1>8. /\ StillKept(r, "part1") /\ StillKept(r, "part2")
      /\ r # 0 => /\ StillKept(r, "matrix1") /\ StillKept(r, "matrix2")
                  /\ NowGets(r, "col_matrixB", 3, ColB)
      /\ r = 0 => /\ NowGets(r, "matrix1", 1, Together("part1"))
                  /\ NowGets(r, "matrix2", 2, Together("part2"))
                  /\ NowGets(r, "col_matrixB", 2, ColB)
      /\ NowGets(r, "local_matrix1", 4, Local(r)) /\ NowGets(r, "local_C", 4, LocalC(r))
  <2>1. ProductMem(r) BY <1>4
  <2> QED BY ONLY <1>3, <1>5, <2>1, stage[r] = 5
          DEF ProductMem, Kept, StillKept, Gets, NowGets
<1> QED BY ONLY <1>1, <1>6, <1>7, <1>8, ProductAfterwards

LEMMA ProductStep ==
    ASSUME CollInv, collective = "product", NEW r \in CO!Ranks, CO!Return(r)
    PROVE  CollInv'
<1>1. /\ CollTypes' /\ UNCHANGED <<collective, size, dim>>
      /\ \A q \in CO!Ranks \ {r} : mem'[q] = mem[q] /\ stage'[q] = stage[q]
      /\ stage[r] \in 1 .. 5
  BY ProductLeaves
<1>2. ProductMem(r)'
  <2>1. stage[r] = 1 \/ stage[r] = 2 \/ stage[r] = 3 \/ stage[r] = 4 \/ stage[r] = 5
    BY ONLY <1>1
  <2> QED
    BY <2>1, ProductFirst, ProductSecond, ProductThird, ProductFourth, ProductFifth
<1>3. MemOf(r)' BY <1>1, <1>2 DEF MemOf
<1>4. ASSUME NEW q \in CO!Ranks, q # r PROVE MemOf(q)'
  BY <1>1, <1>4, OthersKeep DEF CollInv
<1>5. CO!Ranks' = CO!Ranks BY <1>1, SameColl
<1> QED BY <1>1, <1>3, <1>4, <1>5 DEF CollInv

(* An error in a collective changes nothing else. *)
LEMMA CollIdle ==
    ASSUME CollInv, UNCHANGED <<collective, size, dim, coll_eager, tested, stage, mem>>,
           coll_aborted' \in BOOLEAN
    PROVE  CollInv'
<1>1. CO!Ranks' = CO!Ranks BY SameColl
<1>2. CollTypes'
  <2>1. CollTypes BY DEF CollInv
  <2>2. tested' \in BOOLEAN /\ stage' \in [CO!Ranks -> 1 .. CO!Finalize + 1]
        /\ mem' = [r \in CO!Ranks |-> [b \in CO!Arrays |-> mem'[r][b]]]
    BY ONLY <2>1, UNCHANGED <<tested, stage, mem>> DEF CollTypes
  <2> QED BY <2>1, <2>2, TypesKept
<1>3. ASSUME NEW r \in CO!Ranks PROVE MemOf(r)'
  BY OthersKeep DEF CollInv
<1> QED BY <1>1, <1>2, <1>3 DEF CollInv

LEMMA Aborts ==
    ASSUME CollInv, NEW r \in CO!Ranks, CO!Return(r), CO!Nowhere(r, CO!Calls[stage[r]])
    PROVE  CollInv'
<1>1. /\ UNCHANGED <<collective, size, dim, coll_eager, tested, stage, mem>>
      /\ coll_aborted' = TRUE
  BY DEF CO!Return, CO!Leave
<1> QED BY <1>1, CollIdle

--------------------------------------------------------------------------------
(* The vector. *)

LEMMA VectorShapes ==
    ASSUME CollTypes, collective = "vector", NEW r \in CO!Ranks
    PROVE  /\ ~CO!Refused /\ Whole = CO!Allocated(0, "matrix1")
           /\ ColB = CO!Allocated(0, "col_matrixB")
           /\ IsArray(CO!Allocated(r, "local_matrix1"), ch)
           /\ r = 0 => /\ IsArray(CO!Allocated(r, "col_matrixB"), dim)
                       /\ IsArray(CO!Allocated(r, "result"), dim)
           /\ r # 0 => CO!Allocated(r, "col_matrixB") = <<>>
<1>1. /\ CO!Length("col_matrixB") = dim /\ CO!Length("local_matrix1") = ch
      /\ CO!Length("result") = dim
  <2>1. PICK d \in Nat : d = dim BY CollSizes
  <2>2. d * 1 = d OBVIOUS
  <2>3. cols = 1 BY CollSizes
  <2> QED BY <2>1, <2>2, <2>3, Lengths
<1>2. /\ AllocatedLength(r, "local_matrix1") = ch
      /\ r = 0 => /\ AllocatedLength(r, "col_matrixB") = dim
                  /\ AllocatedLength(r, "result") = dim
      /\ r # 0 => AllocatedLength(r, "col_matrixB") = 0
  BY <1>1 DEF AllocatedLength, CO!AtRoot
<1>3. r # 0 => CO!Allocated(r, "col_matrixB") = <<>>
  <2> SUFFICES ASSUME r # 0 PROVE CO!Allocated(r, "col_matrixB") = <<>> OBVIOUS
  <2>0. PICK zero \in Nat : zero = 0 OBVIOUS
  <2>1. PICK arr : arr = CO!Allocated(r, "col_matrixB") OBVIOUS
  <2>2. IsArray(arr, zero) BY <1>2, <2>0, <2>1, AllocatedIs
  <2>3. Len(arr) = zero BY ONLY <2>0, <2>2, LengthOf
  <2>4. arr \in Seq({arr[c] : c \in 1 .. zero})
    <3> DEFINE S == {arr[c] : c \in 1 .. zero}
    <3>1. arr \in [1 .. zero -> S] BY <2>2 DEF IsArray
    <3> HIDE DEF S
    <3>2. arr \in Seq(S) BY <2>0, <3>1, SeqDef
    <3> QED BY <3>2 DEF S
  <2>5. arr = <<>> BY <2>0, <2>3, <2>4, EmptySeq
  <2> QED BY <2>1, <2>5
<1>4. ~CO!Refused BY DEF CO!Refused
<1> QED BY <1>2, <1>3, <1>4, AllocatedIs DEF Whole, ColB

LEMMA VectorLeaves ==
    ASSUME CollInv, collective = "vector", NEW r \in CO!Ranks, CO!Return(r),
           ~CO!Nowhere(r, CO!Calls[stage[r]])
    PROVE  /\ CollTypes'
           /\ UNCHANGED <<collective, size, dim, coll_eager, tested, coll_aborted>>
           /\ \A q \in CO!Ranks \ {r} : mem'[q] = mem[q] /\ stage'[q] = stage[q]
           /\ stage[r] \in 1 .. 3 /\ Moved(r, stage[r])
           /\ stage[r] = 3 /\ r = 0 => \A q \in CO!Ranks : stage[q] >= 3
<1>1. CollTypes BY DEF CollInv
<1>2. PICK k \in 1 .. 3 : k = stage[r]
  <2>1. CO!Finalize = 4 BY VectorProgram
  <2>2. stage[r] \in 1 .. CO!Finalize + 1 /\ stage[r] < CO!Finalize
    BY <1>1 DEF CollTypes, CO!Return
  <2>3. stage[r] \in 1 .. 3 BY ONLY <2>1, <2>2
  <2> QED BY ONLY <2>3
<1>3. k \in 1 .. Len(CO!Calls) /\ k # CO!Finalize
  <2>1. Len(CO!Calls) = 3 /\ CO!Finalize = 4 BY VectorProgram
  <2> QED BY ONLY <2>1, k \in 1 .. 3
<1>4. /\ CO!Calls[k].to \in CO!Arrays /\ CO!Calls[k].then # "transpose"
      /\ CO!Calls[k].then = "multiply" =>
             {"local_matrix1", "col_matrixB", "local_C"} \subseteq CO!Arrays
             /\ CO!Calls[k].to # "local_C"
      /\ k = 3 => CO!Calls[k].op = "gather"
  <2>1. k = 1 \/ k = 2 \/ k = 3 BY ONLY k \in 1 .. 3
  <2> QED BY <2>1, VectorProgram DEF IsCall
<1>5. /\ CollTypes' /\ UNCHANGED <<collective, size, dim, coll_eager, tested, coll_aborted>>
      /\ CO!Joined(r, k) /\ CO!MayReturn(r, k) /\ Moved(r, k)
      /\ \A q \in CO!Ranks \ {r} : mem'[q] = mem[q] /\ stage'[q] = stage[q]
  BY <1>1, <1>2, <1>3, <1>4, Leaves
<1>6. k = 3 /\ r = 0 => \A q \in CO!Ranks : stage[q] >= k
  BY <1>3, <1>4, <1>5, Causes
<1> QED BY <1>2, <1>5, <1>6

LEMMA VectorFirst ==
    ASSUME CollInv, collective = "vector", NEW r \in CO!Ranks, CO!Return(r),
           ~CO!Nowhere(r, CO!Calls[stage[r]]), stage[r] = 1
    PROVE  VectorMem(r)'
<1> DEFINE c == CO!Calls[1]
<1>1. /\ UNCHANGED <<collective, size, dim>> /\ Moved(r, 1) /\ CollTypes /\ ~CO!Refused
  BY VectorLeaves, VectorShapes DEF CollInv
<1>2. IsCall(c, "scatter", "matrix1", "local_matrix1", ch, "go on") BY VectorProgram
<1>3. /\ stage'[r] = 2 /\ mem'[r]["local_matrix1"] = CO!Received(r, c)
      /\ \A b \in CO!Arrays : b = "local_matrix1" \/ mem'[r][b] = mem[r][b]
  <2>1. PICK k \in Nat : k = 1 OBVIOUS
  <2>2. Moved(r, k) /\ CO!Calls[k].to = "local_matrix1" /\ CO!Calls[k].then = "go on"
    BY <1>1, <1>2, <2>1 DEF IsCall
  <2>3. /\ stage'[r] = k + 1 /\ mem'[r]["local_matrix1"] = CO!Received(r, CO!Calls[k])
        /\ \A b \in CO!Arrays : b = "local_matrix1" \/ mem'[r][b] = mem[r][b]
    BY ONLY <2>2 DEF Moved
  <2> QED BY ONLY <2>1, <2>3
<1>4. \A q \in CO!Ranks : VectorMem(q) BY DEF CollInv, MemOf
<1>5. /\ mem'[r]["matrix1"] = mem[r]["matrix1"] /\ mem'[r]["result"] = mem[r]["result"]
      /\ mem'[r]["col_matrixB"] = mem[r]["col_matrixB"]
      /\ mem'[r]["local_C"] = mem[r]["local_C"]
  BY <1>3, VectorProgram
<1>6. mem'[r]["local_matrix1"] = Local(r)
  <2>1. mem[0]["matrix1"] = Whole
    <3>1. PICK zero \in CO!Ranks : zero = 0 BY <1>1, CollSizes
    <3>2. Kept(zero, "matrix1") BY <1>4 DEF VectorMem
    <3> QED BY <1>1, <3>1, <3>2, VectorShapes DEF Kept
  <2>2. IsArray(mem[r]["local_matrix1"], ch)
    <3>1. mem[r]["local_matrix1"] = CO!Allocated(r, "local_matrix1")
      BY <1>4, NotYet DEF VectorMem
    <3> QED BY <1>1, <3>1, VectorShapes
  <2> QED BY <1>1, <1>2, <1>3, <2>1, <2>2, PartReceived DEF IsCall
<1>7. NowGets(r, "local_matrix1", 1, Local(r)) BY <1>1, <1>3, <1>6 DEF NowGets
<1>8. /\ StillKept(r, "matrix1") /\ StillKept(r, "col_matrixB")
      /\ NowGets(r, "local_C", 2, LocalC(r))
      /\ r = 0 => NowGets(r, "result", 3, Result) /\ (size > 1 => stage'[r] <= 3)
      /\ r # 0 => StillKept(r, "result") /\ stage'[r] <= 2
  <2>1. VectorMem(r) BY <1>4
  <2> QED BY ONLY <1>3, <1>5, <2>1, stage[r] = 1
          DEF VectorMem, Kept, StillKept, Gets, NowGets
<1> QED BY ONLY <1>1, <1>7, <1>8, VectorAfterwards

LEMMA VectorSecond ==
    ASSUME CollInv, collective = "vector", NEW r \in CO!Ranks, CO!Return(r),
           ~CO!Nowhere(r, CO!Calls[stage[r]]), stage[r] = 2
    PROVE  VectorMem(r)'
<1> DEFINE c == CO!Calls[2]
<1>1. /\ UNCHANGED <<collective, size, dim>> /\ Moved(r, 2) /\ CollTypes /\ ~CO!Refused
  BY VectorLeaves, VectorShapes DEF CollInv
<1>2. IsCall(c, "bcast", "col_matrixB", "col_matrixB", dim, "multiply") BY VectorProgram
<1>3. /\ stage'[r] = 3 /\ mem'[r]["col_matrixB"] = CO!Received(r, c)
      /\ mem'[r]["local_C"] = CO!Product(mem'[r]["local_matrix1"], lr,
                                         mem'[r]["col_matrixB"], cols, dim)
      /\ \A b \in CO!Arrays : b = "col_matrixB" \/ b = "local_C" \/ mem'[r][b] = mem[r][b]
  <2>1. PICK k \in Nat : k = 2 OBVIOUS
  <2>2. Moved(r, k) /\ CO!Calls[k].to = "col_matrixB" /\ CO!Calls[k].then = "multiply"
    BY <1>1, <1>2, <2>1 DEF IsCall
  <2>3. /\ stage'[r] = k + 1 /\ mem'[r]["col_matrixB"] = CO!Received(r, CO!Calls[k])
        /\ mem'[r]["local_C"] = CO!Product(mem'[r]["local_matrix1"], lr,
                                           mem'[r]["col_matrixB"], cols, dim)
        /\ \A b \in CO!Arrays : b = "col_matrixB" \/ b = "local_C" \/ mem'[r][b] = mem[r][b]
    BY ONLY <2>2 DEF Moved
  <2> QED BY ONLY <2>1, <2>3
<1>4. \A q \in CO!Ranks : VectorMem(q) BY DEF CollInv, MemOf
<1>5. /\ mem'[r]["matrix1"] = mem[r]["matrix1"] /\ mem'[r]["result"] = mem[r]["result"]
      /\ mem'[r]["local_matrix1"] = mem[r]["local_matrix1"]
  BY <1>3, VectorProgram
<1>6. mem[r]["col_matrixB"] = CO!Allocated(r, "col_matrixB")
  BY <1>4 DEF VectorMem, Kept
<1>7. r = 0
  <2> SUFFICES ASSUME r # 0 PROVE FALSE OBVIOUS
  <2>1. mem[r]["col_matrixB"] = <<>> BY <1>1, <1>6, VectorShapes
  <2>2. CO!Nowhere(r, c) BY <1>2, <2>1 DEF CO!Nowhere, IsCall
  <2> QED BY <2>2
<1>8. mem'[r]["col_matrixB"] = ColB /\ ColB = CO!Allocated(r, "col_matrixB")
  <2>1. PICK len \in Nat : len = dim BY <1>1, CollSizes
  <2>2. ColB = CO!Allocated(r, "col_matrixB") /\ IsArray(ColB, len)
    BY <1>1, <1>7, <2>1, VectorShapes
  <2>3. CO!Part(ColB, 0, len) = ColB BY ONLY <2>1, <2>2, WholePart
  <2>4. CO!Received(r, c) =
            CO!Overwritten(mem[r]["col_matrixB"], 0, CO!Part(mem[0]["col_matrixB"], 0, len))
    BY <1>2, <2>1 DEF CO!Received, IsCall
  <2>5. mem'[r]["col_matrixB"] = CO!Overwritten(ColB, 0, ColB)
    BY <1>3, <1>6, <1>7, <2>2, <2>3, <2>4
  <2>6. CO!Overwritten(ColB, 0, ColB) = ColB BY ONLY <2>1, <2>2, Replaced
  <2> QED BY <2>2, <2>5, <2>6
<1>9. NowGets(r, "local_C", 2, LocalC(r))
  <2>1. Gets(r, "local_matrix1", 1, Local(r)) BY <1>4 DEF VectorMem
  <2>2. mem[r]["local_matrix1"] = Local(r) BY <1>1, <2>1 DEF Gets
  <2>3. mem'[r]["local_C"] = LocalC(r) BY <1>3, <1>5, <1>8, <2>2 DEF LocalC
  <2> QED BY <1>1, <1>3, <2>3 DEF NowGets
<1>10. /\ StillKept(r, "matrix1") /\ StillKept(r, "col_matrixB")
       /\ NowGets(r, "local_matrix1", 1, Local(r))
       /\ NowGets(r, "result", 3, Result) /\ stage'[r] <= 3
  <2>1. VectorMem(r) BY <1>4
  <2> QED BY ONLY <1>3, <1>5, <1>7, <1>8, <2>1, stage[r] = 2
          DEF VectorMem, Kept, StillKept, Gets, NowGets
<1> QED BY ONLY <1>1, <1>7, <1>9, <1>10, VectorAfterwards

LEMMA VectorThird ==
    ASSUME CollInv, collective = "vector", NEW r \in CO!Ranks, CO!Return(r),
           ~CO!Nowhere(r, CO!Calls[stage[r]]), stage[r] = 3
    PROVE  VectorMem(r)'
<1> DEFINE c == CO!Calls[3]
<1>1. /\ UNCHANGED <<collective, size, dim>> /\ Moved(r, 3) /\ CollTypes /\ ~CO!Refused
      /\ r = 0 => \A q \in CO!Ranks : stage[q] >= 3
  BY VectorLeaves, VectorShapes DEF CollInv
<1>2. IsCall(c, "gather", "local_C", "result", lr, "go on") BY VectorProgram
<1>3. /\ stage'[r] = 4 /\ mem'[r]["result"] = CO!Received(r, c)
      /\ \A b \in CO!Arrays : b = "result" \/ mem'[r][b] = mem[r][b]
  <2>1. PICK k \in Nat : k = 3 OBVIOUS
  <2>2. Moved(r, k) /\ CO!Calls[k].to = "result" /\ CO!Calls[k].then = "go on"
    BY <1>1, <1>2, <2>1 DEF IsCall
  <2>3. /\ stage'[r] = k + 1 /\ mem'[r]["result"] = CO!Received(r, CO!Calls[k])
        /\ \A b \in CO!Arrays : b = "result" \/ mem'[r][b] = mem[r][b]
    BY ONLY <2>2 DEF Moved
  <2> QED BY ONLY <2>1, <2>3
<1>4. \A q \in CO!Ranks : VectorMem(q) BY DEF CollInv, MemOf
<1>5. /\ mem'[r]["matrix1"] = mem[r]["matrix1"]
      /\ mem'[r]["col_matrixB"] = mem[r]["col_matrixB"]
      /\ mem'[r]["local_matrix1"] = mem[r]["local_matrix1"]
      /\ mem'[r]["local_C"] = mem[r]["local_C"]
  BY <1>3, VectorProgram
<1>6. r = 0
  <2> SUFFICES ASSUME r # 0 PROVE FALSE OBVIOUS
  <2>1. stage[r] <= 2 BY <1>4 DEF VectorMem
  <2> QED BY ONLY <2>1, stage[r] = 3
<1>7. size = 1
  <2> SUFFICES ASSUME size # 1 PROVE FALSE OBVIOUS
  <2>1. PICK one \in CO!Ranks : one = 1 BY <1>1, CollSizes
  <2>2. stage[one] <= 2 BY <1>4, <2>1 DEF VectorMem
  <2>3. stage[one] >= 3 BY <1>1, <1>6
  <2>4. stage[one] \in Int BY <1>1 DEF CollTypes
  <2> QED BY ONLY <2>2, <2>3, <2>4
<1>8. mem'[r]["result"] = Result
  <2>1. PICK len \in Nat : len = dim /\ len = size * (lr * cols) /\ lr * cols = lr
    <3>1. PICK d \in Nat : d = dim BY <1>1, CollSizes
    <3>2. d * 1 = d /\ 1 * d = d OBVIOUS
    <3>3. cols = 1 /\ lr = d BY <1>1, <1>7, <3>1, CollSizes
    <3> QED BY <1>7, <3>1, <3>2, <3>3
  <2>2. CO!Gathered(c) = Result
    <3>1. ASSUME NEW q \in CO!Ranks PROVE mem[q]["local_C"] = LocalC(q)
      <4>1. Gets(q, "local_C", 2, LocalC(q)) BY <1>4 DEF VectorMem
      <4>2. stage[q] \in Int /\ stage[q] >= 3 BY <1>1, <1>6 DEF CollTypes
      <4> QED BY <1>1, <4>1, <4>2 DEF Gets
    <3>2. c.from = "local_C" /\ c.count = lr * cols BY <1>2, <2>1 DEF IsCall
    <3> QED BY <1>1, <3>1, <3>2, ProductsGathered
  <2>3. IsArray(mem[r]["result"], len)
    <3>1. mem[r]["result"] = CO!Allocated(r, "result")
      BY <1>4, <1>6, NotYet DEF VectorMem
    <3> QED BY <1>1, <1>6, <2>1, <3>1, VectorShapes
  <2>4. IsArray(Result, len) BY <1>1, <2>1, ContentsShape
  <2>5. mem'[r]["result"] = CO!Overwritten(mem[r]["result"], 0, Result)
    BY <1>2, <1>3, <1>6, <2>2 DEF CO!Received, IsCall
  <2> QED BY ONLY <2>1, <2>3, <2>4, <2>5, Replaced
<1>9. NowGets(r, "result", 3, Result) BY <1>1, <1>3, <1>8 DEF NowGets
<1>10. /\ StillKept(r, "matrix1") /\ StillKept(r, "col_matrixB")
       /\ NowGets(r, "local_matrix1", 1, Local(r)) /\ NowGets(r, "local_C", 2, LocalC(r))
  <2>1. VectorMem(r) BY <1>4
  <2> QED BY ONLY <1>3, <1>5, <2>1, stage[r] = 3
          DEF VectorMem, Kept, StillKept, Gets, NowGets
<1>11. ~(size > 1) BY <1>7
<1> QED BY ONLY <1>1, <1>6, <1>9, <1>10, <1>11, VectorAfterwards

LEMMA VectorStep ==
    ASSUME CollInv, collective = "vector", NEW r \in CO!Ranks, CO!Return(r)
    PROVE  CollInv'
<1> SUFFICES ASSUME ~CO!Nowhere(r, CO!Calls[stage[r]]) PROVE CollInv' BY Aborts
<1>1. /\ CollTypes' /\ UNCHANGED <<collective, size, dim>>
      /\ \A q \in CO!Ranks \ {r} : mem'[q] = mem[q] /\ stage'[q] = stage[q]
      /\ stage[r] \in 1 .. 3
  BY VectorLeaves
<1>2. VectorMem(r)'
  <2>1. stage[r] = 1 \/ stage[r] = 2 \/ stage[r] = 3 BY ONLY <1>1
  <2> QED BY <2>1, VectorFirst, VectorSecond, VectorThird
<1>3. MemOf(r)' BY <1>1, <1>2 DEF MemOf
<1>4. ASSUME NEW q \in CO!Ranks, q # r PROVE MemOf(q)'
  BY <1>1, <1>4, OthersKeep DEF CollInv
<1>5. CO!Ranks' = CO!Ranks BY <1>1, SameColl
<1> QED BY <1>1, <1>3, <1>4, <1>5 DEF CollInv

--------------------------------------------------------------------------------
(* The programs of one collective. *)

LEMMA OneCallShapes ==
    ASSUME CollTypes, collective \in {"scatter", "gather", "allgather"},
           NEW r \in CO!Ranks
    PROVE  /\ ~CO!Refused
           /\ collective = "scatter" => /\ Whole = CO!Allocated(0, "matrix1")
                                        /\ IsArray(CO!Allocated(r, "local_matrix1"), ch)
           /\ collective = "allgather" \/ (collective = "gather" /\ r = 0) =>
                 IsArray(CO!Allocated(r, "matrix1"), size * ch)
<1>1. CO!Length("local_matrix1") = ch /\ CO!Length("matrix1") = size * ch
  BY Lengths
<1>2. /\ AllocatedLength(r, "local_matrix1") = ch
      /\ collective = "allgather" \/ (collective = "gather" /\ r = 0) =>
            AllocatedLength(r, "matrix1") = size * ch
  BY <1>1 DEF AllocatedLength, CO!AtRoot
<1>3. ~CO!Refused BY DEF CO!Refused
<1> QED BY <1>2, <1>3, AllocatedIs DEF Whole

LEMMA OneCallLeaves ==
    ASSUME CollInv, collective \in {"scatter", "gather", "allgather"},
           NEW r \in CO!Ranks, CO!Return(r)
    PROVE  /\ CollTypes'
           /\ UNCHANGED <<collective, size, dim, coll_eager, tested, coll_aborted>>
           /\ \A q \in CO!Ranks \ {r} : mem'[q] = mem[q] /\ stage'[q] = stage[q]
           /\ stage[r] = 1 /\ stage'[r] = 2
           /\ mem'[r][CO!Calls[1].to] = CO!Received(r, CO!Calls[1])
           /\ \A b \in CO!Arrays : b = CO!Calls[1].to \/ mem'[r][b] = mem[r][b]
<1>1. CollTypes BY DEF CollInv
<1>2. PICK k \in Nat : k = stage[r] /\ k = 1
  <2>1. CO!Finalize = 2 BY OneCallPrograms
  <2>2. stage[r] \in 1 .. CO!Finalize + 1 /\ stage[r] < CO!Finalize
    BY <1>1 DEF CollTypes, CO!Return
  <2>3. stage[r] = 1 BY ONLY <2>1, <2>2
  <2> QED BY ONLY <2>3
<1>3. k \in 1 .. Len(CO!Calls)
  <2>1. Len(CO!Calls) = 1 BY OneCallPrograms
  <2> QED BY ONLY <1>2, <2>1
<1>4. /\ CO!Calls[k].to \in CO!Arrays /\ CO!Calls[k].then = "go on"
      /\ CO!Calls[k].op # "bcast"
  <2>1. CASE collective = "scatter" BY <1>2, <2>1, OneCallPrograms DEF IsCall
  <2>2. CASE collective # "scatter" BY <1>2, <2>2, OneCallPrograms DEF IsCall
  <2> QED BY <2>1, <2>2
<1>5. ~CO!Nowhere(r, CO!Calls[k]) BY <1>4 DEF CO!Nowhere
<1>6. /\ CollTypes' /\ UNCHANGED <<collective, size, dim, coll_eager, tested, coll_aborted>>
      /\ Moved(r, k)
      /\ \A q \in CO!Ranks \ {r} : mem'[q] = mem[q] /\ stage'[q] = stage[q]
  BY <1>1, <1>2, <1>3, <1>4, <1>5, Leaves
<1>7. /\ stage'[r] = k + 1 /\ mem'[r][CO!Calls[k].to] = CO!Received(r, CO!Calls[k])
      /\ \A b \in CO!Arrays : b = CO!Calls[k].to \/ mem'[r][b] = mem[r][b]
  BY ONLY <1>4, <1>6 DEF Moved
<1>8. k + 1 = 2 BY ONLY <1>2
<1> QED BY ONLY <1>2, <1>6, <1>7, <1>8

LEMMA ScatterMoves ==
    ASSUME CollInv, collective = "scatter", NEW r \in CO!Ranks, CO!Return(r)
    PROVE  ScatterMem(r)'
<1> DEFINE c == CO!Calls[1]
<1>1. /\ UNCHANGED <<collective, size, dim>> /\ CollTypes /\ ~CO!Refused
      /\ stage[r] = 1 /\ stage'[r] = 2
      /\ mem'[r][c.to] = CO!Received(r, c)
      /\ \A b \in CO!Arrays : b = c.to \/ mem'[r][b] = mem[r][b]
  BY OneCallLeaves, OneCallShapes DEF CollInv
<1>2. /\ IsCall(c, "scatter", "matrix1", "local_matrix1", ch, "go on")
      /\ CO!Arrays = {"matrix1", "local_matrix1"}
  BY OneCallPrograms
<1>3. \A q \in CO!Ranks : ScatterMem(q) BY DEF CollInv, MemOf
<1>4. mem'[r]["matrix1"] = mem[r]["matrix1"] BY <1>1, <1>2 DEF IsCall
<1>5. mem'[r]["local_matrix1"] = Local(r)
  <2>1. mem[0]["matrix1"] = Whole
    <3>1. PICK zero \in CO!Ranks : zero = 0 BY <1>1, CollSizes
    <3>2. Kept(zero, "matrix1") BY <1>3 DEF ScatterMem
    <3> QED BY <1>1, <3>1, <3>2, OneCallShapes DEF Kept
  <2>2. IsArray(mem[r]["local_matrix1"], ch)
    <3>1. mem[r]["local_matrix1"] = CO!Allocated(r, "local_matrix1")
      BY <1>1, <1>3, NotYet DEF ScatterMem
    <3> QED BY <1>1, <3>1, OneCallShapes
  <2> QED BY <1>1, <1>2, <2>1, <2>2, PartReceived DEF IsCall
<1>6. NowGets(r, "local_matrix1", 1, Local(r)) BY <1>1, <1>5 DEF NowGets
<1>7. StillKept(r, "matrix1") BY <1>3, <1>4 DEF ScatterMem, Kept, StillKept
<1> QED BY ONLY <1>1, <1>6, <1>7, OneCallAfterwards

LEMMA GatherMoves ==
    ASSUME CollInv, collective \in {"gather", "allgather"}, NEW r \in CO!Ranks, CO!Return(r)
    PROVE  GatherMem(r)'
<1> DEFINE c == CO!Calls[1]
<1>1. /\ UNCHANGED <<collective, size, dim>> /\ CollTypes /\ ~CO!Refused
      /\ stage[r] = 1 /\ stage'[r] = 2
      /\ mem'[r][c.to] = CO!Received(r, c)
      /\ \A b \in CO!Arrays : b = c.to \/ mem'[r][b] = mem[r][b]
  BY OneCallLeaves, OneCallShapes DEF CollInv
<1>2. /\ IsCall(c, collective, "part1", "matrix1", ch, "go on")
      /\ CO!Arrays = {"part1", "matrix1"}
  BY OneCallPrograms
<1>3. \A q \in CO!Ranks : GatherMem(q) BY DEF CollInv, MemOf
<1>4. StillKept(r, "part1")
  BY <1>1, <1>2, <1>3 DEF IsCall, GatherMem, Kept, StillKept
<1>5. CO!Gathered(c) = Together("part1")
  <2>1. \A q \in CO!Ranks : mem[q]["part1"] = CO!Allocated(q, "part1")
    BY <1>3 DEF GatherMem, Kept
  <2> QED BY <1>1, <1>2, <2>1, PartsGathered DEF IsCall
<1>6. CASE r = 0 \/ collective = "allgather"
  <2>1. PICK len \in Nat : len = size * ch
    <3>1. size \in Nat /\ ch \in Nat BY <1>1, CollSizes
    <3> QED BY <3>1
  <2>2. IsArray(mem[r]["matrix1"], len)
    <3>1. mem[r]["matrix1"] = CO!Allocated(r, "matrix1")
      BY <1>1, <1>3, <1>6, NotYet DEF GatherMem
    <3> QED BY <1>1, <1>6, <2>1, <3>1, OneCallShapes
  <2>3. IsArray(Together("part1"), len) BY <1>1, <2>1, ContentsShape
  <2>4. mem'[r]["matrix1"] = CO!Overwritten(mem[r]["matrix1"], 0, Together("part1"))
    BY <1>1, <1>2, <1>5, <1>6 DEF CO!Received, IsCall
  <2>5. mem'[r]["matrix1"] = Together("part1")
    BY ONLY <2>1, <2>2, <2>3, <2>4, Replaced
  <2>6. NowGets(r, "matrix1", 1, Together("part1")) BY <1>1, <2>5 DEF NowGets
  <2> QED BY ONLY <1>1, <1>4, <1>6, <2>6, OneCallAfterwards
<1>7. CASE ~(r = 0 \/ collective = "allgather")
  <2>1. CO!Received(r, c) = mem[r]["matrix1"] BY <1>2, <1>7 DEF CO!Received, IsCall
  <2>2. StillKept(r, "matrix1")
    BY <1>1, <1>2, <1>3, <1>7, <2>1 DEF IsCall, GatherMem, Kept, StillKept
  <2> QED BY ONLY <1>1, <1>4, <1>7, <2>2, OneCallAfterwards
<1> QED BY <1>6, <1>7

LEMMA OneCallStep ==
    ASSUME CollInv, collective \in {"scatter", "gather", "allgather"},
           NEW r \in CO!Ranks, CO!Return(r)
    PROVE  CollInv'
<1>1. /\ CollTypes' /\ UNCHANGED <<collective, size, dim>>
      /\ \A q \in CO!Ranks \ {r} : mem'[q] = mem[q] /\ stage'[q] = stage[q]
  BY OneCallLeaves
<1>2. MemOf(r)' BY <1>1, ScatterMoves, GatherMoves DEF MemOf
<1>3. ASSUME NEW q \in CO!Ranks, q # r PROVE MemOf(q)'
  BY <1>1, <1>3, OthersKeep DEF CollInv
<1>4. CO!Ranks' = CO!Ranks BY <1>1, SameColl
<1> QED BY <1>1, <1>2, <1>3, <1>4 DEF CollInv

--------------------------------------------------------------------------------
(* Rank 0's test and MPI_Finalize. *)

LEMMA FinalizeIs ==
    ASSUME collective \in CO!Programs PROVE CO!Finalize \in Nat /\ CO!Finalize >= 1
<1>1. CASE collective = "product"
  <2>1. CO!Finalize = 6 BY <1>1, ProductProgram
  <2> QED BY ONLY <2>1
<1>2. CASE collective = "vector"
  <2>1. CO!Finalize = 4 BY <1>2, VectorProgram
  <2> QED BY ONLY <2>1
<1>3. CASE collective \in {"scatter", "gather", "allgather"}
  <2>1. CO!Finalize = 2 BY <1>3, OneCallPrograms
  <2> QED BY ONLY <2>1
<1> QED BY <1>1, <1>2, <1>3 DEF CO!Programs

LEMMA StageOnly ==
    ASSUME CollInv, UNCHANGED <<collective, size, dim, coll_eager, mem, coll_aborted>>,
           tested' \in BOOLEAN, NEW r \in CO!Ranks, NEW new \in 1 .. CO!Finalize + 1,
           stage' = [stage EXCEPT ![r] = new],
           CO!Refused \/ (stage[r] = CO!Finalize /\ new = CO!Finalize + 1)
    PROVE  CollInv'
<1>1. CollTypes /\ MemOf(r) BY DEF CollInv
<1>2. /\ stage'[r] = new /\ \A q \in CO!Ranks \ {r} : stage'[q] = stage[q]
      /\ stage' \in [CO!Ranks -> 1 .. CO!Finalize + 1]
  BY <1>1 DEF CollTypes
<1>3. CollTypes'
  <2>1. mem' = [q \in CO!Ranks |-> [b \in CO!Arrays |-> mem'[q][b]]]
    BY <1>1, mem' = mem DEF CollTypes
  <2>2. coll_aborted' \in BOOLEAN BY <1>1 DEF CollTypes
  <2> QED BY <1>1, <1>2, <2>1, <2>2, TypesKept
<1>4. \A b : StillKept(r, b) <=> Kept(r, b) BY DEF StillKept, Kept
<1>5. CO!Finalize \in Nat BY <1>1, FinalizeIs DEF CollTypes
<1>6. ASSUME NEW b, NEW f, NEW j \in Nat, j < CO!Finalize, Gets(r, b, j, f)
      PROVE  NowGets(r, b, j, f)
  <2>1. CASE CO!Refused BY <1>6, <2>1 DEF Gets, NowGets
  <2>2. CASE stage[r] = CO!Finalize /\ new = CO!Finalize + 1
    <3>1. stage[r] > j /\ stage'[r] > j BY <1>2, <1>5, <1>6, <2>2
    <3> QED BY <1>6, <3>1 DEF Gets, NowGets
  <2> QED BY <2>1, <2>2
<1>7. CASE collective = "product"
  <2>1. CO!Finalize = 6 BY <1>7, ProductProgram
  <2>2. \A j \in 1 .. 5 : \A b, f : Gets(r, b, j, f) => NowGets(r, b, j, f)
    BY <1>6, <2>1
  <2>3. ProductMem(r) BY <1>1, <1>7 DEF MemOf
  <2>4. ProductMem(r)'
    <3>1. PICK one \in 1 .. 5, two \in 1 .. 5, three \in 1 .. 5, four \in 1 .. 5,
               five \in 1 .. 5 :
             one = 1 /\ two = 2 /\ three = 3 /\ four = 4 /\ five = 5
      OBVIOUS
    <3>2. /\ r = 0 => /\ NowGets(r, "matrix1", one, Together("part1"))
                      /\ NowGets(r, "matrix2", two, Together("part2"))
                      /\ NowGets(r, "col_matrixB", two, ColB)
                      /\ NowGets(r, "result", five, Result)
          /\ r # 0 => NowGets(r, "col_matrixB", three, ColB)
          /\ NowGets(r, "local_matrix1", four, Local(r))
          /\ NowGets(r, "local_C", four, LocalC(r))
      BY <2>2, <2>3, <3>1 DEF ProductMem
    <3> QED BY <1>4, <2>3, <3>1, <3>2, ProductAfterwards DEF ProductMem
  <2>5. MemOf(r)' BY <1>7, <2>4 DEF MemOf
  <2>6. ASSUME NEW q \in CO!Ranks, q # r PROVE MemOf(q)'
    BY <1>2, <2>6, OthersKeep DEF CollInv
  <2> QED BY <1>3, <2>5, <2>6, SameColl DEF CollInv
<1>8. CASE collective = "vector"
  <2>1. CO!Finalize = 4 /\ ~CO!Refused BY <1>8, VectorProgram DEF CO!Refused
  <2>2. \A j \in 1 .. 3 : \A b, f : Gets(r, b, j, f) => NowGets(r, b, j, f)
    BY <1>6, <2>1
  <2>3. VectorMem(r) BY <1>1, <1>8 DEF MemOf
  <2>4. stage[r] = 4 BY <2>1
  <2>5. r = 0 /\ ~(size > 1) BY <2>3, <2>4 DEF VectorMem
  <2>6. VectorMem(r)'
    <3>1. PICK one \in 1 .. 3, two \in 1 .. 3, three \in 1 .. 3 :
             one = 1 /\ two = 2 /\ three = 3
      OBVIOUS
    <3>2. /\ NowGets(r, "result", three, Result)
          /\ NowGets(r, "local_matrix1", one, Local(r))
          /\ NowGets(r, "local_C", two, LocalC(r))
      BY <2>2, <2>3, <2>5, <3>1 DEF VectorMem
    <3> QED BY <1>4, <2>3, <2>5, <3>1, <3>2, VectorAfterwards DEF VectorMem
  <2>7. MemOf(r)' BY <1>8, <2>6 DEF MemOf
  <2>8. ASSUME NEW q \in CO!Ranks, q # r PROVE MemOf(q)'
    BY <1>2, <2>8, OthersKeep DEF CollInv
  <2> QED BY <1>3, <2>7, <2>8, SameColl DEF CollInv
<1>9. CASE collective \in {"scatter", "gather", "allgather"}
  <2>1. CO!Finalize = 2 BY <1>9, OneCallPrograms
  <2>2. PICK one \in Nat : one = 1 /\ one < CO!Finalize BY <2>1
  <2>3. \A b, f : Gets(r, b, one, f) => NowGets(r, b, one, f) BY <1>6, <2>2
  <2>4. /\ collective = "scatter" => ScatterMem(r)
        /\ collective # "scatter" => GatherMem(r)
    BY <1>1, <1>9 DEF MemOf
  <2>5. MemOf(r)'
    <3>1. collective = "scatter" => ScatterMem(r)'
      BY <1>4, <2>2, <2>3, <2>4, OneCallAfterwards DEF ScatterMem
    <3>2. collective # "scatter" => GatherMem(r)'
      BY <1>4, <2>2, <2>3, <2>4, OneCallAfterwards DEF GatherMem
    <3> QED BY <1>9, <3>1, <3>2 DEF MemOf
  <2>6. ASSUME NEW q \in CO!Ranks, q # r PROVE MemOf(q)'
    BY <1>2, <2>6, OthersKeep DEF CollInv
  <2> QED BY <1>3, <2>5, <2>6, SameColl DEF CollInv
<1> QED BY <1>1, <1>7, <1>8, <1>9 DEF CollTypes, CO!Programs

LEMMA CollStep ==
    ASSUME CollInv, NEW r \in CO!Ranks, CO!RankStep(r)
    PROVE  CollInv'
<1>1. CASE r = 0 /\ CO!Test
  <2>1. CASE CO!Refused
    <3>1. CO!Finalize \in 1 .. CO!Finalize + 1
      <4>1. collective = "product" BY <2>1 DEF CO!Refused
      <4>2. CO!Finalize = 6 BY <4>1, ProductProgram
      <4> QED BY ONLY <4>2
    <3>2. stage' = [stage EXCEPT ![r] = CO!Finalize] /\ tested' = TRUE
          /\ UNCHANGED <<collective, size, dim, coll_eager, mem, coll_aborted>>
      BY <1>1, <2>1 DEF CO!Test
    <3> QED BY <2>1, <3>1, <3>2, StageOnly
  <2>2. CASE ~CO!Refused
    <3>1. UNCHANGED <<collective, size, dim, coll_eager, stage, mem, coll_aborted>>
          /\ tested' = TRUE
      BY <1>1, <2>2 DEF CO!Test
    <3>2. CollTypes'
      <4>1. CollTypes BY DEF CollInv
      <4>2. coll_aborted' \in BOOLEAN /\ stage' \in [CO!Ranks -> 1 .. CO!Finalize + 1]
            /\ mem' = [q \in CO!Ranks |-> [b \in CO!Arrays |-> mem'[q][b]]]
        BY ONLY <3>1, <4>1 DEF CollTypes
      <4> QED BY <3>1, <4>1, <4>2, TypesKept
    <3>3. ASSUME NEW q \in CO!Ranks PROVE MemOf(q)' BY <3>1, OthersKeep DEF CollInv
    <3> QED BY <3>1, <3>2, <3>3, SameColl DEF CollInv
  <2> QED BY <2>1, <2>2
<1>2. CASE CO!Return(r)
  <2>1. collective \in CO!Programs BY DEF CollInv, CollTypes
  <2> QED BY <1>2, <2>1, ProductStep, VectorStep, OneCallStep DEF CO!Programs
<1>3. CASE CO!Exit(r)
  <2>1. CollTypes BY DEF CollInv
  <2>2. /\ UNCHANGED <<collective, size, dim, coll_eager, tested, mem, coll_aborted>>
        /\ stage' = [stage EXCEPT ![r] = CO!Finalize + 1] /\ stage[r] = CO!Finalize
    BY <1>3 DEF CO!Exit
  <2>3. tested' \in BOOLEAN BY <2>1, <2>2 DEF CollTypes
  <2>4. CO!Finalize + 1 \in 1 .. CO!Finalize + 1
    <3>1. CO!Finalize \in 1 .. CO!Finalize + 1 BY <2>1, <2>2 DEF CollTypes
    <3> QED BY ONLY <3>1
  <2> QED BY <2>2, <2>3, <2>4, StageOnly
<1> QED BY <1>1, <1>2, <1>3 DEF CO!RankStep

LEMMA CollInit == ASSUME CO!Init PROVE CollInv
<1>1. /\ collective \in CO!Programs /\ size \in 1 .. MaxSize /\ dim \in CO!Dimensions
      /\ coll_eager \in BOOLEAN /\ stage = [r \in CO!Ranks |-> 1]
      /\ mem = [r \in CO!Ranks |-> [b \in CO!Arrays |-> CO!Allocated(r, b)]]
      /\ tested = (collective # "product") /\ coll_aborted = FALSE
  BY DEF CO!Init
<1>2. 1 \in 1 .. CO!Finalize + 1
  <2>1. CO!Finalize \in Nat /\ CO!Finalize >= 1 BY <1>1, FinalizeIs
  <2> QED BY ONLY <2>1
<1>3. ASSUME NEW r \in CO!Ranks
      PROVE  stage[r] = 1 /\ \A b \in CO!Arrays : mem[r][b] = CO!Allocated(r, b)
  BY <1>1
<1>4. CollTypes
  <2>1. tested \in BOOLEAN /\ coll_aborted \in BOOLEAN BY <1>1
  <2>2. stage \in [CO!Ranks -> 1 .. CO!Finalize + 1] BY <1>1, <1>2
  <2>3. mem = [r \in CO!Ranks |-> [b \in CO!Arrays |-> mem[r][b]]] BY <1>1
  <2> QED BY <1>1, <2>1, <2>2, <2>3 DEF CollTypes
<1>5. ASSUME NEW r \in CO!Ranks PROVE MemOf(r)
  <2>0. stage[r] = 1 BY <1>3
  <2>1. CASE collective = "product"
    <3>1. {"part1", "part2", "matrix1", "matrix2", "col_matrixB", "local_matrix1", "local_C", "result"}
              = CO!Arrays
      BY <2>1, ProductProgram
    <3>2. /\ mem[r]["part1"] = CO!Allocated(r, "part1")
          /\ mem[r]["part2"] = CO!Allocated(r, "part2")
          /\ mem[r]["matrix1"] = CO!Allocated(r, "matrix1")
          /\ mem[r]["matrix2"] = CO!Allocated(r, "matrix2")
          /\ mem[r]["col_matrixB"] = CO!Allocated(r, "col_matrixB")
          /\ mem[r]["local_matrix1"] = CO!Allocated(r, "local_matrix1")
          /\ mem[r]["local_C"] = CO!Allocated(r, "local_C")
          /\ mem[r]["result"] = CO!Allocated(r, "result")
      BY ONLY <1>3, <3>1
    <3>3. ProductMem(r) BY ONLY <2>0, <3>2 DEF ProductMem, Kept, Gets
    <3> QED BY <2>1, <3>3 DEF MemOf
  <2>2. CASE collective = "vector"
    <3>1. {"matrix1", "local_matrix1", "col_matrixB", "local_C", "result"}
              = CO!Arrays
      BY <2>2, VectorProgram
    <3>2. /\ mem[r]["matrix1"] = CO!Allocated(r, "matrix1")
          /\ mem[r]["local_matrix1"] = CO!Allocated(r, "local_matrix1")
          /\ mem[r]["col_matrixB"] = CO!Allocated(r, "col_matrixB")
          /\ mem[r]["local_C"] = CO!Allocated(r, "local_C")
          /\ mem[r]["result"] = CO!Allocated(r, "result")
      BY ONLY <1>3, <3>1
    <3>3. VectorMem(r) BY ONLY <2>0, <3>2 DEF VectorMem, Kept, Gets
    <3> QED BY <2>2, <3>3 DEF MemOf
  <2>3. CASE collective = "scatter"
    <3>1. {"matrix1", "local_matrix1"}
              = CO!Arrays
      BY <2>3, OneCallPrograms
    <3>2. /\ mem[r]["matrix1"] = CO!Allocated(r, "matrix1")
          /\ mem[r]["local_matrix1"] = CO!Allocated(r, "local_matrix1")
      BY ONLY <1>3, <3>1
    <3>3. ScatterMem(r) BY ONLY <2>0, <3>2 DEF ScatterMem, Kept, Gets
    <3> QED BY <2>3, <3>3 DEF MemOf
  <2>4. CASE collective \in {"gather", "allgather"}
    <3>1. {"part1", "matrix1"}
              = CO!Arrays
      BY <2>4, OneCallPrograms
    <3>2. /\ mem[r]["part1"] = CO!Allocated(r, "part1")
          /\ mem[r]["matrix1"] = CO!Allocated(r, "matrix1")
      BY ONLY <1>3, <3>1
    <3>3. GatherMem(r) BY ONLY <2>0, <3>2 DEF GatherMem, Kept, Gets
    <3> QED BY <2>4, <3>3 DEF MemOf
  <2> QED BY <1>1, <2>1, <2>2, <2>3, <2>4 DEF CO!Programs
<1> QED BY <1>4, <1>5 DEF CollInv

--------------------------------------------------------------------------------
(* What the invariant says of the arrays: their lengths. *)

LEMMA GetsLength ==
    ASSUME NEW r, NEW b, NEW k, NEW f, Gets(r, b, k, f), NEW len \in Nat,
           AllocatedLength(r, b) = len, ~CO!Refused => IsArray(f, len)
    PROVE  Len(mem[r][b]) = Len(CO!Allocated(r, b))
<1>1. IsArray(CO!Allocated(r, b), len) BY AllocatedIs
<1>2. Len(CO!Allocated(r, b)) = len BY ONLY <1>1, len \in Nat, LengthOf
<1>3. ASSUME ~CO!Refused PROVE Len(f) = len
  <2>1. IsArray(f, len) BY <1>3
  <2> QED BY ONLY <2>1, len \in Nat, LengthOf
<1> QED BY <1>2, <1>3 DEF Gets

LEMMA ProductLengths ==
    ASSUME CollInv, collective = "product", NEW r \in CO!Ranks, NEW b \in CO!Arrays
    PROVE  Len(mem[r][b]) = Len(CO!Allocated(r, b))
<1>1. CollTypes /\ ProductMem(r) BY DEF CollInv, MemOf
<1>2. b \in {"part1", "part2", "matrix1", "matrix2", "col_matrixB", "local_matrix1",
             "local_C", "result"}
  BY ProductProgram
<1>3. PICK sq \in Nat, part \in Nat, own \in Nat :
         sq = dim * dim /\ part = ch /\ own = lr * cols
  <2>1. PICK d \in Nat, l \in Nat, w \in Nat : d = dim /\ l = lr /\ w = cols
    BY <1>1, CollSizes
  <2>2. d * d \in Nat /\ l * w \in Nat OBVIOUS
  <2> QED BY <1>1, <2>1, <2>2, CollSizes
<1>4. /\ AllocatedLength(r, "col_matrixB") = sq /\ AllocatedLength(r, "local_matrix1") = part
      /\ AllocatedLength(r, "local_C") = own
      /\ r = 0 => /\ AllocatedLength(r, "matrix1") = sq
                  /\ AllocatedLength(r, "matrix2") = sq
                  /\ AllocatedLength(r, "result") = sq
  BY <1>1, <1>3, Lengths, CollSizes DEF AllocatedLength, CO!AtRoot
<1>5. /\ IsArray(ColB, sq) /\ IsArray(Local(r), part) /\ IsArray(LocalC(r), own)
      /\ ~CO!Refused => /\ IsArray(Together("part1"), sq) /\ IsArray(Together("part2"), sq)
                        /\ IsArray(Result, sq)
  BY <1>1, <1>3, ContentsShape, WholeLengths
<1>6. \A x : Kept(r, x) => Len(mem[r][x]) = Len(CO!Allocated(r, x)) BY DEF Kept
<1>7. CASE b \in {"part1", "part2"} BY <1>1, <1>6, <1>7 DEF ProductMem
<1>8. CASE b = "col_matrixB"
  <2>1. PICK k : Gets(r, b, k, ColB) BY <1>1, <1>8 DEF ProductMem
  <2> QED BY <1>3, <1>4, <1>5, <1>8, <2>1, GetsLength
<1>9. CASE b = "local_matrix1"
  <2>1. PICK k : Gets(r, b, k, Local(r)) BY <1>1, <1>9 DEF ProductMem
  <2> QED BY <1>3, <1>4, <1>5, <1>9, <2>1, GetsLength
<1>10. CASE b = "local_C"
  <2>1. PICK k : Gets(r, b, k, LocalC(r)) BY <1>1, <1>10 DEF ProductMem
  <2> QED BY <1>3, <1>4, <1>5, <1>10, <2>1, GetsLength
<1>11. CASE b \in {"matrix1", "matrix2", "result"} /\ r # 0
  BY <1>1, <1>6, <1>11 DEF ProductMem
<1>12. CASE b \in {"matrix1", "matrix2", "result"} /\ r = 0
  <2>1. PICK k, f : Gets(r, b, k, f) /\ f \in {Together("part1"), Together("part2"), Result}
    BY <1>1, <1>12 DEF ProductMem
  <2>2. AllocatedLength(r, b) = sq BY <1>4, <1>12
  <2>3. ~CO!Refused => IsArray(f, sq) BY <1>5, <2>1
  <2> QED BY <1>3, <2>1, <2>2, <2>3, GetsLength
<1> QED BY <1>2, <1>7, <1>8, <1>9, <1>10, <1>11, <1>12

LEMMA VectorLengths ==
    ASSUME CollInv, collective = "vector", NEW r \in CO!Ranks, NEW b \in CO!Arrays
    PROVE  Len(mem[r][b]) = Len(CO!Allocated(r, b))
<1>1. CollTypes /\ VectorMem(r) BY DEF CollInv, MemOf
<1>2. b \in {"matrix1", "local_matrix1", "col_matrixB", "local_C", "result"}
  BY VectorProgram
<1>3. PICK part \in Nat, own \in Nat, all \in Nat :
         part = ch /\ own = lr * cols /\ all = dim
  <2>1. PICK l \in Nat, w \in Nat : l = lr /\ w = cols BY <1>1, CollSizes
  <2>2. l * w \in Nat OBVIOUS
  <2> QED BY <1>1, <2>1, <2>2, CollSizes
<1>4. /\ AllocatedLength(r, "local_matrix1") = part /\ AllocatedLength(r, "local_C") = own
      /\ r = 0 => AllocatedLength(r, "result") = all
  <2>1. dim * cols = all
    <3>1. all * 1 = all OBVIOUS
    <3> QED BY <1>1, <1>3, <3>1, CollSizes
  <2> QED BY <1>1, <1>3, <2>1, Lengths DEF AllocatedLength, CO!AtRoot
<1>5. IsArray(Local(r), part) /\ IsArray(LocalC(r), own) BY <1>1, <1>3, ContentsShape
<1>6. \A x : Kept(r, x) => Len(mem[r][x]) = Len(CO!Allocated(r, x)) BY DEF Kept
<1>7. CASE b \in {"matrix1", "col_matrixB"} BY <1>1, <1>6, <1>7 DEF VectorMem
<1>8. CASE b = "local_matrix1"
  <2>1. PICK k : Gets(r, b, k, Local(r)) BY <1>1, <1>8 DEF VectorMem
  <2> QED BY <1>3, <1>4, <1>5, <1>8, <2>1, GetsLength
<1>9. CASE b = "local_C"
  <2>1. PICK k : Gets(r, b, k, LocalC(r)) BY <1>1, <1>9 DEF VectorMem
  <2> QED BY <1>3, <1>4, <1>5, <1>9, <2>1, GetsLength
<1>10. CASE b = "result" /\ r # 0 BY <1>1, <1>6, <1>10 DEF VectorMem
<1>11. CASE b = "result" /\ r = 0
  <2>1. CASE stage[r] > 3
    <3>1. size = 1
      <4>1. ~(size > 1)
        <5>1. stage[r] \in Int BY <1>1 DEF CollTypes
        <5> QED BY <1>1, <1>11, <2>1, <5>1 DEF VectorMem
      <4> QED BY <1>1, <4>1, CollSizes
    <3>2. size * (lr * cols) = all
      <4>1. all * 1 = all /\ 1 * all = all OBVIOUS
      <4>2. cols = 1 /\ lr = all BY <1>1, <1>3, <3>1, CollSizes
      <4> QED BY <3>1, <4>1, <4>2
    <3>3. IsArray(Result, all) BY <1>1, <3>2, ContentsShape
    <3>4. PICK k : Gets(r, b, k, Result) BY <1>1, <1>11 DEF VectorMem
    <3> QED BY <1>3, <1>4, <1>11, <3>3, <3>4, GetsLength
  <2>2. CASE ~(stage[r] > 3)
    <3>1. Gets(r, b, 3, Result) BY <1>1, <1>11 DEF VectorMem
    <3>2. mem[r][b] = CO!Allocated(r, b) BY <2>2, <3>1 DEF Gets
    <3> QED BY <3>2
  <2> QED BY <2>1, <2>2
<1> QED BY <1>2, <1>7, <1>8, <1>9, <1>10, <1>11

LEMMA OneCallLengths ==
    ASSUME CollInv, collective \in {"scatter", "gather", "allgather"},
           NEW r \in CO!Ranks, NEW b \in CO!Arrays
    PROVE  Len(mem[r][b]) = Len(CO!Allocated(r, b))
<1>1. CollTypes BY DEF CollInv
<1>2. PICK part \in Nat, all \in Nat : part = ch /\ all = size * ch
  <2>1. PICK c \in Nat, m \in Nat : c = ch /\ m = size BY <1>1, CollSizes
  <2>2. m * c \in Nat OBVIOUS
  <2> QED BY <2>1, <2>2
<1>3. CO!Length("local_matrix1") = part /\ CO!Length("matrix1") = all
  BY <1>1, <1>2, Lengths
<1>4. IsArray(Local(r), part) /\ IsArray(Together("part1"), all)
  BY <1>1, <1>2, ContentsShape
<1>5. \A x : Kept(r, x) => Len(mem[r][x]) = Len(CO!Allocated(r, x)) BY DEF Kept
<1>6. CASE collective = "scatter"
  <2>1. ScatterMem(r) /\ b \in {"matrix1", "local_matrix1"}
    BY <1>6, OneCallPrograms DEF CollInv, MemOf
  <2>2. CASE b = "matrix1" BY <1>5, <2>1, <2>2 DEF ScatterMem
  <2>3. CASE b = "local_matrix1"
    <3>1. PICK k : Gets(r, b, k, Local(r)) BY <2>1, <2>3 DEF ScatterMem
    <3>2. AllocatedLength(r, b) = part
      BY <1>3, <1>6, <2>3 DEF AllocatedLength, CO!AtRoot
    <3> QED BY <1>2, <1>4, <3>1, <3>2, GetsLength
  <2> QED BY <2>1, <2>2, <2>3
<1>7. CASE collective \in {"gather", "allgather"}
  <2>1. GatherMem(r) /\ b \in {"part1", "matrix1"}
    BY <1>7, OneCallPrograms DEF CollInv, MemOf
  <2>2. CASE b = "part1" BY <1>5, <2>1, <2>2 DEF GatherMem
  <2>3. CASE b = "matrix1" /\ ~(r = 0 \/ collective = "allgather")
    BY <1>5, <2>1, <2>3 DEF GatherMem
  <2>4. CASE b = "matrix1" /\ (r = 0 \/ collective = "allgather")
    <3>1. PICK k : Gets(r, b, k, Together("part1")) BY <2>1, <2>4 DEF GatherMem
    <3>2. AllocatedLength(r, b) = all
      BY <1>3, <1>7, <2>4 DEF AllocatedLength, CO!AtRoot
    <3> QED BY <1>2, <1>4, <3>1, <3>2, GetsLength
  <2> QED BY <2>1, <2>2, <2>3, <2>4
<1> QED BY <1>6, <1>7

LEMMA CollTypeHolds == ASSUME CollInv PROVE CO!TypeOK
<1>1. CollTypes BY DEF CollInv
<1>2. \A r \in CO!Ranks : \A b \in CO!Arrays :
         Len(mem[r][b]) = Len(CO!Allocated(r, b))
  BY <1>1, ProductLengths, VectorLengths, OneCallLengths DEF CollTypes, CO!Programs
<1> QED BY <1>1, <1>2 DEF CollTypes, CO!TypeOK

--------------------------------------------------------------------------------
(* What the invariant says of the arrays: what they hold in the end. *)

(* Element number x of array number q. *)
LEMMA InTogether ==
    ASSUME NEW n \in Nat, NEW w \in Nat, NEW q \in 0 .. n - 1, NEW x \in 1 .. w
    PROVE  /\ q * w + x \in 1 .. n * w
           /\ (q * w + x - 1) \div w = q /\ (q * w + x - 1) % w = x - 1
<1>1. PICK first \in Nat, all \in Nat :
         first = q * w /\ all = n * w /\ first + w <= all
  <2>1. q \in Nat /\ q < n OBVIOUS
  <2>2. q * w \in Nat /\ n * w \in Nat BY <2>1
  <2>3. q * w + w <= n * w BY ONLY <2>1, n \in Nat, w \in Nat, RowEnds
  <2> QED BY <2>2, <2>3
<1>2. w # 0 /\ x - 1 \in 0 .. w - 1 /\ q \in Nat OBVIOUS
<1>3. PICK c \in 0 .. w - 1 : c = x - 1 BY <1>2
<1>4. (q * w + c) \div w = q /\ (q * w + c) % w = c BY <1>2, <1>3, QuotientAndRest
<1>5. q * w + x - 1 = q * w + c
  <2>1. first + x - 1 = first + c BY <1>1, <1>3
  <2> QED BY <1>1, <2>1
<1>6. first + x \in 1 .. all BY <1>1
<1> QED BY <1>1, <1>3, <1>4, <1>5, <1>6

LEMMA PartsTogether ==
    ASSUME CollTypes, NEW b \in {"part1", "part2"}, NEW q \in CO!Ranks
    PROVE  CO!Part(Together(b), q, ch) = CO!Allocated(q, b)
<1>1. PICK w \in Nat, n \in Nat : w = ch /\ n = size /\ q \in 0 .. n - 1 BY CollSizes
<1>2. PICK first \in Nat : first = q * w
  <2>1. q \in Nat BY <1>1
  <2>2. q * w \in Nat BY <2>1
  <2> QED BY <2>2
<1>3. /\ IsArray(CO!Part(Together(b), q, w), w)
      /\ \A x \in 1 .. w : CO!Part(Together(b), q, w)[x] = Together(b)[first + x]
  <2>1. q \in Nat /\ w \in Nat /\ first = q * w BY <1>1, <1>2
  <2>2. PICK arr : arr = Together(b) OBVIOUS
  <2>3. /\ IsArray(CO!Part(arr, q, w), w)
        /\ \A x \in 1 .. w : CO!Part(arr, q, w)[x] = arr[first + x]
    BY ONLY <1>2, <2>1, PartElements
  <2> QED BY ONLY <2>2, <2>3
<1>4. CO!Allocated(q, b) = [x \in 1 .. w |-> CO!Element(b, q, x)]
  <2>1. b \notin CO!AtRoot /\ b \in CO!FilledFirst BY DEF CO!AtRoot, CO!FilledFirst
  <2>2. AllocatedLength(q, b) = w BY <1>1, <2>1, Lengths DEF AllocatedLength
  <2> QED BY <2>1, <2>2, AllocatedIs
<1>5. ASSUME NEW x \in 1 .. w PROVE Together(b)[first + x] = CO!Element(b, q, x)
  <2>1. /\ first + x \in 1 .. n * w
        /\ (first + x - 1) \div w = q /\ (first + x - 1) % w = x - 1
    BY ONLY <1>1, <1>2, x \in 1 .. w, w \in Nat, n \in Nat, InTogether
  <2>2. PICK k : k = first + x /\ k \in 1 .. n * w BY <2>1
  <2>3. Together(b)[k] = CO!Element(b, (k - 1) \div w, ((k - 1) % w) + 1)
    BY <1>1, <2>2 DEF Together
  <2>4. x - 1 + 1 = x OBVIOUS
  <2> QED BY <2>1, <2>2, <2>3, <2>4
<1>6. \A x \in 1 .. w : CO!Part(Together(b), q, w)[x] = CO!Element(b, q, x)
  BY <1>3, <1>5
<1>7. CO!Part(Together(b), q, w) = [x \in 1 .. w |-> CO!Part(Together(b), q, w)[x]]
  BY <1>3 DEF IsArray
<1>8. CO!Part(Together(b), q, w) = CO!Allocated(q, b) BY ONLY <1>4, <1>6, <1>7
<1> QED BY <1>1, <1>8

(* Row i of the product is row i - q * height of rank q's rows. *)
LEMMA ResultAt ==
    ASSUME CollTypes, NEW q \in CO!Ranks, NEW x \in 1 .. lr * cols
    PROVE  Result[q * (lr * cols) + x] = LocalC(q)[x]
<1>1. PICK w \in Nat, n \in Nat : w = lr * cols /\ n = size /\ q \in 0 .. n - 1
  <2>1. PICK l \in Nat, c \in Nat : l = lr /\ c = cols BY CollSizes
  <2>2. l * c \in Nat OBVIOUS
  <2> QED BY <2>1, <2>2, CollSizes
<1>2. /\ q * w + x \in 1 .. n * w
      /\ (q * w + x - 1) \div w = q /\ (q * w + x - 1) % w = x - 1
  <2>1. x \in 1 .. w /\ q \in 0 .. n - 1 BY <1>1
  <2> QED BY ONLY <2>1, w \in Nat, n \in Nat, InTogether
<1>3. PICK k : /\ k = q * w + x /\ k \in 1 .. n * w
               /\ (k - 1) \div w = q /\ (k - 1) % w = x - 1
  <2>1. PICK first \in Nat : first = q * w
    <3>1. q \in Nat BY <1>1
    <3>2. q * w \in Nat BY <3>1
    <3> QED BY <3>2
  <2>2. PICK k \in Nat : k = first + x BY <1>1, <2>1
  <2> QED BY <1>2, <2>1, <2>2
<1>4. Result[k] = LocalC((k - 1) \div w)[((k - 1) % w) + 1] BY <1>1, <1>3 DEF Result
<1>5. (k - 1) \div w = q /\ ((k - 1) % w) + 1 = x
  <2>1. x - 1 + 1 = x BY <1>1
  <2> QED BY ONLY <1>3, <2>1
<1>6. Result[k] = LocalC(q)[x] BY ONLY <1>4, <1>5
<1> QED BY ONLY <1>1, <1>3, <1>6

(* A product of the rows of one rank with a column. *)
LEMMA LocalCAt ==
    ASSUME CollTypes, NEW q \in CO!Ranks, NEW u \in 0 .. lr - 1, NEW j \in 0 .. cols - 1
    PROVE  /\ u * cols + j + 1 \in 1 .. lr * cols
           /\ LocalC(q)[u * cols + j + 1] =
                 << CO!Part(Local(q), u, dim), CO!Part(ColB, j, dim) >>
<1>1. PICK h \in Nat, w \in Nat : h = lr /\ w = cols BY CollSizes
<1>2. PICK x \in 1 .. w : x = j + 1 BY <1>1
<1>3. /\ u * w + x \in 1 .. h * w
      /\ (u * w + x - 1) \div w = u /\ (u * w + x - 1) % w = x - 1
  <2>1. u \in 0 .. h - 1 /\ x \in 1 .. w BY <1>1
  <2> QED BY ONLY <2>1, h \in Nat, w \in Nat, InTogether
<1>4. PICK k : k = u * w + x /\ k \in 1 .. h * w BY <1>3
<1>5. LocalC(q)[k] = CO!DotProduct(Local(q), (k - 1) \div w, ColB, (k - 1) % w, dim)
  BY <1>1, <1>4 DEF LocalC, CO!Product
<1>6. LocalC(q)[k] = CO!DotProduct(Local(q), u, ColB, j, dim)
  BY <1>1, <1>2, <1>3, <1>4, <1>5
<1>7. u * w + j + 1 = k
  <2>1. PICK first \in Nat : first = u * w
    <3>1. u \in Nat BY <1>1
    <3>2. u * w \in Nat BY <3>1
    <3> QED BY <3>2
  <2>2. first + j + 1 = first + x BY <1>1, <1>2, <2>1
  <2> QED BY <1>4, <2>1, <2>2
<1> QED BY <1>1, <1>4, <1>6, <1>7 DEF CO!DotProduct

(* Where part nr of w elements begins. *)
Begins(first, nr, w) == first \in Nat /\ nr \in Nat /\ w \in Nat /\ first = nr * w

LEMMA PartFrom ==
    ASSUME NEW arr, NEW nr, NEW w, NEW first, Begins(first, nr, w)
    PROVE  /\ IsArray(CO!Part(arr, nr, w), w)
           /\ \A c \in 1 .. w : CO!Part(arr, nr, w)[c] = arr[first + c]
<1>1. first \in Nat /\ nr \in Nat /\ w \in Nat /\ first = nr * w BY DEF Begins
<1> QED BY ONLY <1>1, PartElements

(* A row of a part of a matrix. *)
RowWithin(row, d, w) == row + d <= w

LEMMA PartOfPart ==
    ASSUME NEW arr, NEW w, NEW d, NEW q, NEW s, NEW mine, NEW row,
           Begins(mine, q, w), Begins(row, s, d), RowWithin(row, d, w)
    PROVE  CO!Part(CO!Part(arr, q, w), s, d) = [k \in 1 .. d |-> arr[mine + row + k]]
<1>1. \A x \in 1 .. w : CO!Part(arr, q, w)[x] = arr[mine + x] BY PartFrom
<1>2. PICK part : part = CO!Part(arr, q, w) OBVIOUS
<1>3. /\ IsArray(CO!Part(part, s, d), d)
      /\ \A k \in 1 .. d : CO!Part(part, s, d)[k] = part[row + k]
  BY PartFrom
<1>4. ASSUME NEW k \in 1 .. d PROVE CO!Part(part, s, d)[k] = arr[mine + row + k]
  <2>1. PICK x \in 1 .. w : x = row + k BY DEF Begins, RowWithin
  <2>2. part[x] = arr[mine + x] BY <1>1, <1>2
  <2>3. mine + x = mine + row + k BY <2>1 DEF Begins
  <2> QED BY <1>3, <2>1, <2>2, <2>3
<1>5. CO!Part(part, s, d) = [k \in 1 .. d |-> CO!Part(part, s, d)[k]] BY <1>3 DEF IsArray
<1> QED BY ONLY <1>2, <1>4, <1>5

(* A row of the product's first matrix, which the rank that has it multiplies. *)
LEMMA RowOf ==
    ASSUME CollTypes, collective = "product", ~CO!Refused, NEW u \in 0 .. dim - 1
    PROVE  \E q \in CO!Ranks, s \in 0 .. lr - 1 :
              /\ u * dim = q * ch + s * dim
              /\ CO!Part(Local(q), s, dim) = [k \in 1 .. dim |-> Whole[u * dim + k]]
<1>1. PICK n \in Nat \ {0}, d \in Nat \ {0}, h \in Nat :
         n = size /\ d = dim /\ h = lr /\ n * h = d /\ CO!Ranks = 0 .. n - 1
  BY CollSizes
<1>2. PICK z : z = u + 1 /\ z \in 1 .. n * h BY <1>1
<1>3. h # 0 /\ (z - 1) \div h \in 0 .. n - 1
  BY ONLY <1>2, n \in Nat \ {0}, h \in Nat, InRow
<1>4. PICK q \in 0 .. n - 1, s \in 0 .. h - 1 : u = q * h + s
  <2>1. u \in Nat /\ u = z - 1 BY <1>1, <1>2
  <2>2. PICK x \in Nat, c \in 0 .. h - 1 : x = u \div h /\ c = u % h /\ u = x * h + c
    BY <1>3, <2>1, Divided
  <2>3. x \in 0 .. n - 1 BY <1>3, <2>1, <2>2
  <2> QED BY <2>2, <2>3
<1>5. PICK w \in Nat : w = ch /\ w = h * d
  <2>1. ch = lr * dim BY CollSizes
  <2>2. h * d \in Nat BY <1>1
  <2> QED BY <1>1, <2>1, <2>2
<1>6. PICK mine \in Nat, row \in Nat :
         mine = q * w /\ row = s * d /\ u * d = mine + row /\ row + d <= w
  <2>1. q \in Nat /\ s \in Nat /\ u \in Nat /\ s < h BY <1>1, <1>4
  <2>2. q * w \in Nat /\ s * d \in Nat BY <1>1, <1>5, <2>1
  <2>3. u * d = q * w + s * d
    <3>1. (q * h + s) * d = q * (h * d) + s * d BY ONLY <2>1, h \in Nat, d \in Nat \ {0}
    <3> QED BY <1>4, <1>5, <3>1
  <2>4. s * d + d <= h * d BY ONLY <2>1, h \in Nat, d \in Nat \ {0}, RowEnds
  <2>5. s * d + d <= w BY <1>5, <2>4
  <2> QED BY ONLY <2>2, <2>3, <2>5
<1>7. CO!Part(CO!Part(Whole, q, w), s, d) = [k \in 1 .. d |-> Whole[mine + row + k]]
  <2>1. Begins(mine, q, w) /\ Begins(row, s, d) BY <1>1, <1>4, <1>6 DEF Begins
  <2>2. RowWithin(row, d, w) BY <1>6 DEF RowWithin
  <2>3. PICK arr : arr = Whole OBVIOUS
  <2>4. CO!Part(CO!Part(arr, q, w), s, d) = [k \in 1 .. d |-> arr[mine + row + k]]
    BY ONLY <2>1, <2>2, PartOfPart
  <2> QED BY ONLY <2>3, <2>4
<1>8. Local(q) = CO!Part(Whole, q, w) BY <1>5 DEF Local
<1>9. CO!Part(Local(q), s, dim) = [k \in 1 .. dim |-> Whole[u * dim + k]]
  BY ONLY <1>1, <1>6, <1>7, <1>8
<1>10. u * dim = q * ch + s * dim BY ONLY <1>1, <1>5, <1>6
<1>11. q \in CO!Ranks /\ s \in 0 .. lr - 1 BY <1>1, <1>4
<1> QED BY <1>9, <1>10, <1>11

LEMMA ProductHolds ==
    ASSUME CollInv, collective = "product", 0 \in CO!Ranks, CO!Served(0)
    PROVE  CO!MatrixProduct
<1>1. CollTypes /\ ~CO!Refused BY DEF CollInv, CO!Served
<1>2. \A q \in CO!Ranks : ProductMem(q) BY DEF CollInv, MemOf
<1>3. /\ mem[0]["matrix1"] = Together("part1") /\ mem[0]["matrix2"] = Together("part2")
      /\ mem[0]["result"] = Result
  <2>1. CO!Finalize = 6 BY ProductProgram
  <2>2. stage[0] \in Int /\ stage[0] >= 6 BY <1>1, <2>1 DEF CO!Served, CollTypes
  <2>3. stage[0] > 1 /\ stage[0] > 2 /\ stage[0] > 5 BY ONLY <2>2
  <2>4. PICK zero \in CO!Ranks : zero = 0 OBVIOUS
  <2>5. /\ Gets(zero, "matrix1", 1, Together("part1"))
        /\ Gets(zero, "matrix2", 2, Together("part2")) /\ Gets(zero, "result", 5, Result)
    BY <1>2, <2>4 DEF ProductMem
  <2> QED BY ONLY <1>1, <2>3, <2>4, <2>5 DEF Gets
<1>4. ASSUME NEW q \in CO!Ranks
      PROVE  /\ CO!Part(mem[0]["matrix1"], q, ch) = mem[q]["part1"]
             /\ CO!Part(mem[0]["matrix2"], q, ch) = mem[q]["part2"]
  <2>1. /\ mem[q]["part1"] = CO!Allocated(q, "part1")
        /\ mem[q]["part2"] = CO!Allocated(q, "part2")
    BY <1>2 DEF ProductMem, Kept
  <2> QED BY <1>1, <1>3, <2>1, PartsTogether
<1>5. ASSUME NEW u \in 0 .. dim - 1, NEW j \in 0 .. dim - 1
      PROVE  mem[0]["result"][u * dim + j + 1]
                 = CO!RowByColumn(mem[0]["matrix1"], mem[0]["matrix2"], u, j, dim)
  <2>1. /\ dim \in Nat \ {0} /\ size \in Nat \ {0} /\ lr \in Nat /\ cols = dim
        /\ ch = lr * dim /\ lr * cols = ch
    BY <1>1, CollSizes, WholeLengths
  <2>2. PICK q \in CO!Ranks, s \in 0 .. lr - 1 :
           /\ u * dim = q * ch + s * dim
           /\ CO!Part(Local(q), s, dim) = [k \in 1 .. dim |-> Whole[u * dim + k]]
    BY <1>1, RowOf
  <2>3. /\ s * cols + j + 1 \in 1 .. lr * cols
        /\ LocalC(q)[s * cols + j + 1] = << CO!Part(Local(q), s, dim), CO!Part(ColB, j, dim) >>
    <3>1. j \in 0 .. cols - 1 BY <2>1
    <3> QED BY <1>1, <3>1, LocalCAt
  <2>4. PICK x \in 1 .. lr * cols : x = s * cols + j + 1 BY <2>3
  <2>5. Result[q * (lr * cols) + x] = LocalC(q)[x] BY <1>1, ResultAt
  <2>6. q * (lr * cols) + x = u * dim + j + 1
    <3>1. PICK mine \in Nat, row \in Nat : mine = q * ch /\ row = s * dim
      <4>1. q \in Nat /\ s \in Nat /\ ch \in Nat BY <1>1, <2>1, CollSizes
      <4>2. q * ch \in Nat /\ s * dim \in Nat BY <2>1, <4>1
      <4> QED BY <4>2
    <3>2. x = row + j + 1 BY <2>1, <2>4, <3>1
    <3>3. mine + x = mine + row + j + 1 BY <2>1, <3>1, <3>2
    <3> QED BY <2>1, <2>2, <3>1, <3>3
  <2>7. CO!Part(ColB, j, dim) = [k \in 1 .. dim |-> Together("part2")[(k - 1) * dim + j + 1]]
    <3>1. IsArray(Together("part2"), dim * dim)
      <4>1. IsArray(Together("part2"), size * ch) BY <1>1, ContentsShape
      <4>2. size * ch = dim * dim BY <1>1, WholeLengths
      <4> QED BY ONLY <4>1, <4>2
    <3>2. PICK m : m = Together("part2") OBVIOUS
    <3>3. CO!Part(CO!Transposed(m, dim), j, dim) =
             [k \in 1 .. dim |-> m[(k - 1) * dim + j + 1]]
      <4>1. IsArray(m, dim * dim) BY ONLY <3>1, <3>2
      <4>2. dim \in Nat \ {0} /\ j \in 0 .. dim - 1 BY <2>1
      <4> QED BY ONLY <4>1, <4>2, TransposedRow
    <3>4. ColB = CO!Transposed(Together("part2"), dim) BY DEF ColB
    <3> QED BY ONLY <3>2, <3>3, <3>4
  <2>8. Whole = Together("part1") BY DEF Whole
  <2>9. Result[u * dim + j + 1] =
           << [k \in 1 .. dim |-> Together("part1")[u * dim + k]],
              [k \in 1 .. dim |-> Together("part2")[(k - 1) * dim + j + 1]] >>
    BY ONLY <2>2, <2>3, <2>4, <2>5, <2>6, <2>7, <2>8
  <2> QED BY ONLY <1>3, <2>9 DEF CO!RowByColumn
<1> QED BY ONLY <1>4, <1>5 DEF CO!MatrixProduct, ch

LEMMA VectorHolds ==
    ASSUME CollInv, collective = "vector", 0 \in CO!Ranks, CO!Served(0)
    PROVE  CO!VectorProduct
<1>1. CollTypes /\ ~CO!Refused BY DEF CollInv, CO!Served
<1>2. PICK zero \in CO!Ranks : zero = 0 OBVIOUS
<1>3. VectorMem(zero) BY <1>1, <1>2 DEF CollInv, MemOf
<1>4. stage[zero] \in Int /\ stage[zero] >= 4
  <2>1. CO!Finalize = 4 BY VectorProgram
  <2>2. stage[zero] \in Int BY <1>1, <2>1 DEF CollTypes
  <2> QED BY <1>2, <2>1, <2>2 DEF CO!Served
<1>5. size = 1
  <2>1. ~(stage[zero] <= 3) /\ stage[zero] > 3 BY ONLY <1>4
  <2>2. size \in Nat \ {0} BY <1>1, CollSizes
  <2> QED BY <1>2, <1>3, <2>1, <2>2 DEF VectorMem
<1>6. PICK d \in Nat \ {0} : d = dim /\ lr = d /\ cols = 1 /\ ch = d * d
  BY <1>1, <1>5, CollSizes
<1>7. /\ mem[zero]["matrix1"] = Whole /\ mem[zero]["col_matrixB"] = ColB
      /\ mem[zero]["result"] = Result
  <2>1. Whole = CO!Allocated(zero, "matrix1") /\ ColB = CO!Allocated(zero, "col_matrixB")
    BY <1>1, <1>2, VectorShapes
  <2>2. /\ Kept(zero, "matrix1") /\ Kept(zero, "col_matrixB")
        /\ Gets(zero, "result", 3, Result)
    BY <1>2, <1>3 DEF VectorMem
  <2>3. stage[zero] > 3 BY ONLY <1>4
  <2> QED BY ONLY <1>1, <2>1, <2>2, <2>3 DEF Kept, Gets
<1>8. IsArray(Whole, ch) /\ IsArray(ColB, d)
  <2>1. Whole = CO!Allocated(0, "matrix1") BY <1>1, <1>2, VectorShapes
  <2>2. AllocatedLength(0, "matrix1") = ch BY <1>1, <1>6, Lengths DEF AllocatedLength
  <2>3. IsArray(Whole, ch) BY <2>1, <2>2, AllocatedIs
  <2>4. /\ ColB = CO!Allocated(zero, "col_matrixB")
        /\ IsArray(CO!Allocated(zero, "col_matrixB"), dim)
    BY <1>1, <1>2, VectorShapes
  <2> QED BY <1>6, <2>3, <2>4
<1>9. Local(zero) = Whole /\ CO!Part(ColB, zero, d) = ColB
  <2>1. PICK len \in Nat : len = ch BY <1>1, CollSizes
  <2>2. IsArray(Whole, len) BY <1>8, <2>1
  <2>3. CO!Part(Whole, 0, len) = Whole BY ONLY <2>2, len \in Nat, WholePart
  <2>4. CO!Part(ColB, 0, d) = ColB BY ONLY <1>8, d \in Nat \ {0}, WholePart
  <2> QED BY <1>2, <2>1, <2>3, <2>4 DEF Local
<1>10. ASSUME NEW row \in 0 .. d - 1
       PROVE  mem[zero]["result"][row + 1] =
                  << CO!Part(mem[zero]["matrix1"], row, d), mem[zero]["col_matrixB"] >>
  <2>1. /\ row * cols + zero + 1 \in 1 .. lr * cols
        /\ LocalC(zero)[row * cols + zero + 1] =
              << CO!Part(Local(zero), row, dim), CO!Part(ColB, zero, dim) >>
    <3>1. row \in 0 .. lr - 1 /\ zero \in 0 .. cols - 1 BY <1>2, <1>6
    <3> QED BY <1>1, <3>1, LocalCAt
  <2>2. row * cols + zero + 1 = row + 1 /\ lr * cols = d BY <1>2, <1>6
  <2>3. PICK x \in 1 .. d : x = row + 1 OBVIOUS
  <2>4. LocalC(zero)[x] = << CO!Part(Whole, row, d), ColB >>
    BY <1>6, <1>9, <2>1, <2>2, <2>3
  <2>5. Result[zero * (lr * cols) + x] = LocalC(zero)[x]
    <3>1. x \in 1 .. lr * cols BY <2>2
    <3> QED BY <1>1, <3>1, ResultAt
  <2>6. zero * (lr * cols) + x = x BY <1>2, <2>2
  <2> QED BY <1>7, <2>3, <2>4, <2>5, <2>6
<1> QED BY <1>2, <1>6, <1>10 DEF CO!VectorProduct

LEMMA ScatterHolds ==
    ASSUME CollInv, collective = "scatter", NEW r \in CO!Ranks, CO!Served(r)
    PROVE  CO!OwnPart(r)
<1>1. CollTypes /\ ~CO!Refused BY DEF CollInv, CO!Served
<1>2. PICK zero \in CO!Ranks : zero = 0 BY <1>1, CollSizes
<1>3. ScatterMem(zero) /\ ScatterMem(r) BY <1>1 DEF CollInv, MemOf
<1>4. stage[r] > 1
  <2>1. CO!Finalize = 2 BY OneCallPrograms
  <2>2. stage[r] \in Int BY <1>1, <2>1 DEF CollTypes
  <2> QED BY <2>1, <2>2 DEF CO!Served
<1>5. mem[r]["local_matrix1"] = Local(r) BY ONLY <1>1, <1>3, <1>4 DEF ScatterMem, Gets
<1>6. mem[0]["matrix1"] = Whole BY <1>2, <1>3 DEF ScatterMem, Kept, Whole
<1> QED BY <1>5, <1>6 DEF Local, CO!OwnPart, ch

LEMMA GatherHolds ==
    ASSUME CollInv, collective \in {"gather", "allgather"}, NEW r \in CO!Ranks,
           CO!Served(r), r = 0 \/ collective = "allgather"
    PROVE  CO!AllParts(r)
<1>1. CollTypes /\ ~CO!Refused BY DEF CollInv, CO!Served
<1>2. \A q \in CO!Ranks : GatherMem(q) BY <1>1 DEF CollInv, MemOf
<1>3. stage[r] > 1
  <2>1. CO!Finalize = 2 BY OneCallPrograms
  <2>2. stage[r] \in Int BY <1>1, <2>1 DEF CollTypes
  <2> QED BY <2>1, <2>2 DEF CO!Served
<1>4. mem[r]["matrix1"] = Together("part1") BY <1>1, <1>2, <1>3 DEF GatherMem, Gets
<1>5. ASSUME NEW q \in CO!Ranks
      PROVE  CO!Part(mem[r]["matrix1"], q, ch) = mem[q]["part1"]
  <2>1. mem[q]["part1"] = CO!Allocated(q, "part1") BY <1>2 DEF GatherMem, Kept
  <2> QED BY <1>1, <1>4, <2>1, PartsTogether
<1> QED BY ONLY <1>5 DEF CO!AllParts, ch

LEMMA CollHolds == ASSUME CollInv PROVE CO!ProductExact
<1> SUFFICES ASSUME NEW r \in CO!Ranks, CO!Served(r)
             PROVE  CASE collective = "product" -> r = 0 => CO!MatrixProduct
                      [] collective = "vector" -> r = 0 => CO!VectorProduct
                      [] collective = "scatter" -> CO!OwnPart(r)
                      [] collective = "gather" -> r = 0 => CO!AllParts(r)
                      [] collective = "allgather" -> CO!AllParts(r)
  BY DEF CO!ProductExact
<1>1. collective \in {"product", "vector", "scatter", "gather", "allgather"}
  BY DEF CollInv, CollTypes, CO!Programs
<1>2. CASE collective = "product" BY <1>2, ProductHolds
<1>3. CASE collective = "vector" BY <1>3, VectorHolds
<1>4. CASE collective = "scatter" BY <1>4, ScatterHolds
<1>5. CASE collective = "gather"
  <2>1. r = 0 => CO!AllParts(r) BY <1>5, GatherHolds
  <2> QED BY <1>5, <2>1
<1>6. CASE collective = "allgather"
  <2>1. CO!AllParts(r) BY <1>6, GatherHolds
  <2> QED BY <1>6, <2>1
<1> QED BY <1>1, <1>2, <1>3, <1>4, <1>5, <1>6

--------------------------------------------------------------------------------
(* The three together. *)

IInv == PP!TypeOK /\ RedInv /\ CollInv

LEMMA MessagesInit == ASSUME Init PROVE IInv
BY PingInit, RedInit, CollInit DEF Init, IInv

LEMMA MessagesStep == ASSUME IInv, NEW r \in AllRanks, Step(r) PROVE IInv'
<1>1. PP!TypeOK /\ RedInv /\ CollInv BY DEF IInv
<1>2. coll_aborted \in BOOLEAN BY <1>1 DEF CollInv, CollTypes
<1>3. CASE PingPongStep(r)
  <2>1. PP!TypeOK' BY <1>1, <1>3, PingStep DEF PingPongStep
  <2>2. UNCHANGED redVars /\ UNCHANGED collVars BY <1>3 DEF PingPongStep
  <2>3. RedInv' BY <1>1, <2>2, RedIdle
  <2>4. CollInv' BY <1>1, <1>2, <2>2, CollIdle DEF collVars
  <2> QED BY <2>1, <2>3, <2>4 DEF IInv
<1>4. CASE RedistributeStep(r)
  <2>1. RedInv' BY <1>1, <1>4, RedStep DEF RedistributeStep
  <2>2. UNCHANGED pingVars /\ UNCHANGED collVars BY <1>4 DEF RedistributeStep
  <2>3. PP!TypeOK' BY <1>1, <2>2, PingIdle
  <2>4. CollInv' BY <1>1, <1>2, <2>2, CollIdle DEF collVars
  <2> QED BY <2>1, <2>3, <2>4 DEF IInv
<1>5. CASE CollectiveStep(r)
  <2>1. CollInv' BY <1>1, <1>5, CollStep DEF CollectiveStep
  <2>2. UNCHANGED pingVars /\ UNCHANGED redVars BY <1>5 DEF CollectiveStep
  <2>3. PP!TypeOK' BY <1>1, <2>2, PingIdle
  <2>4. RedInv' BY <1>1, <2>2, RedIdle
  <2> QED BY <2>1, <2>3, <2>4 DEF IInv
<1> QED BY <1>3, <1>4, <1>5 DEF Step

LEMMA MessagesIdle == ASSUME IInv, UNCHANGED vars PROVE IInv'
<1>1. PP!TypeOK /\ RedInv /\ CollInv BY DEF IInv
<1>2. UNCHANGED pingVars /\ UNCHANGED redVars /\ UNCHANGED collVars BY DEF vars
<1>3. coll_aborted' \in BOOLEAN BY <1>1, <1>2 DEF CollInv, CollTypes, collVars
<1> QED BY <1>1, <1>2, <1>3, PingIdle, RedIdle, CollIdle DEF IInv, collVars

(* In every reachable state each program is what its invariant says, with which  *)
(* the two theorems below are shown.                                             *)
THEOREM MessagesInvariant == Spec => []IInv
<1>1. Init => IInv BY MessagesInit
<1>2. IInv /\ [Next]_vars => IInv' BY MessagesStep, MessagesIdle DEF Next
<1> QED BY <1>1, <1>2, PTL DEF Spec

(* For any number of elements and any number of processes that divides them and  *)
(* makes no partner negative: a redistribution that gets to cyclic blocks has    *)
(* lost no element, and has them in cyclic order exactly if the block size and 1 *)
(* leave the same rest; one that ends has the blocks it began with               *)
(* (programming_q_9.c:33-100).  With two processes it does not end unless there  *)
(* are few elements.  On the way, as in the other MPI programs, every message    *)
(* goes from a rank to a rank and every index is in its array.                   *)
THEOREM RedistributionExact == Spec => []RoundTrip
<1>1. IInv => RoundTrip
  BY RedHolds, CollTypeHolds DEF IInv, RoundTrip, TypeOK
<1> QED BY <1>1, MessagesInvariant, PTL

(* However many processes there are and whichever of them runs ahead: the matrix *)
(* that rank 0 prints is the product of the two gathered from the ranks          *)
(* (mpi.c:44-92), mpi-1's vector is that of its matrix, if it gets that far, and *)
(* each rank of MPI_Scatter.c, MPI_Gather.c and MPI_AllGather.c has the elements *)
(* of every rank's part at that rank's place.                                    *)
THEOREM CollectivesExact == Spec => []ProductExact
<1>1. IInv => ProductExact BY CollHolds DEF IInv, ProductExact
<1> QED BY <1>1, MessagesInvariant, PTL
================================================================================
