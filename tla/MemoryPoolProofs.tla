-------------------------- MODULE MemoryPoolProofs --------------------------
(***************************************************************************)
(* Safety of the memory pool for any members, number of records, requests  *)
(* and lease ids.  Records are compared as intervals (Apart, At): a step    *)
(* replaces some records by others over the same bytes (ReplaceTiles), so   *)
(* the tiling survives splits and merges alike.                             *)
(***************************************************************************)
EXTENDS MemoryPool, FiniteSetTheorems, WellFoundedInduction, TLAPS

\* Every leaf is tried with the SMT solver, then with Zenon, then with Z3 for longer.
USE SMTT(20), ZenonT(20), Z3T(40)

\* Two records share neither slot nor byte.
Clear(e, f) ==
    /\ e.slot # f.slot
    /\ e.member # f.member \/ End(e) <= f.offset \/ End(f) <= e.offset

Apart(X) == \A e, f \in X : e # f => Clear(e, f)

\* Byte b of member m lies in a record of X.
At(X, m, b) == \E e \in X : e.member = m /\ e.offset <= b /\ b < End(e)

Covers(X) ==
    \A m \in Members, b \in Nat :
        At(X, m, b) <=> Usable[m].offset <= b /\ b < End(Usable[m])

\* Replacing records by others over the same bytes, in slots of the replaced
\* ones or in vacant ones, keeps records apart and the covered bytes the same.
LEMMA ReplaceTiles ==
  ASSUME NEW X \in SUBSET Extent, Apart(X),
         NEW R \in SUBSET X, NEW P \in SUBSET Extent, Apart(P),
         \A m \in Members, b \in Nat : At(P, m, b) <=> At(R, m, b),
         \A g \in P : (\E r \in R : g.slot = r.slot) \/ (\A x \in X : x.slot # g.slot)
  PROVE  /\ Apart((X \ R) \cup P)
         /\ \A m \in Members, b \in Nat : At((X \ R) \cup P, m, b) <=> At(X, m, b)
  <1>1. ASSUME NEW x \in X \ R, NEW g \in P PROVE Clear(x, g) /\ Clear(g, x)
    <2>0. /\ x \in Extent /\ g \in Extent /\ x.member \in Members /\ g.member \in Members
          /\ x.offset \in Nat /\ x.len \in Nat \ {0} /\ g.offset \in Nat /\ g.len \in Nat \ {0}
      BY DEF Extent
    <2>1. x.slot # g.slot
      <3>1. ASSUME NEW r \in R, g.slot = r.slot PROVE x.slot # g.slot
        BY <3>1 DEF Apart, Clear
      <3>. QED BY <3>1
    <2>2. ASSUME x.member = g.member, End(x) > g.offset, End(g) > x.offset PROVE FALSE
      <3>. DEFINE b == IF x.offset <= g.offset THEN g.offset ELSE x.offset
      <3>1. /\ b \in Nat /\ x.offset <= b /\ b < End(x) /\ g.offset <= b /\ b < End(g)
        BY <2>0, <2>2 DEF End
      <3>2. At(P, g.member, b)
        BY <3>1 DEF At
      <3>3. At(R, g.member, b)
        BY <3>1, <3>2, <2>0
      <3>4. PICK r \in R : r.member = g.member /\ r.offset <= b /\ b < End(r)
        BY <3>3 DEF At
      <3>5. r # x /\ r \in X /\ r.offset \in Nat /\ r.len \in Nat
        BY DEF Extent
      <3>6. Clear(x, r)
        BY <3>5 DEF Apart
      <3>. QED BY <3>6, <3>5, <3>4, <3>1, <2>2, <2>0 DEF Clear, End
    <2>. QED BY <2>0, <2>1, <2>2 DEF Clear, End
  <1>2. Apart((X \ R) \cup P)
    BY <1>1 DEF Apart
  <1>3. ASSUME NEW m \in Members, NEW b \in Nat
        PROVE  At((X \ R) \cup P, m, b) <=> At(X, m, b)
    <2>1. At(X, m, b) <=> At(X \ R, m, b) \/ At(R, m, b)
      BY DEF At
    <2>2. At((X \ R) \cup P, m, b) <=> At(X \ R, m, b) \/ At(P, m, b)
      BY DEF At
    <2>. QED BY <2>1, <2>2
  <1>. QED BY <1>2, <1>3

\* Sets of pairs with the same pairs are equal.
LEMMA SamePairs ==
  ASSUME NEW M, NEW N, NEW A \in SUBSET (M \X N), NEW B \in SUBSET (M \X N)
  PROVE  A = B <=> \A m \in M, n \in N : <<m, n>> \in A <=> <<m, n>> \in B
  <1>1. ASSUME \A m \in M, n \in N : <<m, n>> \in A <=> <<m, n>> \in B,
               NEW x \in M \X N
        PROVE  x \in A <=> x \in B
    <2>1. PICK m \in M, n \in N : x = <<m, n>>
      OBVIOUS
    <2>. QED BY <1>1, <2>1
  <1>. QED BY <1>1

\* The byte sets of Tiled and the intervals of Apart and Covers say the same.
LEMMA TiledAsIntervals ==
  ASSUME extents \in SUBSET Extent
  PROVE  Tiled <=> Apart(extents) /\ Covers(extents)
  <1>1. ASSUME NEW e \in extents, NEW f \in extents
        PROVE  Clear(e, f) <=> e.slot # f.slot /\ Bytes(e) \cap Bytes(f) = {}
    <2>0. /\ e.member \in Members /\ f.member \in Members
          /\ e.offset \in Nat /\ e.len \in Nat \ {0} /\ f.offset \in Nat /\ f.len \in Nat \ {0}
      BY DEF Extent
    <2>1. CASE e.member = f.member /\ End(e) > f.offset /\ End(f) > e.offset
      <3>. DEFINE b == IF e.offset <= f.offset THEN f.offset ELSE e.offset
      <3>1. b \in e.offset .. End(e) - 1 /\ b \in f.offset .. End(f) - 1
        BY <2>0, <2>1 DEF End
      <3>2. <<e.member, b>> \in Bytes(e) \cap Bytes(f)
        BY <3>1, <2>1 DEF Bytes
      <3>. QED BY <3>2, <2>1, <2>0 DEF Clear, End
    <2>2. CASE ~(e.member = f.member /\ End(e) > f.offset /\ End(f) > e.offset)
      <3>1. (e.offset .. End(e) - 1) \cap (f.offset .. End(f) - 1) = {} \/ e.member # f.member
        BY <2>0, <2>2 DEF End
      <3>2. Bytes(e) \cap Bytes(f) = {}
        BY <3>1 DEF Bytes
      <3>. QED BY <3>2, <2>2, <2>0 DEF Clear, End
    <2>. QED BY <2>1, <2>2
  <1>2. \A m \in Members, b \in Nat :
           At(extents, m, b) <=> <<m, b>> \in UNION {Bytes(e) : e \in extents}
    <2>1. ASSUME NEW m \in Members, NEW b \in Nat, NEW e \in extents
          PROVE  <<m, b>> \in Bytes(e) <=> e.member = m /\ e.offset <= b /\ b < End(e)
      BY DEF Bytes, Extent, End
    <2>. QED BY <2>1 DEF At
  <1>3. \A m \in Members, b \in Nat :
           Usable[m].offset <= b /\ b < End(Usable[m]) <=> <<m, b>> \in UsableBytes
    BY PoolAssumption DEF UsableBytes, End
  <1>4. UNION {Bytes(e) : e \in extents} \subseteq Members \X Nat
    BY DEF Bytes, Extent, End
  <1>5. UsableBytes \subseteq Members \X Nat
    BY PoolAssumption DEF UsableBytes, End
  <1>6. UNION {Bytes(e) : e \in extents} = UsableBytes <=> Covers(extents)
    <2>. DEFINE A == UNION {Bytes(e) : e \in extents}
    <2>1. A = UsableBytes <=>
            \A m \in Members, b \in Nat : <<m, b>> \in A <=> <<m, b>> \in UsableBytes
      <3>1. A \in SUBSET (Members \X Nat) /\ UsableBytes \in SUBSET (Members \X Nat)
        BY <1>4, <1>5
      <3>. HIDE DEF A
      <3>. QED BY <3>1, SamePairs
    <2>. HIDE DEF A
    <2>2. \A m \in Members, b \in Nat : At(extents, m, b) <=> <<m, b>> \in A
      BY <1>2 DEF A
    <2>3. A = UsableBytes <=> Covers(extents)
      BY Zenon, <2>1, <2>2, <1>3 DEF Covers
    <2>. QED BY <2>3 DEF A
  <1>. QED BY <1>1, <1>6 DEF Tiled, Apart

-----------------------------------------------------------------------------
(* What a step finds: the shape of a split and of a merge.                 *)

\* A set of slots with an element has a smallest one.
LEMMA MinInSet ==
  ASSUME NEW S \in SUBSET Nat, S # {}
  PROVE  Min(S) \in S
  <1>1. PICK x \in S : \A y \in S : ~(<<y, x>> \in OpToRel(<, Nat))
    BY Zenon, NatLessThanWellFounded, WFMin
  <1>2. ASSUME NEW y \in S, y < x PROVE FALSE
    <2>1. <<y, x>> \in Nat \X Nat
      OBVIOUS
    <2>2. <<y, x>> \in {p \in Nat \X Nat : p[1] < p[2]}
      BY <2>1, <1>2
    <2>3. <<y, x>> \in OpToRel(<, Nat)
      BY <2>2, Zenon DEF OpToRel
    <2>. QED BY Zenon, <1>1, <2>3
  <1>3. \A y \in S : x <= y
    BY <1>2
  <1>. QED BY Zenon, <1>3 DEF Min

\* A request that fits a free record splits it exactly: prefix, allocation
\* and suffix add up to the record.
LEMMA SplitAddsUp ==
  ASSUME NEW q \in Requests, ValidRequest(q), extents \in SUBSET Extent, NEW e \in Fits(q)
  PROVE  /\ e \in extents /\ Free(e)
         /\ q.len \in Nat \ {0}
         /\ Prefix(e, q) \in Nat /\ Suffix(e, q) \in Nat
         /\ e.len = Prefix(e, q) + q.len + Suffix(e, q)
  <1>. DEFINE start == Base[e.member] + e.offset
              top == start + (q.align - 1)
  <1>1. /\ e \in extents /\ Free(e) /\ Prefix(e, q) + q.len <= e.len
        /\ e.offset \in Nat /\ e.len \in Nat /\ e.member \in Members
    BY DEF Fits, Extent
  <1>2. q.len \in Nat \ {0} /\ q.align \in Nat \ {0}
    BY PoolAssumption DEF ValidRequest
  <1>3. start \in Nat /\ top \in Nat
    <2>1. Base[e.member] \in Nat
      BY Zenon, <1>1, PoolAssumption
    <2>2. start \in Nat
      BY <1>1, <2>1
    <2>. HIDE DEF start
    <2>. QED BY <1>2, <2>2
  <1>4. top % q.align \in 0 .. q.align - 1
    <2>. HIDE DEF top
    <2>. QED BY <1>3, <1>2
  <1>5. Prefix(e, q) = (top - (top % q.align)) - start
    BY DEF Prefix, AlignUp
  <1>6. top - (top % q.align) >= start
    <2>. DEFINE r == top % q.align
    <2>1. r \in Int /\ r <= q.align - 1
      BY <1>4, <1>2
    <2>. HIDE DEF r
    <2>2. top - r >= start
      BY <2>1, <1>2, <1>3
    <2>. QED BY <2>2 DEF r
  <1>7. Prefix(e, q) \in Nat
    <2>1. top % q.align \in Int
      BY <1>4, <1>2
    <2>. HIDE DEF top, start
    <2>. QED BY <2>1, <1>3, <1>5, <1>6
  <1>. QED BY <1>1, <1>2, <1>7 DEF Suffix

\* With enough vacant slots the pieces of a split get slots of their own.
LEMMA PiecesHaveSlots ==
  ASSUME NEW e, NEW q, Cost(e, q) <= Cardinality(Vacant)
  PROVE  /\ Prefix(e, q) # 0 => FrontSlot \in Vacant
         /\ Suffix(e, q) # 0 => BackSlot(e, q) \in Vacant
         /\ Prefix(e, q) # 0 /\ Suffix(e, q) # 0 => BackSlot(e, q) # FrontSlot
  <1>1. Vacant \in SUBSET Nat /\ IsFiniteSet(Vacant) /\ Cardinality(Vacant) \in Nat
    <2>1. EXTENTS - 1 \in Int /\ 0 \in Int
      BY PoolAssumption
    <2>2. IsFiniteSet(Slots)
      BY <2>1, FS_Interval DEF Slots
    <2>3. Vacant \in SUBSET Slots
      BY DEF Vacant
    <2>4. IsFiniteSet(Vacant)
      BY <2>2, <2>3, FS_Subset
    <2>. QED BY <2>1, <2>3, <2>4, FS_CardinalityType DEF Slots
  <1>2. ASSUME Prefix(e, q) # 0 PROVE FrontSlot \in Vacant
    <2>1. Cardinality(Vacant) # 0
      BY <1>2, <1>1 DEF Cost
    <2>2. Vacant # {}
      BY <2>1, FS_EmptySet
    <2>. QED BY <2>2, <1>1, MinInSet DEF FrontSlot
  <1>3. ASSUME Suffix(e, q) # 0, Prefix(e, q) = 0 PROVE BackSlot(e, q) \in Vacant
    <2>1. Cardinality(Vacant) # 0
      BY <1>3, <1>1 DEF Cost
    <2>2. Vacant # {}
      BY <2>1, FS_EmptySet
    <2>3. BackSlot(e, q) = Min(Vacant)
      BY <1>3 DEF BackSlot
    <2>. QED BY <2>2, <2>3, <1>1, MinInSet
  <1>4. ASSUME Suffix(e, q) # 0, Prefix(e, q) # 0
        PROVE  BackSlot(e, q) \in Vacant \ {FrontSlot}
    <2>1. Cardinality(Vacant) >= 2
      BY <1>4, <1>1 DEF Cost
    <2>2. Cardinality(Vacant \ {FrontSlot}) = Cardinality(Vacant) - 1
      BY <1>4, <1>2, <1>1, FS_RemoveElement
    <2>3. Vacant \ {FrontSlot} # {}
      BY <2>1, <2>2, <1>1, FS_EmptySet
    <2>4. BackSlot(e, q) = Min(Vacant \ {FrontSlot})
      BY <1>4 DEF BackSlot
    <2>5. Vacant \ {FrontSlot} \in SUBSET Nat
      BY Zenon, <1>1
    <2>. QED BY <2>3, <2>4, <2>5, MinInSet
  <1>. QED BY <1>2, <1>3, <1>4

Pieces(e, q) == {Leased(e, q)} \cup FrontPiece(e, q) \cup BackPiece(e, q)

\* The pieces of a split are records apart, over the bytes of the record they
\* replace, in its slot and in vacant ones.
LEMMA SplitTiles ==
  ASSUME NEW q \in Requests, ValidRequest(q), extents \in SUBSET Extent,
         next_lease_id \in 1 .. LastLeaseId,
         NEW e \in Fits(q), Cost(e, q) <= Cardinality(Vacant)
  PROVE  /\ Pieces(e, q) \in SUBSET Extent
         /\ Apart(Pieces(e, q))
         /\ \A m \in Members, b \in Nat : At(Pieces(e, q), m, b) <=> At({e}, m, b)
         /\ \A g \in Pieces(e, q) : g.slot = e.slot \/ (\A x \in extents : x.slot # g.slot)
  <1>. DEFINE p == Prefix(e, q)
              s == Suffix(e, q)
              l == Leased(e, q)
  <1>0. /\ e \in extents /\ q.len \in Nat \ {0} /\ p \in Nat /\ s \in Nat /\ Free(e)
        /\ e.len = p + q.len + s
    BY SplitAddsUp
  <1>1. /\ e \in Extent /\ e.slot \in Slots /\ e.member \in Members /\ e.offset \in Nat
        /\ e.len \in Nat \ {0}
    BY <1>0 DEF Extent
  <1>2. /\ l.slot = e.slot /\ l.member = e.member /\ l.offset = e.offset + p
        /\ l.len = q.len /\ l.lease = next_lease_id /\ l \in Extent
    <2>1. next_lease_id \in 0 .. LastLeaseId /\ e.offset + p \in Nat
      BY <1>0, <1>1, PoolAssumption
    <2>. HIDE DEF p
    <2>2. l = [e EXCEPT !.offset = e.offset + p, !.len = q.len, !.lease = next_lease_id]
      BY DEF Leased, p
    <2>. HIDE DEF l
    <2>. QED BY Zenon, <2>1, <2>2, <1>0, <1>1 DEF Extent
  <1>3. \A g \in FrontPiece(e, q) :
          /\ p # 0 /\ g \in Extent /\ g.slot = FrontSlot /\ g.slot \in Vacant
          /\ g.member = e.member /\ g.offset = e.offset /\ g.len = p /\ g.lease = 0
    BY <1>0, <1>1, PiecesHaveSlots, PoolAssumption DEF FrontPiece, Extent, Vacant
  <1>4. \A g \in BackPiece(e, q) :
          /\ s # 0 /\ g \in Extent /\ g.slot = BackSlot(e, q) /\ g.slot \in Vacant
          /\ p # 0 => g.slot # FrontSlot
          /\ g.member = e.member /\ g.offset = e.offset + p + q.len /\ g.len = s /\ g.lease = 0
    BY <1>0, <1>1, PiecesHaveSlots, PoolAssumption DEF BackPiece, Extent, Vacant
  <1>5. /\ p # 0 => \E g : g \in FrontPiece(e, q)
        /\ s # 0 => \E g : g \in BackPiece(e, q)
        /\ \A g, h \in FrontPiece(e, q) : g = h
        /\ \A g, h \in BackPiece(e, q) : g = h
    BY Zenon DEF FrontPiece, BackPiece
  <1>6. e.slot \notin Vacant /\ \A x \in extents : x.slot \notin Vacant
    BY <1>0 DEF Vacant
  <1>. HIDE DEF p, s, l
  <1>7. Pieces(e, q) = {l} \cup FrontPiece(e, q) \cup BackPiece(e, q)
    BY DEF Pieces, l
  <1>8. Pieces(e, q) \in SUBSET Extent
    BY <1>2, <1>3, <1>4, <1>7
  <1>9. Apart(Pieces(e, q))
    <2>1. ASSUME NEW g \in FrontPiece(e, q) PROVE Clear(l, g) /\ Clear(g, l)
      BY <1>0, <1>1, <1>2, <1>3, <1>6 DEF Clear, End
    <2>2. ASSUME NEW g \in BackPiece(e, q) PROVE Clear(l, g) /\ Clear(g, l)
      BY <1>0, <1>1, <1>2, <1>4, <1>6 DEF Clear, End
    <2>3. ASSUME NEW g \in FrontPiece(e, q), NEW h \in BackPiece(e, q)
          PROVE  Clear(g, h) /\ Clear(h, g)
      BY <1>0, <1>1, <1>3, <1>4 DEF Clear, End
    <2>. QED BY <2>1, <2>2, <2>3, <1>5, <1>7 DEF Apart
  <1>10. ASSUME NEW m \in Members, NEW b \in Nat
         PROVE  At(Pieces(e, q), m, b) <=> At({e}, m, b)
    <2>1. At({e}, m, b) <=> e.member = m /\ e.offset <= b /\ b < e.offset + p + q.len + s
      BY <1>0, <1>1 DEF At, End
    <2>2. At({l}, m, b) <=> e.member = m /\ e.offset + p <= b /\ b < e.offset + p + q.len
      BY <1>2 DEF At, End
    <2>3. At(FrontPiece(e, q), m, b) <=> e.member = m /\ e.offset <= b /\ b < e.offset + p
      <3>1. CASE p = 0
        BY <3>1, <1>0, <1>1, <1>3 DEF At, End
      <3>2. CASE p # 0
        BY <3>2, <1>0, <1>1, <1>3, <1>5 DEF At, End
      <3>. QED BY <3>1, <3>2
    <2>4. At(BackPiece(e, q), m, b) <=>
            e.member = m /\ e.offset + p + q.len <= b /\ b < e.offset + p + q.len + s
      <3>1. CASE s = 0
        BY <3>1, <1>0, <1>1, <1>4 DEF At, End
      <3>2. CASE s # 0
        BY <3>2, <1>0, <1>1, <1>4, <1>5 DEF At, End
      <3>. QED BY <3>1, <3>2
    <2>5. At(Pieces(e, q), m, b) <=>
            At({l}, m, b) \/ At(FrontPiece(e, q), m, b) \/ At(BackPiece(e, q), m, b)
      BY <1>7 DEF At
    <2>. QED BY <2>1, <2>2, <2>3, <2>4, <2>5, <1>0, <1>1
  <1>11. \A g \in Pieces(e, q) : g.slot = e.slot \/ (\A x \in extents : x.slot # g.slot)
    BY <1>2, <1>3, <1>4, <1>6, <1>7
  <1>. QED BY <1>8, <1>9, <1>10, <1>11

\* Where a released record ends up: from the start of the free record below it,
\* if one touches it, to the end of the one above.
LEMMA MergedShape ==
  ASSUME extents \in SUBSET Extent, Apart(extents), NEW e \in extents
  PROVE  /\ Merged(e) \in Extent /\ Merged(e).slot = e.slot /\ Merged(e).member = e.member
         /\ Merged(e).lease = 0
         /\ \A f \in Absorbed(e) \cup {e} :
              Merged(e).offset <= f.offset /\ End(f) <= End(Merged(e))
         /\ \E f \in Absorbed(e) \cup {e} :
              Merged(e).offset = f.offset /\ (f = e \/ End(f) = e.offset)
         /\ \E f \in Absorbed(e) \cup {e} :
              End(Merged(e)) = End(f) /\ (f = e \/ f.offset = End(e))
  <1>. DEFINE A == Absorbed(e) \cup {e}
  <1>0. \A f \in A : /\ f \in extents /\ f.member = e.member
                     /\ f.offset \in Nat /\ f.len \in Nat \ {0} /\ End(f) \in Nat
                     /\ End(f) = f.offset + f.len
                     /\ f = e \/ End(f) = e.offset \/ f.offset = End(e)
    BY DEF Absorbed, Touches, Extent, End
  <1>1. \E f \in A : /\ f = e \/ End(f) = e.offset
                     /\ \A g \in A : f.offset <= g.offset
    <2>1. CASE \E f \in A : End(f) = e.offset
      <3>1. PICK f \in A : End(f) = e.offset
        BY <2>1
      <3>2. ASSUME NEW g \in A PROVE f.offset <= g.offset
        <4>1. CASE g = f
          BY <4>1, <1>0
        <4>2. CASE g # f /\ End(g) = e.offset
          <5>1. Clear(g, f)
            BY <4>2, <1>0 DEF Apart
          <5>. QED BY <5>1, <4>2, <3>1, <1>0 DEF Clear
        <4>3. CASE g = e \/ g.offset = End(e)
          BY <4>3, <3>1, <1>0
        <4>. QED BY <4>1, <4>2, <4>3, <1>0
      <3>. QED BY <3>1, <3>2
    <2>2. CASE ~\E f \in A : End(f) = e.offset
      <3>1. \A g \in A : e.offset <= g.offset
        BY <2>2, <1>0
      <3>. QED BY <3>1
    <2>. QED BY <2>1, <2>2
  <1>2. \E f \in A : /\ f = e \/ f.offset = End(e)
                     /\ \A g \in A : End(f) >= End(g)
    <2>1. CASE \E f \in A : f.offset = End(e)
      <3>1. PICK f \in A : f.offset = End(e)
        BY <2>1
      <3>2. ASSUME NEW g \in A PROVE End(f) >= End(g)
        <4>1. CASE g = f
          BY <4>1, <1>0
        <4>2. CASE g # f /\ g.offset = End(e)
          <5>1. Clear(g, f)
            BY <4>2, <1>0 DEF Apart
          <5>. QED BY <5>1, <4>2, <3>1, <1>0 DEF Clear
        <4>3. CASE g = e \/ End(g) = e.offset
          BY <4>3, <3>1, <1>0
        <4>. QED BY <4>1, <4>2, <4>3, <1>0
      <3>. QED BY <3>1, <3>2
    <2>2. CASE ~\E f \in A : f.offset = End(e)
      <3>1. \A g \in A : End(e) >= End(g)
        BY <2>2, <1>0
      <3>. QED BY <3>1
    <2>. QED BY <2>1, <2>2
  <1>. DEFINE S == {f.offset : f \in A}
              T == {End(f) : f \in A}
  <1>3. PICK lo \in A : /\ lo = e \/ End(lo) = e.offset
                        /\ \A g \in A : lo.offset <= g.offset
    BY <1>1
  <1>4. PICK hi \in A : /\ hi = e \/ hi.offset = End(e)
                        /\ \A g \in A : End(hi) >= End(g)
    BY <1>2
  <1>5. Min(S) = lo.offset
    <2>1. lo.offset \in S /\ \A y \in S : lo.offset <= y
      BY <1>3
    <2>2. \A y \in S : y \in Nat
      BY <1>0
    <2>. HIDE DEF S, A
    <2>. QED BY <2>1, <2>2 DEF Min
  <1>6. Max(T) = End(hi)
    <2>1. End(hi) \in T /\ \A y \in T : End(hi) >= y
      BY <1>4
    <2>2. \A y \in T : y \in Nat
      BY <1>0
    <2>. HIDE DEF T, A
    <2>. QED BY <2>1, <2>2 DEF Max
  <1>7. Merged(e) = [e EXCEPT !.offset = lo.offset, !.len = End(hi) - lo.offset, !.lease = 0]
    BY Zenon, <1>5, <1>6 DEF Merged
  <1>8. lo.offset \in Nat /\ End(hi) - lo.offset \in Nat \ {0}
    <2>1. e \in A
      OBVIOUS
    <2>. QED BY <2>1, <1>0, <1>3, <1>4
  <1>9. e \in Extent
    OBVIOUS
  <1>10. /\ Merged(e) \in Extent /\ Merged(e).slot = e.slot /\ Merged(e).member = e.member
         /\ Merged(e).lease = 0 /\ Merged(e).offset = lo.offset
         /\ Merged(e).len = End(hi) - lo.offset
    <2>1. 0 \in 0 .. LastLeaseId
      BY PoolAssumption
    <2>. HIDE DEF A
    <2>. QED BY Zenon, <2>1, <1>7, <1>8, <1>9 DEF Extent
  <1>11. End(Merged(e)) = End(hi)
    <2>1. End(Merged(e)) = lo.offset + (End(hi) - lo.offset)
      BY <1>10 DEF End
    <2>. QED BY <2>1, <1>0, <1>3, <1>4
  <1>. QED
    <2>. HIDE DEF A
    <2>1. \A f \in A : Merged(e).offset <= f.offset /\ End(f) <= End(Merged(e))
      BY <1>3, <1>4, <1>10, <1>11, <1>0
    <2>2. \E f \in A : Merged(e).offset = f.offset /\ (f = e \/ End(f) = e.offset)
      BY <1>3, <1>10
    <2>3. \E f \in A : End(Merged(e)) = End(f) /\ (f = e \/ f.offset = End(e))
      BY <1>4, <1>11
    <2>. QED BY Zenon, <2>1, <2>2, <2>3, <1>10 DEF A

\* A merge keeps records apart and the covered bytes the same.
LEMMA MergeTiles ==
  ASSUME extents \in SUBSET Extent, Apart(extents), NEW e \in extents
  PROVE  \A m \in Members, b \in Nat : At({Merged(e)}, m, b) <=> At({e} \cup Absorbed(e), m, b)
  <1>. DEFINE A == Absorbed(e) \cup {e}
              M == Merged(e)
  <1>0. \A f \in A : f.member = e.member /\ f.offset \in Nat /\ f.len \in Nat
                     /\ End(f) \in Nat
    BY DEF Absorbed, Touches, Extent, End
  <1>1. /\ M.member = e.member /\ M.offset \in Nat /\ End(M) \in Nat
        /\ \A f \in A : M.offset <= f.offset /\ End(f) <= End(M)
    BY MergedShape DEF Extent, End
  <1>2. PICK lo \in A : M.offset = lo.offset /\ (lo = e \/ End(lo) = e.offset)
    BY MergedShape
  <1>3. PICK hi \in A : End(M) = End(hi) /\ (hi = e \/ hi.offset = End(e))
    BY MergedShape
  <1>4. e \in A
    OBVIOUS
  <1>. HIDE DEF A, M
  <1>5. ASSUME NEW m \in Members, NEW b \in Nat PROVE At({M}, m, b) <=> At(A, m, b)
    <2>1. ASSUME At(A, m, b) PROVE At({M}, m, b)
      BY <2>1, <1>0, <1>1 DEF At
    <2>2. ASSUME At({M}, m, b) PROVE At(A, m, b)
      <3>1. m = e.member /\ lo.offset <= b /\ b < End(hi)
        BY <2>2, <1>1, <1>2, <1>3 DEF At
      <3>2. \/ lo.offset <= b /\ b < End(lo)
            \/ e.offset <= b /\ b < End(e)
            \/ hi.offset <= b /\ b < End(hi)
        BY <3>1, <1>0, <1>2, <1>3, <1>4
      <3>. QED BY <3>1, <3>2, <1>0, <1>2, <1>3, <1>4 DEF At
    <2>. QED BY <2>1, <2>2
  <1>6. A = {e} \cup Absorbed(e)
    BY DEF A
  <1>. QED BY <1>5, <1>6 DEF M

-----------------------------------------------------------------------------
(* The inductive invariant.                                                *)

\* Ids still to be handed out are above those in use.
IdsFresh == next_lease_id # 0 => \A l \in held : l.id < next_lease_id

Shape == extents \in SUBSET Extent /\ Apart(extents) /\ Covers(extents)

Counters ==
    /\ free_bytes \in Nat /\ leased_bytes \in Nat /\ next_lease_id \in 0 .. LastLeaseId
    /\ tight \in BOOLEAN
    /\ answer.kind \in {"none", "ok", "invalid_request", "capacity_exhausted",
                        "metadata_exhausted"}

Leases == held \in SUBSET Lease /\ LeasesExact /\ IdsFresh

IInv == Shape /\ Counters /\ Leases /\ Coalesced

\* The inductive invariant is the type invariant, the tiling, the lease
\* bookkeeping, the coalescing and the freshness of ids.
LEMMA IInvSays == IInv => TypeOK /\ Tiled /\ LeasesExact /\ Coalesced
  BY TiledAsIntervals DEF IInv, Shape, Counters, Leases, TypeOK

\* The members have finitely many usable bytes.
LEMMA UsableFinite == IsFiniteSet(UsableBytes)
  <1>1. IsFiniteSet(Members)
    <2>1. EXTENTS - 1 \in Int /\ 0 \in Int
      BY PoolAssumption
    <2>2. IsFiniteSet(0 .. EXTENTS - 1)
      BY <2>1, FS_Interval
    <2>. QED BY Zenon, <2>2, FS_Subset, PoolAssumption
  <1>. DEFINE B(m) == {m} \X (Usable[m].offset .. End(Usable[m]) - 1)
  <1>2. ASSUME NEW m \in Members PROVE IsFiniteSet(B(m))
    <2>1. Usable[m].offset \in Int /\ End(Usable[m]) - 1 \in Int
      BY PoolAssumption DEF End
    <2>2. IsFiniteSet(Usable[m].offset .. End(Usable[m]) - 1)
      BY <2>1, FS_Interval
    <2>. QED BY Zenon, <2>2, FS_Singleton, FS_Product
  <1>3. IsFiniteSet({B(m) : m \in Members})
    <2>. DEFINE F == [m \in Members |-> B(m)]
    <2>1. F \in Surjection(Members, {B(m) : m \in Members})
      BY DEF Surjection
    <2>. QED BY <1>1, <2>1, FS_Surjection
  <1>4. \A T \in {B(m) : m \in Members} : IsFiniteSet(T)
    BY <1>2
  <1>5. IsFiniteSet(UNION {B(m) : m \in Members})
    <2>. HIDE DEF B
    <2>. QED BY <1>3, <1>4, FS_UNION
  <1>. QED BY <1>5 DEF UsableBytes

\* The builder's records start the pool tiled, whole and free.
LEMMA InitIInv == Init => IInv
  <1>. SUFFICES ASSUME Init PROVE IInv
    OBVIOUS
  <1>1. \A e \in extents : /\ e \in Extent /\ e.member \in Members /\ e.slot = e.member
                           /\ e.offset = Usable[e.member].offset
                           /\ e.len = Usable[e.member].len /\ e.lease = 0
                           /\ e = [slot |-> e.member, member |-> e.member,
                                   offset |-> Usable[e.member].offset,
                                   len |-> Usable[e.member].len, lease |-> 0]
    BY PoolAssumption DEF Init, Extent, Slots
  <1>2. ASSUME NEW m \in Members PROVE \E e \in extents : e.member = m
    <2>. DEFINE r == [slot |-> m, member |-> m, offset |-> Usable[m].offset,
                      len |-> Usable[m].len, lease |-> 0]
    <2>1. r \in extents
      BY DEF Init
    <2>2. r.member = m
      OBVIOUS
    <2>. QED BY <2>1, <2>2
  <1>3. Apart(extents)
    BY <1>1 DEF Apart, Clear
  <1>4. Covers(extents)
    BY <1>1, <1>2 DEF Covers, At, End
  <1>5. Coalesced
    <2>1. ASSUME NEW e \in extents, NEW f \in extents, Touches(e, f) PROVE FALSE
      <3>1. e = f /\ e.offset \in Nat /\ e.len \in Nat \ {0}
        BY <2>1, <1>1 DEF Touches, Extent
      <3>. QED BY <3>1, <2>1 DEF Touches, End
    <2>. QED BY <2>1 DEF Coalesced
  <1>6. Leases
    BY <1>1 DEF Init, Leases, LeasesExact, IdsFresh, Free
  <1>7. Counters
    <2>1. free_bytes \in Nat
      BY UsableFinite, FS_CardinalityType DEF Init
    <2>. QED BY <2>1, PoolAssumption DEF Init, Counters, Said
  <1>. QED BY <1>1, <1>3, <1>4, <1>5, <1>6, <1>7 DEF IInv, Shape

\* Every answer but success leaves records and leases alone.
LEMMA RefusalKeeps ==
  ASSUME IInv, UNCHANGED <<extents, free_bytes, leased_bytes, tight, held>>,
         next_lease_id' = next_lease_id \/ (next_lease_id # 0 /\ next_lease_id' = AfterLeaseId),
         answer'.kind \in {"none", "ok", "invalid_request", "capacity_exhausted",
                           "metadata_exhausted"}
  PROVE  IInv'
  <1>1. Shape' /\ Coalesced'
    BY DEF IInv, Shape, Coalesced, Apart, Covers, At
  <1>2. Counters'
    <2>1. next_lease_id' \in 0 .. LastLeaseId
      BY PoolAssumption DEF IInv, Counters, AfterLeaseId
    <2>. QED BY <2>1 DEF IInv, Counters
  <1>3. Leases'
    <2>1. held' \in SUBSET Lease /\ LeasesExact'
      BY DEF IInv, Leases, LeasesExact
    <2>2. IdsFresh'
      <3>1. \A l \in held : l.id \in Nat
        BY DEF IInv, Leases, Lease
      <3>2. next_lease_id \in Nat
        BY DEF IInv, Counters
      <3>. QED BY <3>1, <3>2 DEF IInv, Leases, IdsFresh, AfterLeaseId
    <2>. QED BY <2>1, <2>2 DEF Leases
  <1>. QED BY <1>1, <1>2, <1>3 DEF IInv

\* acquire_extent splits a free record and hands out a fresh lease.
LEMMA AcquireKeeps ==
  ASSUME IInv, NEW q \in Requests, AcquireExtent(q)
  PROVE  IInv'
  <1>0. PICK e \in extents :
          /\ Candidate(e, q) /\ Cost(e, q) <= Cardinality(Vacant)
          /\ extents' = (extents \ {e}) \cup {Leased(e, q)} \cup FrontPiece(e, q) \cup BackPiece(e, q)
          /\ held' = held \cup {LeaseOf(Leased(e, q))}
    BY DEF AcquireExtent
  <1>. DEFINE P == Pieces(e, q)
              l == Leased(e, q)
  <1>1. /\ extents \in SUBSET Extent /\ Apart(extents) /\ Covers(extents)
        /\ next_lease_id \in 1 .. LastLeaseId /\ next_lease_id \in Nat
    BY PoolAssumption DEF IInv, Shape, Counters, AcquireExtent
  <1>2. e \in Fits(q) /\ ValidRequest(q)
    BY <1>0 DEF Candidate, AcquireExtent
  <1>3. extents' = (extents \ {e}) \cup P
    BY <1>0 DEF Pieces
  <1>4. /\ P \in SUBSET Extent /\ Apart(P)
        /\ \A m \in Members, b \in Nat : At(P, m, b) <=> At({e}, m, b)
        /\ \A g \in P : g.slot = e.slot \/ (\A x \in extents : x.slot # g.slot)
    BY Zenon, <1>0, <1>1, <1>2, SplitTiles
  <1>5. /\ Free(e) /\ q.len \in Nat \ {0} /\ Prefix(e, q) \in Nat /\ Suffix(e, q) \in Nat
        /\ e.len = Prefix(e, q) + q.len + Suffix(e, q)
        /\ e.offset \in Nat /\ e.len \in Nat \ {0} /\ e \in Extent
    BY <1>1, <1>2, SplitAddsUp DEF Extent
  <1>6. /\ l \in P /\ l.offset = e.offset + Prefix(e, q) /\ l.len = q.len
        /\ l.member = e.member /\ l.lease = next_lease_id /\ ~Free(l)
    BY <1>1, <1>5 DEF Leased, Pieces, Extent, Free
  <1>7. \A g \in P \ {l} :
          /\ Free(g) /\ g.member = e.member
          /\ \/ g.offset = e.offset /\ g.len = Prefix(e, q) /\ g.len # 0
             \/ g.offset = e.offset + Prefix(e, q) + q.len /\ g.len = Suffix(e, q) /\ g.len # 0
    BY DEF Pieces, FrontPiece, BackPiece, Free
  <1>. HIDE DEF P, l
  <1>8. Shape'
    <2>1. {e} \in SUBSET extents
      OBVIOUS
    <2>2. /\ Apart((extents \ {e}) \cup P)
          /\ \A m \in Members, b \in Nat : At((extents \ {e}) \cup P, m, b) <=> At(extents, m, b)
      BY Zenon, <1>1, <1>4, <2>1, ReplaceTiles
    <2>3. Apart(extents') /\ Covers(extents')
      BY Zenon, <1>1, <1>3, <2>2 DEF Covers
    <2>4. extents' \in SUBSET Extent
      BY <1>1, <1>3, <1>4
    <2>. QED BY <2>3, <2>4 DEF Shape, Apart, Covers, At
  <1>9. Coalesced'
    <2>1. ASSUME NEW g \in P \ {l}, NEW x \in extents \ {e}, Free(x)
          PROVE  ~Touches(g, x) /\ ~Touches(x, g)
      <3>1. Clear(e, x) /\ ~Touches(e, x) /\ ~Touches(x, e)
        BY <2>1, <1>1, <1>5 DEF IInv, Coalesced, Apart
      <3>2. x.offset \in Nat /\ x.len \in Nat \ {0}
        BY <1>1 DEF Extent
      <3>3. /\ Free(g) /\ g.member = e.member
            /\ \/ g.offset = e.offset /\ g.len = Prefix(e, q) /\ g.len # 0
               \/ g.offset = e.offset + Prefix(e, q) + q.len /\ g.len = Suffix(e, q) /\ g.len # 0
        BY <1>7
      <3>4. CASE g.offset = e.offset /\ g.len = Prefix(e, q) /\ g.len # 0
        BY <3>1, <3>2, <3>3, <3>4, <1>5 DEF Clear, Touches, End
      <3>5. CASE g.offset = e.offset + Prefix(e, q) + q.len /\ g.len = Suffix(e, q) /\ g.len # 0
        BY <3>1, <3>2, <3>3, <3>5, <1>5 DEF Clear, Touches, End
      <3>. QED BY <3>3, <3>4, <3>5
    <2>2. ASSUME NEW g \in P \ {l}, NEW h \in P \ {l} PROVE ~Touches(g, h)
      BY <1>5, <1>7 DEF Touches, End
    <2>3. ASSUME NEW g \in extents', NEW h \in extents', Free(g), Free(h)
          PROVE  ~Touches(g, h)
      <3>1. (g \in extents \ {e} \/ g \in P \ {l}) /\ (h \in extents \ {e} \/ h \in P \ {l})
        BY <2>3, <1>3, <1>6
      <3>2. CASE g \in extents \ {e} /\ h \in extents \ {e}
        BY <2>3, <3>2 DEF IInv, Coalesced
      <3>. QED BY <3>1, <3>2, <2>1, <2>2, <2>3
    <2>. QED BY <2>3 DEF Coalesced
  <1>10. Leases'
    <2>1. held = {LeaseOf(f) : f \in {g \in extents : ~Free(g)}} /\ held \in SUBSET Lease
      BY DEF IInv, Leases, LeasesExact
    <2>2. {g \in extents' : ~Free(g)} = {g \in extents : ~Free(g)} \cup {l}
      BY <1>3, <1>5, <1>6, <1>7
    <2>3. held' = held \cup {LeaseOf(l)}
      BY <1>0 DEF l
    <2>4. held' = {LeaseOf(f) : f \in {g \in extents' : ~Free(g)}}
      BY <2>1, <2>2, <2>3
    <2>5. LeaseOf(l) \in Lease /\ LeaseOf(l).id = next_lease_id
      <3>1. l \in Extent
        BY <1>4, <1>6
      <3>. QED BY <3>1, <1>1, <1>6 DEF LeaseOf, Extent, Lease
    <2>6. \A k \in held : k.id < next_lease_id /\ k.id \in Nat
      BY <1>1, <2>1 DEF IInv, Leases, IdsFresh, Lease
    <2>7. \A k, j \in held' : k.id = j.id => k = j
      BY <2>3, <2>5, <2>6, <1>1 DEF IInv, Leases, LeasesExact
    <2>8. IdsFresh'
      BY <2>3, <2>5, <2>6, <1>1 DEF IdsFresh, AcquireExtent, AfterLeaseId
    <2>. QED BY Zenon, <2>1, <2>3, <2>4, <2>5, <2>7, <2>8 DEF Leases, LeasesExact
  <1>11. Counters'
    <2>1. next_lease_id' \in 0 .. LastLeaseId
      BY <1>1, PoolAssumption DEF AcquireExtent, AfterLeaseId
    <2>2. free_bytes' \in Nat /\ leased_bytes' \in Nat
      BY <1>5 DEF AcquireExtent, SaturatingSub, IInv, Counters
    <2>3. answer'.kind = "ok"
      BY DEF AcquireExtent, Said
    <2>4. tight' \in BOOLEAN
      BY Zenon DEF AcquireExtent, IInv, Counters
    <2>. QED BY <2>1, <2>2, <2>3, <2>4 DEF Counters
  <1>. QED BY <1>8, <1>9, <1>10, <1>11 DEF IInv

\* release_extent frees the record of the lease and merges it with its free
\* neighbours; no other lease shares that record.
LEMMA ReleaseKeeps ==
  ASSUME IInv, NEW l \in held, ReleaseExtent(l)
  PROVE  IInv'
  <1>0. PICK e \in extents :
          /\ Matches(e, l) /\ extents' = AfterRelease(e)
          /\ free_bytes' = free_bytes + e.len
          /\ leased_bytes' = SaturatingSub(leased_bytes, e.len)
    BY DEF ReleaseExtent
  <1>. DEFINE A == Absorbed(e)
              M == Merged(e)
  <1>1. /\ extents \in SUBSET Extent /\ Apart(extents) /\ Covers(extents)
        /\ ~Free(e) /\ LeaseOf(e) = l /\ e.offset \in Nat /\ e.len \in Nat \ {0}
    BY <1>0 DEF IInv, Shape, Matches, Extent
  <1>2. extents' = (extents \ ({e} \cup A)) \cup {M}
    BY <1>0 DEF AfterRelease
  <1>3. \A f \in A : f \in extents /\ f # e /\ Free(f) /\ Touches(e, f)
    BY DEF Absorbed
  <1>4. \A f \in extents \ {e} : Free(f) /\ f \notin A => ~Touches(e, f)
    BY DEF Absorbed
  <1>5. M \in Extent /\ M.slot = e.slot /\ M.member = e.member /\ Free(M)
    BY <1>1, MergedShape DEF Free
  <1>6. \A m \in Members, b \in Nat : At({M}, m, b) <=> At({e} \cup A, m, b)
    BY <1>1, MergeTiles
  <1>7. PICK lo \in A \cup {e} : M.offset = lo.offset /\ (lo = e \/ End(lo) = e.offset)
    BY <1>1, MergedShape
  <1>8. PICK hi \in A \cup {e} : End(M) = End(hi) /\ (hi = e \/ hi.offset = End(e))
    BY <1>1, MergedShape
  <1>. HIDE DEF A, M
  <1>9. Shape'
    <2>1. {e} \cup A \in SUBSET extents /\ {M} \in SUBSET Extent
      BY <1>3, <1>5
    <2>2. Apart({M})
      BY DEF Apart
    <2>3. \A g \in {M} : (\E r \in {e} \cup A : g.slot = r.slot)
                          \/ (\A x \in extents : x.slot # g.slot)
      BY <1>5
    <2>4. /\ Apart((extents \ ({e} \cup A)) \cup {M})
          /\ \A m \in Members, b \in Nat :
               At((extents \ ({e} \cup A)) \cup {M}, m, b) <=> At(extents, m, b)
      BY Zenon, <1>1, <1>6, <2>1, <2>2, <2>3, ReplaceTiles
    <2>5. Apart(extents') /\ Covers(extents')
      BY Zenon, <1>1, <1>2, <2>4 DEF Covers
    <2>6. extents' \in SUBSET Extent
      BY <1>1, <1>2, <1>5
    <2>. QED BY <2>5, <2>6 DEF Shape, Apart, Covers, At
  <1>10. Coalesced'
    <2>1. ASSUME NEW x \in extents \ ({e} \cup A), Free(x)
          PROVE  ~Touches(M, x) /\ ~Touches(x, M)
      <3>1. ~Touches(e, x)
        BY <2>1, <1>4
      <3>2. lo # e => ~Touches(lo, x)
        BY <2>1, <1>3 DEF IInv, Coalesced
      <3>3. hi # e => ~Touches(hi, x)
        BY <2>1, <1>3 DEF IInv, Coalesced
      <3>4. lo.member = e.member /\ hi.member = e.member
        BY <1>3 DEF Touches
      <3>5. ~Touches(M, x)
        BY <3>1, <3>2, <3>3, <3>4, <1>5, <1>7, <1>8 DEF Touches
      <3>. QED BY <3>5 DEF Touches
    <2>2. ~Touches(M, M)
      BY <1>5 DEF Touches, Extent, End
    <2>3. ASSUME NEW g \in extents', NEW h \in extents', Free(g), Free(h)
          PROVE  ~Touches(g, h)
      <3>1. CASE g \in extents /\ h \in extents
        BY <2>3, <3>1 DEF IInv, Coalesced
      <3>. QED BY <3>1, <1>2, <2>1, <2>2, <2>3
    <2>. QED BY <2>3 DEF Coalesced
  <1>11. Leases'
    <2>1. held = {LeaseOf(f) : f \in {g \in extents : ~Free(g)}} /\ held \in SUBSET Lease
      BY DEF IInv, Leases, LeasesExact
    <2>2. {g \in extents' : ~Free(g)} = {g \in extents : ~Free(g)} \ {e}
      BY <1>1, <1>2, <1>3, <1>5
    <2>3. ASSUME NEW f \in extents, LeaseOf(f) = l PROVE f = e
      <3>1. f.member = e.member /\ f.offset = e.offset /\ f.len = e.len
        BY <2>3, <1>1 DEF LeaseOf
      <3>2. ~Clear(f, e)
        BY <3>1, <1>1 DEF Clear, End
      <3>. QED BY <3>2, <1>1 DEF Apart
    <2>4. held' = held \ {l}
      BY DEF ReleaseExtent
    <2>5. held' = {LeaseOf(f) : f \in {g \in extents' : ~Free(g)}}
      BY <2>1, <2>2, <2>3, <2>4, <1>1
    <2>6. \A k, j \in held' : k.id = j.id => k = j
      BY <2>4 DEF IInv, Leases, LeasesExact
    <2>7. IdsFresh'
      BY <2>4 DEF IInv, Leases, IdsFresh, ReleaseExtent
    <2>. QED BY Zenon, <2>1, <2>4, <2>5, <2>6, <2>7 DEF Leases, LeasesExact
  <1>12. Counters'
    <2>1. next_lease_id' \in 0 .. LastLeaseId
      BY DEF ReleaseExtent, IInv, Counters
    <2>2. free_bytes' \in Nat /\ leased_bytes' \in Nat
      BY <1>0, <1>1 DEF SaturatingSub, IInv, Counters
    <2>3. answer'.kind = "ok"
      BY DEF ReleaseExtent, Said
    <2>4. tight' \in BOOLEAN
      BY Zenon DEF ReleaseExtent, IInv, Counters
    <2>. QED BY <2>1, <2>2, <2>3, <2>4 DEF Counters
  <1>. QED BY <1>9, <1>10, <1>11, <1>12 DEF IInv

\* Every step keeps the inductive invariant.
LEMMA NextIInv == IInv /\ [Next]_vars => IInv'
  <1>. SUFFICES ASSUME IInv, [Next]_vars PROVE IInv'
    OBVIOUS
  <1>1. CASE UNCHANGED vars
    <2>1. answer'.kind \in {"none", "ok", "invalid_request", "capacity_exhausted",
                            "metadata_exhausted"}
      BY <1>1 DEF vars, IInv, Counters
    <2>. QED BY <1>1, <2>1, RefusalKeeps DEF vars
  <1>2. ASSUME NEW q \in Requests, AcquireInvalid(q) PROVE IInv'
    BY <1>2, RefusalKeeps DEF AcquireInvalid, Refuse, Said
  <1>3. ASSUME NEW q \in Requests, AcquireNoRoom(q) PROVE IInv'
    BY <1>3, RefusalKeeps DEF AcquireNoRoom, Refuse, Said
  <1>4. ASSUME NEW q \in Requests, AcquireNoId(q) PROVE IInv'
    BY <1>4, RefusalKeeps DEF AcquireNoId, Refuse, Said
  <1>5. ASSUME NEW q \in Requests, AcquireNoSlot(q) PROVE IInv'
    BY <1>5, RefusalKeeps DEF AcquireNoSlot, Refuse, Said
  <1>6. ASSUME NEW q \in Requests, AcquireExtent(q) PROVE IInv'
    BY <1>6, AcquireKeeps
  <1>7. ASSUME NEW l \in held, ReleaseExtent(l) PROVE IInv'
    BY <1>7, ReleaseKeeps
  <1>. QED BY <1>1, <1>2, <1>3, <1>4, <1>5, <1>6, <1>7 DEF Next, Acquire

\* The pool's records, counters and leases keep their types.
THEOREM TypeCorrect == Spec => []TypeOK
  BY InitIInv, NextIInv, IInvSays, PTL DEF Spec

\* acquire_extent and release_extent never lose a byte of a member nor give one
\* out twice.
THEOREM TilingKept == Spec => []Tiled
  BY InitIInv, NextIInv, IInvSays, PTL DEF Spec

\* Every lease a caller holds has its own record and its own id.
THEOREM LeasesKept == Spec => []LeasesExact
  BY InitIInv, NextIInv, IInvSays, PTL DEF Spec

\* No two free records of a member touch after any call.
THEOREM CoalescedKept == Spec => []Coalesced
  BY InitIInv, NextIInv, IInvSays, PTL DEF Spec

\* Tiled, coalesced records without a lease among them are one per member.
LEMMA WholeWhenDrained == IInv => DrainedIsWhole
  <1>. SUFFICES ASSUME IInv, held = {}, NEW m \in Members
       PROVE \E e \in extents :
            /\ \A f \in extents : f.member = m => f = e
            /\ e.member = m /\ e.offset = Usable[m].offset /\ e.len = Usable[m].len /\ Free(e)
    BY DEF DrainedIsWhole
  <1>. DEFINE u == Usable[m]
  <1>0. u.offset \in Nat /\ u.len \in Nat \ {0} /\ End(u) \in Nat /\ End(u) = u.offset + u.len
    BY PoolAssumption DEF End
  <1>. HIDE DEF u
  <1>1. \A e \in extents : /\ Free(e) /\ e.offset \in Nat /\ e.len \in Nat \ {0}
                           /\ End(e) \in Nat /\ End(e) = e.offset + e.len
    BY DEF IInv, Leases, LeasesExact, Shape, Extent, End
  <1>2. \A b \in Nat : At(extents, m, b) <=> u.offset <= b /\ b < End(u)
    BY DEF IInv, Shape, Covers, u
  <1>3. PICK e \in extents : e.member = m /\ e.offset <= u.offset /\ u.offset < End(e)
    BY <1>0, <1>2 DEF At
  <1>4. e.offset = u.offset
    <2>1. At(extents, m, e.offset)
      BY <1>1, <1>3 DEF At
    <2>. QED BY <2>1, <1>0, <1>1, <1>2, <1>3
  <1>5. End(e) <= End(u)
    <2>1. End(e) - 1 \in Nat /\ e.offset <= End(e) - 1 /\ End(e) - 1 < End(e)
      BY <1>1
    <2>2. At(extents, m, End(e) - 1)
      BY <2>1, <1>3 DEF At
    <2>3. End(e) - 1 < End(u)
      BY <2>1, <2>2, <1>2
    <2>. QED BY <2>3, <1>0, <1>1
  <1>6. End(e) = End(u)
    <2>1. ASSUME End(e) < End(u) PROVE FALSE
      <3>1. At(extents, m, End(e))
        BY <2>1, <1>0, <1>1, <1>2, <1>4
      <3>2. PICK f \in extents : f.member = m /\ f.offset <= End(e) /\ End(e) < End(f)
        BY <3>1 DEF At
      <3>3. f # e /\ Clear(e, f) /\ ~Touches(e, f)
        BY <3>2, <1>1 DEF IInv, Shape, Apart, Coalesced
      <3>. QED BY <3>2, <3>3, <1>1, <1>3 DEF Clear, Touches
    <2>. QED BY <2>1, <1>0, <1>1, <1>5
  <1>7. ASSUME NEW f \in extents, f.member = m PROVE f = e
    <2>1. At(extents, m, f.offset)
      BY <1>7, <1>1 DEF At
    <2>2. u.offset <= f.offset /\ f.offset < End(u)
      BY <2>1, <1>1, <1>2
    <2>3. ~Clear(e, f)
      BY <2>2, <1>1, <1>3, <1>4, <1>6, <1>7, <1>0 DEF Clear
    <2>. QED BY <2>3 DEF IInv, Shape, Apart
  <1>8. e.len = u.len
    BY <1>0, <1>1, <1>4, <1>6
  <1>. QED BY <1>1, <1>3, <1>4, <1>7, <1>8 DEF u

\* When every lease has been released each member is one free record again.
THEOREM DrainedPoolIsWhole == Spec => []DrainedIsWhole
  BY InitIInv, NextIInv, WholeWhenDrained, PTL DEF Spec

-----------------------------------------------------------------------------
(* Refusals are honest.                                                    *)

\* Multiples of a positive number are at least that number apart.
LEMMA MultiplesApart ==
  ASSUME NEW a \in Nat \ {0}, NEW d \in Int, NEW k \in Int, d > k
  PROVE  a * d >= a * k + a
  <1>1. d - k - 1 \in Nat
    OBVIOUS
  <1>2. a * (d - k - 1) >= 0
    BY <1>1
  <1>3. a * (d - k - 1) = a * d - a * k - a
    OBVIOUS
  <1>. QED BY <1>2, <1>3

\* align_up gives the first aligned address: none lies between.
LEMMA AlignUpIsFirst ==
  ASSUME NEW v \in Nat, NEW w \in Nat, NEW a \in Nat \ {0}, v <= w, w % a = 0
  PROVE  AlignUp(v, a) <= w
  <1>. DEFINE top == v + (a - 1)
              d == top \div a
              k == w \div a
  <1>1. top \in Nat
    OBVIOUS
  <1>2. d \in Int /\ top % a \in 0 .. a - 1 /\ top = a * d + (top % a)
    <2>. HIDE DEF top
    <2>. QED BY <1>1
  <1>3. k \in Int /\ w = a * k
    <2>1. w = a * k + (w % a)
      OBVIOUS
    <2>2. k \in Int /\ a * k \in Int
      OBVIOUS
    <2>. QED BY <2>1, <2>2
  <1>4. d <= k
    <2>1. ASSUME d > k PROVE FALSE
      <3>1. a * d >= a * k + a
        BY <2>1, <1>2, <1>3, MultiplesApart
      <3>2. a * d <= top
        <4>1. a * d \in Int /\ top % a \in Nat
          BY <1>2
        <4>. HIDE DEF d, top
        <4>. QED BY <4>1, <1>1, <1>2
      <3>3. a * d \in Int /\ a * k \in Int
        BY <1>2, <1>3
      <3>. HIDE DEF d, k
      <3>. QED BY <3>1, <3>2, <3>3, <1>3
    <2>. HIDE DEF d, k
    <2>. QED BY <2>1, <1>2, <1>3
  <1>5. a * d <= a * k
    <2>. HIDE DEF d, k
    <2>1. CASE d = k
      BY <2>1, <1>2, <1>3
    <2>2. CASE k > d
      <3>1. a * k >= a * d + a
        BY <2>2, <1>2, <1>3, MultiplesApart
      <3>2. a * d \in Int /\ a * k \in Int
        BY <1>2, <1>3
      <3>. QED BY <3>1, <3>2
    <2>. QED BY <2>1, <2>2, <1>4, <1>2, <1>3
  <1>6. AlignUp(v, a) = top - (top % a)
    BY DEF AlignUp
  <1>. QED
    <2>1. a * d \in Int /\ top % a \in Int
      BY <1>2
    <2>. HIDE DEF top, d, k
    <2>. QED BY <2>1, <1>1, <1>2, <1>3, <1>5, <1>6

\* A run of free bytes lies in one record, so a long enough aligned run fits it.
LEMMA NoRoomMeansNoRun ==
  ASSUME IInv, NEW q \in Requests, ValidRequest(q), Fits(q) = {},
         NEW m \in Members, NEW at \in Usable[m].offset .. End(Usable[m]) - 1,
         (Base[m] + at) % q.align = 0
  PROVE  \E b \in {m} \X (at .. at + q.len - 1) : \A e \in extents : Free(e) => b \notin Bytes(e)
  <1>0. /\ at \in Nat /\ q.len \in Nat \ {0} /\ q.align \in Nat \ {0} /\ Base[m] \in Nat
    BY PoolAssumption DEF ValidRequest, End
  <1>1. \A e \in extents : /\ e \in Extent /\ e.offset \in Nat /\ e.len \in Nat \ {0}
                           /\ e.member \in Members
                           /\ End(e) \in Nat /\ End(e) = e.offset + e.len
    BY DEF IInv, Shape, Extent, End
  <1>2. SUFFICES ASSUME \A b \in {m} \X (at .. at + q.len - 1) :
                          \E e \in extents : Free(e) /\ b \in Bytes(e)
        PROVE FALSE
    OBVIOUS
  <1>3. ASSUME NEW b \in at .. at + q.len - 1
        PROVE  \E e \in extents : Free(e) /\ e.member = m /\ e.offset <= b /\ b < End(e)
    <2>1. <<m, b>> \in {m} \X (at .. at + q.len - 1)
      OBVIOUS
    <2>2. PICK e \in extents : Free(e) /\ <<m, b>> \in Bytes(e)
      BY <2>1, <1>2
    <2>3. e.member = m /\ b \in e.offset .. End(e) - 1
      BY <2>2 DEF Bytes
    <2>. QED BY <2>2, <2>3, <1>0, <1>1
  <1>4. PICK e \in extents : Free(e) /\ e.member = m /\ e.offset <= at /\ at < End(e)
    <2>1. at \in at .. at + q.len - 1
      BY <1>0
    <2>. QED BY <2>1, <1>3
  <1>5. at + q.len <= End(e)
    <2>1. ASSUME End(e) < at + q.len PROVE FALSE
      <3>1. End(e) \in at .. at + q.len - 1
        BY <2>1, <1>0, <1>1, <1>4
      <3>2. PICK f \in extents : Free(f) /\ f.member = m /\ f.offset <= End(e) /\ End(e) < End(f)
        BY <3>1, <1>3
      <3>3. f # e /\ Clear(e, f) /\ ~Touches(e, f)
        BY <3>2, <1>1, <1>4 DEF IInv, Shape, Apart, Coalesced
      <3>. QED BY <3>2, <3>3, <1>1, <1>4 DEF Clear, Touches
    <2>. QED BY <2>1, <1>0, <1>1
  <1>6. AlignUp(Base[m] + e.offset, q.align) <= Base[m] + at
    <2>1. Base[m] + e.offset \in Nat /\ Base[m] + at \in Nat
          /\ Base[m] + e.offset <= Base[m] + at
      BY <1>0, <1>1, <1>4
    <2>. QED BY <2>1, <1>0, AlignUpIsFirst
  <1>7. AlignUp(Base[m] + e.offset, q.align) \in Int
    <2>1. Base[m] + e.offset + (q.align - 1) \in Nat
      BY <1>0, <1>1
    <2>. QED BY <2>1, <1>0 DEF AlignUp
  <1>8. Prefix(e, q) + q.len <= e.len
    BY <1>0, <1>1, <1>4, <1>5, <1>6, <1>7 DEF Prefix
  <1>9. e \in Fits(q)
    BY <1>4, <1>8 DEF Fits
  <1>. QED BY <1>9

\* Outside tight-front pools the candidate has the least cost of all that fit.
LEMMA CandidateIsCheapest ==
  ASSUME extents \in SUBSET Extent, NEW q \in Requests, ValidRequest(q), ~tight,
         NEW e \in extents, Candidate(e, q), NEW f \in Fits(q)
  PROVE  Cost(e, q) <= Cost(f, q)
  <1>1. Cost(e, q) \in Nat /\ Cost(f, q) \in Nat
    BY DEF Cost
  <1>2. CASE f = e
    BY <1>1, <1>2
  <1>3. CASE f # e
    <2>1. PICK i \in DOMAIN Rank(e, q) :
            Rank(e, q)[i] < Rank(f, q)[i] /\ \A j \in 1 .. i - 1 : Rank(e, q)[j] = Rank(f, q)[j]
      BY <1>3 DEF Candidate, Before
    <2>2. i \in 1 .. 6 /\ Rank(e, q)[1] = Cost(e, q) /\ Rank(f, q)[1] = Cost(f, q)
      BY DEF Rank
    <2>3. CASE i = 1
      BY <2>1, <2>2, <2>3, <1>1
    <2>4. CASE i # 1
      <3>1. 1 \in 1 .. i - 1
        BY <2>2, <2>4
      <3>. QED BY <3>1, <2>1, <2>2, <1>1
    <2>. QED BY <2>3, <2>4
  <1>. QED BY <1>2, <1>3

\* Both refusals are honest in the step that gives them, and a later step
\* replaces the answer.
LEMMA NextHonest == IInv /\ RefusalsHonest /\ [Next]_vars => RefusalsHonest'
  <1>. SUFFICES ASSUME IInv, RefusalsHonest, [Next]_vars PROVE RefusalsHonest'
    OBVIOUS
  <1>1. CASE UNCHANGED vars
    BY <1>1 DEF vars, RefusalsHonest, CapacityHonest, MetadataHonest, Fits, Vacant
  <1>2. ASSUME NEW q \in Requests, AcquireInvalid(q) \/ AcquireExtent(q)
        PROVE  RefusalsHonest'
    <2>1. answer'.kind \notin {"capacity_exhausted", "metadata_exhausted"}
      BY <1>2 DEF AcquireInvalid, AcquireExtent, Refuse, Said
    <2>. QED BY <2>1 DEF RefusalsHonest, CapacityHonest, MetadataHonest
  <1>3. ASSUME NEW l \in held, ReleaseExtent(l) PROVE RefusalsHonest'
    <2>1. answer'.kind \notin {"capacity_exhausted", "metadata_exhausted"}
      BY <1>3 DEF ReleaseExtent, Said
    <2>. QED BY <2>1 DEF RefusalsHonest, CapacityHonest, MetadataHonest
  <1>4. ASSUME NEW q \in Requests, AcquireNoRoom(q) PROVE RefusalsHonest'
    <2>1. /\ answer'.kind = "capacity_exhausted" /\ answer'.request = q
          /\ extents' = extents /\ ValidRequest(q) /\ Fits(q) = {}
      BY <1>4 DEF AcquireNoRoom, Refuse, Said
    <2>2. CapacityHonest'
      BY <2>1, NoRoomMeansNoRun DEF CapacityHonest
    <2>3. MetadataHonest'
      BY <2>1 DEF MetadataHonest
    <2>. QED BY <2>2, <2>3 DEF RefusalsHonest
  <1>5. ASSUME NEW q \in Requests, AcquireNoSlot(q) PROVE RefusalsHonest'
    <2>1. /\ answer'.kind = "metadata_exhausted" /\ answer'.request = q
          /\ extents' = extents /\ tight' = tight /\ ValidRequest(q)
      BY <1>5 DEF AcquireNoSlot, Refuse, Said
    <2>2. PICK e \in extents : Candidate(e, q) /\ Cost(e, q) > Cardinality(Vacant)
      BY <1>5 DEF AcquireNoSlot
    <2>3. extents \in SUBSET Extent
      BY DEF IInv, Shape
    <2>4. Cardinality(Vacant) \in Nat
      <3>1. EXTENTS - 1 \in Int /\ 0 \in Int
        BY PoolAssumption
      <3>2. IsFiniteSet(Slots)
        BY <3>1, FS_Interval DEF Slots
      <3>3. Vacant \in SUBSET Slots
        BY DEF Vacant
      <3>4. IsFiniteSet(Vacant)
        BY <3>2, <3>3, FS_Subset
      <3>. QED BY <3>4, FS_CardinalityType
    <2>5. ASSUME ~tight, NEW f \in Fits(q) PROVE Cost(f, q) > Cardinality(Vacant)
      <3>1. Cost(e, q) <= Cost(f, q)
        BY <2>1, <2>2, <2>3, <2>5, CandidateIsCheapest
      <3>2. Cost(e, q) \in Nat /\ Cost(f, q) \in Nat
        BY DEF Cost
      <3>. QED BY <3>1, <3>2, <2>2, <2>4
    <2>6. Fits(q)' = Fits(q) /\ Vacant' = Vacant
      BY <2>1 DEF Fits, Vacant
    <2>7. MetadataHonest'
      BY <2>1, <2>5, <2>6 DEF MetadataHonest, Fits, Vacant
    <2>8. CapacityHonest'
      BY <2>1 DEF CapacityHonest
    <2>. QED BY <2>7, <2>8 DEF RefusalsHonest
  <1>6. ASSUME NEW q \in Requests, AcquireNoId(q) PROVE RefusalsHonest'
    <2>1. answer'.kind = "metadata_exhausted" /\ next_lease_id' = 0
      BY <1>6 DEF AcquireNoId, Refuse, Said
    <2>. QED BY <2>1 DEF RefusalsHonest, CapacityHonest, MetadataHonest
  <1>. QED BY <1>1, <1>2, <1>3, <1>4, <1>5, <1>6 DEF Next, Acquire

\* Before the first call nothing has been refused.
LEMMA InitHonest == Init => RefusalsHonest
  BY DEF Init, RefusalsHonest, CapacityHonest, MetadataHonest, Said

\* capacity_exhausted is only returned when no aligned run of free bytes is long
\* enough, and, outside tight-front pools, metadata_exhausted only when the lease
\* ids have run out or no record that fits could be split with the vacant slots.
THEOREM HonestRefusals == Spec => []RefusalsHonest
  BY InitIInv, NextIInv, InitHonest, NextHonest, PTL DEF Spec

-----------------------------------------------------------------------------
(* Byte accounting.                                                        *)

BytesOf(X) == UNION {Bytes(e) : e \in X}
FreeOf(X) == {e \in X : Free(e)}
LeasedOf(X) == {e \in X : ~Free(e)}

\* The bytes of records, as pairs and as intervals.
LEMMA BytesAreAt ==
  ASSUME NEW X \in SUBSET Extent
  PROVE  /\ BytesOf(X) \in SUBSET (Members \X Nat)
         /\ \A m \in Members, b \in Nat : <<m, b>> \in BytesOf(X) <=> At(X, m, b)
  <1>1. ASSUME NEW m \in Members, NEW b \in Nat, NEW e \in X
        PROVE  <<m, b>> \in Bytes(e) <=> e.member = m /\ e.offset <= b /\ b < End(e)
    BY DEF Bytes, Extent, End
  <1>2. BytesOf(X) \in SUBSET (Members \X Nat)
    BY DEF BytesOf, Bytes, Extent, End
  <1>. QED BY <1>1, <1>2 DEF BytesOf, At

\* A record has as many bytes as its length says.
LEMMA RecordSize ==
  ASSUME NEW e \in Extent
  PROVE  IsFiniteSet(BytesOf({e})) /\ Cardinality(BytesOf({e})) = e.len
  <1>1. /\ e.offset \in Int /\ End(e) - 1 \in Int /\ e.len \in Nat \ {0}
        /\ End(e) - 1 >= e.offset /\ End(e) - 1 - e.offset + 1 = e.len
    BY DEF Extent, End
  <1>. DEFINE I == e.offset .. End(e) - 1
  <1>2. IsFiniteSet(I) /\ Cardinality(I) = e.len
    BY <1>1, FS_Interval
  <1>3. IsFiniteSet({e.member}) /\ Cardinality({e.member}) = 1
    BY Zenon, FS_Singleton
  <1>. HIDE DEF I
  <1>4. IsFiniteSet({e.member} \X I) /\ Cardinality({e.member} \X I) = 1 * e.len
    BY <1>2, <1>3, FS_Product
  <1>5. BytesOf({e}) = {e.member} \X I
    BY DEF BytesOf, Bytes, I
  <1>. QED BY <1>1, <1>4, <1>5

\* A table whose free bytes lose a record's and whose leased bytes gain them
\* (or the other way round) moves that record's length between the counters.
LEMMA MovedBytes ==
  ASSUME NEW X \in SUBSET Extent, NEW Y \in SUBSET Extent, NEW r \in Extent,
         IsFiniteSet(BytesOf(X)),
         \A m \in Members, b \in Nat : At({r}, m, b) => At(X, m, b),
         \A m \in Members, b \in Nat : At(Y, m, b) <=> At(X, m, b) /\ ~At({r}, m, b)
  PROVE  /\ IsFiniteSet(BytesOf(Y))
         /\ Cardinality(BytesOf(X)) \in Nat /\ Cardinality(BytesOf(Y)) \in Nat
         /\ Cardinality(BytesOf(X)) = Cardinality(BytesOf(Y)) + r.len
  <1>. DEFINE A == BytesOf(X)
              B == BytesOf(Y)
              C == BytesOf({r})
  <1>1. /\ A \in SUBSET (Members \X Nat) /\ B \in SUBSET (Members \X Nat)
        /\ C \in SUBSET (Members \X Nat)
    BY BytesAreAt
  <1>2. \A m \in Members, b \in Nat :
          /\ <<m, b>> \in B <=> <<m, b>> \in A \ C
          /\ <<m, b>> \in C <=> <<m, b>> \in A \cap C
    BY Zenon, BytesAreAt
  <1>3. IsFiniteSet(C) /\ Cardinality(C) = r.len /\ r.len \in Nat
    BY RecordSize DEF Extent
  <1>. HIDE DEF A, B, C
  <1>4. B = A \ C
    <2>1. A \ C \in SUBSET (Members \X Nat)
      BY <1>1
    <2>. QED BY <1>1, <1>2, <2>1, SamePairs
  <1>5. A \cap C = C
    <2>1. A \cap C \in SUBSET (Members \X Nat)
      BY <1>1
    <2>. QED BY <1>1, <1>2, <2>1, SamePairs
  <1>6. IsFiniteSet(A)
    BY DEF A
  <1>7. IsFiniteSet(B) /\ Cardinality(B) = Cardinality(A) - Cardinality(C)
    BY ZenonT(90), <1>4, <1>5, <1>6, FS_Difference
  <1>8. Cardinality(A) \in Nat /\ Cardinality(B) \in Nat
    BY <1>6, <1>7, FS_CardinalityType
  <1>. QED BY <1>3, <1>7, <1>8 DEF A, B, C

\* Any part of a tiled table has finitely many bytes.
LEMMA PartFinite ==
  ASSUME NEW Z \in SUBSET Extent, Covers(Z), NEW X \in SUBSET Z
  PROVE  IsFiniteSet(BytesOf(X))
  <1>1. UsableBytes \in SUBSET (Members \X Nat)
    BY PoolAssumption DEF UsableBytes, End
  <1>2. \A m \in Members, b \in Nat :
           Usable[m].offset <= b /\ b < End(Usable[m]) <=> <<m, b>> \in UsableBytes
    BY PoolAssumption DEF UsableBytes, End
  <1>3. /\ BytesOf(Z) \in SUBSET (Members \X Nat)
        /\ \A m \in Members, b \in Nat : <<m, b>> \in BytesOf(Z) <=> At(Z, m, b)
    BY BytesAreAt
  <1>4. BytesOf(Z) = UsableBytes
    <2>1. \A m \in Members, b \in Nat : <<m, b>> \in BytesOf(Z) <=> <<m, b>> \in UsableBytes
      BY Zenon, <1>2, <1>3 DEF Covers
    <2>2. BytesOf(Z) \in SUBSET (Members \X Nat)
      BY <1>3
    <2>3. BytesOf(Z) = UsableBytes <=>
            \A m \in Members, b \in Nat : <<m, b>> \in BytesOf(Z) <=> <<m, b>> \in UsableBytes
      BY <2>2, <1>1, SamePairs
    <2>. QED BY <2>1, <2>3
  <1>5. BytesOf(X) \in SUBSET BytesOf(Z)
    BY DEF BytesOf
  <1>. QED BY <1>4, <1>5, UsableFinite, FS_Subset

\* A byte lies in a record or in the others, never in both.
LEMMA OneRecordAt ==
  ASSUME NEW X \in SUBSET Extent, Apart(X), NEW e \in X, NEW m \in Members, NEW b \in Nat
  PROVE  /\ At(X, m, b) <=> At(X \ {e}, m, b) \/ At({e}, m, b)
         /\ ~(At(X \ {e}, m, b) /\ At({e}, m, b))
  <1>1. At(X, m, b) <=> At(X \ {e}, m, b) \/ At({e}, m, b)
    BY DEF At
  <1>2. ASSUME NEW f \in X \ {e}, f.member = m, f.offset <= b, b < End(f),
               e.member = m, e.offset <= b, b < End(e)
        PROVE  FALSE
    <2>1. Clear(e, f) /\ e.offset \in Nat /\ f.offset \in Nat /\ e.len \in Nat /\ f.len \in Nat
      BY DEF Apart, Extent
    <2>. QED BY <2>1, <1>2 DEF Clear, End
  <1>. QED BY <1>1, <1>2 DEF At

\* BytesExact in these words.
LEMMA BytesExactSays ==
  BytesExact <=> /\ free_bytes = Cardinality(BytesOf(FreeOf(extents)))
                 /\ leased_bytes = Cardinality(BytesOf(LeasedOf(extents)))
  BY DEF BytesExact, BytesOf, FreeOf, LeasedOf

\* An acquisition moves its length from free_bytes to leased_bytes.
LEMMA AcquireBytes ==
  ASSUME IInv, IInv', BytesExact, NEW q \in Requests, AcquireExtent(q)
  PROVE  BytesExact'
  <1>0. PICK e \in extents :
          /\ Candidate(e, q) /\ Cost(e, q) <= Cardinality(Vacant)
          /\ extents' = (extents \ {e}) \cup {Leased(e, q)} \cup FrontPiece(e, q) \cup BackPiece(e, q)
    BY DEF AcquireExtent
  <1>. DEFINE P == Pieces(e, q)
              l == Leased(e, q)
              F == FreeOf(extents)
              L == LeasedOf(extents)
              G == FreeOf(extents')
              K == LeasedOf(extents')
  <1>1. /\ extents \in SUBSET Extent /\ Apart(extents) /\ Covers(extents)
        /\ next_lease_id \in 1 .. LastLeaseId
    BY PoolAssumption DEF IInv, Shape, Counters, AcquireExtent
  <1>2. extents' \in SUBSET Extent /\ Apart(extents') /\ Covers(extents')
    BY DEF IInv, Shape, Apart, Covers, At
  <1>3. e \in Fits(q) /\ ValidRequest(q)
    BY <1>0 DEF Candidate, AcquireExtent
  <1>4. extents' = (extents \ {e}) \cup P
    BY <1>0 DEF Pieces
  <1>5. /\ P \in SUBSET Extent /\ Apart(P)
        /\ \A m \in Members, b \in Nat : At(P, m, b) <=> At({e}, m, b)
    BY <1>0, <1>1, <1>3, SplitTiles
  <1>6. Free(e) /\ e \in Extent /\ q.len \in Nat \ {0}
    BY <1>1, <1>3, SplitAddsUp
  <1>7. l \in P /\ l.len = q.len /\ ~Free(l) /\ l \in Extent
    <2>1. l \in P
      BY DEF Pieces
    <2>. QED BY <2>1, <1>1, <1>5, <1>6 DEF Leased, Extent, Free
  <1>8. \A g \in P \ {l} : Free(g)
    BY DEF Pieces, FrontPiece, BackPiece, Free
  <1>. HIDE DEF P, l
  <1>9. G = (F \ {e}) \cup (P \ {l}) /\ e \in F /\ F \in SUBSET extents /\ G \in SUBSET extents'
    BY <1>4, <1>6, <1>7, <1>8 DEF FreeOf
  <1>10. K \ {l} = L /\ l \in K /\ K \in SUBSET extents' /\ L \in SUBSET extents
    <2>1. l \notin L
      <3>1. LeaseOf(l).id = next_lease_id
        BY <1>6 DEF LeaseOf, Leased, l, Extent
      <3>. QED BY <3>1, <1>1 DEF IInv, Leases, LeasesExact, IdsFresh, Lease, LeasedOf
    <2>. QED BY <2>1, <1>4, <1>6, <1>7, <1>8 DEF LeasedOf
  <1>. HIDE DEF F, L, G, K
  <1>11. F \in SUBSET Extent /\ Apart(F) /\ K \in SUBSET Extent /\ Apart(K)
         /\ L \in SUBSET Extent /\ G \in SUBSET Extent
    BY <1>1, <1>2, <1>9, <1>10 DEF Apart
  <1>12. ASSUME NEW m \in Members, NEW b \in Nat
         PROVE  /\ At({l}, m, b) => At(F, m, b)
                /\ At(G, m, b) <=> At(F, m, b) /\ ~At({l}, m, b)
    <2>1. /\ At(F, m, b) <=> At(F \ {e}, m, b) \/ At({e}, m, b)
          /\ ~(At(F \ {e}, m, b) /\ At({e}, m, b))
      BY <1>9, <1>11, OneRecordAt
    <2>2. /\ At(P, m, b) <=> At(P \ {l}, m, b) \/ At({l}, m, b)
          /\ ~(At(P \ {l}, m, b) /\ At({l}, m, b))
      BY <1>5, <1>7, OneRecordAt
    <2>3. At(G, m, b) <=> At(F \ {e}, m, b) \/ At(P \ {l}, m, b)
      BY <1>9 DEF At
    <2>. QED BY <2>1, <2>2, <2>3, <1>5
  <1>13. ASSUME NEW m \in Members, NEW b \in Nat
         PROVE  /\ At({l}, m, b) => At(K, m, b)
                /\ At(L, m, b) <=> At(K, m, b) /\ ~At({l}, m, b)
    <2>1. /\ At(K, m, b) <=> At(K \ {l}, m, b) \/ At({l}, m, b)
          /\ ~(At(K \ {l}, m, b) /\ At({l}, m, b))
      BY <1>10, <1>11, OneRecordAt
    <2>. QED BY <2>1, <1>10
  <1>14. IsFiniteSet(BytesOf(F)) /\ IsFiniteSet(BytesOf(K))
    BY <1>1, <1>2, <1>9, <1>10, PartFinite
  <1>15. /\ Cardinality(BytesOf(F)) \in Nat /\ Cardinality(BytesOf(G)) \in Nat
         /\ Cardinality(BytesOf(F)) = Cardinality(BytesOf(G)) + l.len
    BY ZenonT(30), <1>7, <1>11, <1>12, <1>14, MovedBytes
  <1>16. /\ Cardinality(BytesOf(K)) \in Nat /\ Cardinality(BytesOf(L)) \in Nat
         /\ Cardinality(BytesOf(K)) = Cardinality(BytesOf(L)) + l.len
    BY ZenonT(30), <1>7, <1>11, <1>13, <1>14, MovedBytes
  <1>17. free_bytes = Cardinality(BytesOf(F)) /\ leased_bytes = Cardinality(BytesOf(L))
    BY BytesExactSays DEF F, L
  <1>18. free_bytes' = Cardinality(BytesOf(G)) /\ leased_bytes' = Cardinality(BytesOf(K))
    BY <1>6, <1>7, <1>15, <1>16, <1>17 DEF AcquireExtent, SaturatingSub
  <1>. QED BY <1>18 DEF BytesExact, BytesOf, FreeOf, LeasedOf, G, K

\* A release moves the record's length back.
LEMMA ReleaseBytes ==
  ASSUME IInv, IInv', BytesExact, NEW k \in held, ReleaseExtent(k)
  PROVE  BytesExact'
  <1>0. PICK e \in extents :
          /\ Matches(e, k) /\ extents' = AfterRelease(e)
          /\ free_bytes' = free_bytes + e.len
          /\ leased_bytes' = SaturatingSub(leased_bytes, e.len)
    BY DEF ReleaseExtent
  <1>. DEFINE A == Absorbed(e)
              M == Merged(e)
              F == FreeOf(extents)
              L == LeasedOf(extents)
              G == FreeOf(extents')
              K == LeasedOf(extents')
  <1>1. /\ extents \in SUBSET Extent /\ Apart(extents) /\ Covers(extents) /\ ~Free(e)
        /\ e \in Extent /\ e.len \in Nat
    BY <1>0 DEF IInv, Shape, Matches, Extent
  <1>2. extents' \in SUBSET Extent /\ Apart(extents') /\ Covers(extents')
    BY DEF IInv, Shape, Apart, Covers, At
  <1>3. extents' = (extents \ ({e} \cup A)) \cup {M}
    BY <1>0 DEF AfterRelease
  <1>4. A \in SUBSET F
    BY DEF Absorbed, FreeOf
  <1>5. Free(M)
    BY <1>1, MergedShape DEF Free
  <1>6. \A m \in Members, b \in Nat : At({M}, m, b) <=> At({e} \cup A, m, b)
    BY <1>1, MergeTiles
  <1>. HIDE DEF A, M
  <1>7. G = (F \ A) \cup {M} /\ F \in SUBSET extents /\ G \in SUBSET extents'
    BY <1>1, <1>3, <1>5 DEF FreeOf
  <1>8. K = L \ {e} /\ e \in L /\ L \in SUBSET extents
    BY <1>1, <1>3, <1>4, <1>5 DEF LeasedOf, FreeOf
  <1>9. e \notin F
    BY <1>1 DEF FreeOf
  <1>. HIDE DEF F, L, G, K
  <1>10. F \in SUBSET Extent /\ L \in SUBSET Extent /\ Apart(L) /\ G \in SUBSET Extent
         /\ K \in SUBSET Extent /\ F \cup {e} \in SUBSET Extent /\ Apart(F \cup {e})
    BY <1>1, <1>2, <1>7, <1>8 DEF Apart
  <1>11. ASSUME NEW m \in Members, NEW b \in Nat
         PROVE  /\ At({e}, m, b) => At(G, m, b)
                /\ At(F, m, b) <=> At(G, m, b) /\ ~At({e}, m, b)
    <2>0. (F \cup {e}) \ {e} = F
      BY <1>9
    <2>1. ~(At(F, m, b) /\ At({e}, m, b))
      BY <2>0, <1>10, OneRecordAt
    <2>2. At({M}, m, b) <=> At({e}, m, b) \/ At(A, m, b)
      BY <1>6 DEF At
    <2>3. At(F, m, b) <=> At(F \ A, m, b) \/ At(A, m, b)
      BY <1>4 DEF At
    <2>4. At(G, m, b) <=> At(F \ A, m, b) \/ At({M}, m, b)
      BY <1>7 DEF At
    <2>. QED BY <2>1, <2>2, <2>3, <2>4
  <1>12. ASSUME NEW m \in Members, NEW b \in Nat
         PROVE  /\ At({e}, m, b) => At(L, m, b)
                /\ At(K, m, b) <=> At(L, m, b) /\ ~At({e}, m, b)
    <2>1. /\ At(L, m, b) <=> At(L \ {e}, m, b) \/ At({e}, m, b)
          /\ ~(At(L \ {e}, m, b) /\ At({e}, m, b))
      BY <1>8, <1>10, OneRecordAt
    <2>. QED BY <2>1, <1>8
  <1>13. IsFiniteSet(BytesOf(G)) /\ IsFiniteSet(BytesOf(L))
    BY <1>1, <1>2, <1>7, <1>8, PartFinite
  <1>14. /\ Cardinality(BytesOf(G)) \in Nat /\ Cardinality(BytesOf(F)) \in Nat
         /\ Cardinality(BytesOf(G)) = Cardinality(BytesOf(F)) + e.len
    BY ZenonT(30), <1>1, <1>10, <1>11, <1>13, MovedBytes
  <1>15. /\ Cardinality(BytesOf(L)) \in Nat /\ Cardinality(BytesOf(K)) \in Nat
         /\ Cardinality(BytesOf(L)) = Cardinality(BytesOf(K)) + e.len
    BY ZenonT(30), <1>1, <1>10, <1>12, <1>13, MovedBytes
  <1>16. free_bytes = Cardinality(BytesOf(F)) /\ leased_bytes = Cardinality(BytesOf(L))
    BY BytesExactSays DEF F, L
  <1>17. free_bytes' = Cardinality(BytesOf(G)) /\ leased_bytes' = Cardinality(BytesOf(K))
    BY <1>0, <1>1, <1>14, <1>15, <1>16 DEF SaturatingSub
  <1>. QED BY <1>17 DEF BytesExact, BytesOf, FreeOf, LeasedOf, G, K

\* Every step keeps the byte counters exact.
LEMMA NextBytes == IInv /\ IInv' /\ BytesExact /\ [Next]_vars => BytesExact'
  <1>. SUFFICES ASSUME IInv, IInv', BytesExact, [Next]_vars PROVE BytesExact'
    OBVIOUS
  <1>1. CASE UNCHANGED <<extents, free_bytes, leased_bytes>>
    BY <1>1 DEF BytesExact
  <1>2. ASSUME NEW q \in Requests, AcquireExtent(q) PROVE BytesExact'
    BY <1>2, AcquireBytes
  <1>3. ASSUME NEW l \in held, ReleaseExtent(l) PROVE BytesExact'
    BY <1>3, ReleaseBytes
  <1>. QED BY <1>1, <1>2, <1>3
         DEF Next, Acquire, AcquireInvalid, AcquireNoRoom, AcquireNoId, AcquireNoSlot, Refuse, vars

\* from_builder counts every usable byte as free.
LEMMA InitBytes == Init => BytesExact
  <1>. SUFFICES ASSUME Init PROVE BytesExact
    OBVIOUS
  <1>1. IInv
    BY InitIInv
  <1>2. UNION {Bytes(e) : e \in extents} = UsableBytes
    BY <1>1, IInvSays DEF Tiled
  <1>3. FreeOf(extents) = extents /\ LeasedOf(extents) = {}
    BY DEF Init, FreeOf, LeasedOf, Free
  <1>4. Cardinality(BytesOf(LeasedOf(extents))) = 0
    <2>1. BytesOf({}) = {}
      BY DEF BytesOf
    <2>. QED BY <2>1, <1>3, FS_EmptySet
  <1>5. free_bytes = Cardinality(BytesOf(FreeOf(extents))) /\ leased_bytes = 0
    BY Zenon, <1>2, <1>3 DEF BytesOf, Init
  <1>. QED BY <1>4, <1>5, BytesExactSays

\* free_bytes and leased_bytes always count the bytes of the free and of the
\* leased records; the saturating operations never saturate.
THEOREM BytesAccounted == Spec => []BytesExact
  BY InitIInv, NextIInv, InitBytes, NextBytes, PTL DEF Spec

\* The records, the leases out and the byte counters agree after any sequence of
\* acquire_extent and release_extent, and no two free records touch.
THEOREM PoolConsistent == Spec => []Consistent
  BY TilingKept, LeasesKept, BytesAccounted, CoalescedKept, PTL DEF Consistent
=============================================================================
