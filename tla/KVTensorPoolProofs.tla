------------------------- MODULE KVTensorPoolProofs -------------------------
(***************************************************************************)
(* Proofs about KVTensorPool.tla, for any requests, blocks, block size and *)
(* contents.                                                               *)
(***************************************************************************)
EXTENDS KVTensorPool, OrderingProofs, SequenceTheorems, TLAPS

-----------------------------------------------------------------------------
(* Where the entries of a table start *)

LEMMA SizeFacts == BlockSize \in Nat /\ BlockSize >= 1 /\ Slots = 1..BlockSize
  BY PoolAssumption DEF Slots

LEMMA StartSum ==
    ASSUME NEW i \in Nat, NEW k \in Nat \ {0}
    PROVE  Start(i + k) = Start(i + 1) + Start(k)
  BY SizeFacts DEF Start

LEMMA StartNext ==
    ASSUME NEW i \in Nat \ {0}
    PROVE  Start(i + 1) = Start(i) + BlockSize
  BY SizeFacts DEF Start

LEMMA StartFacts ==
    /\ Start(1) = 0
    /\ \A i \in Nat \ {0} : Start(i) \in Nat
    /\ \A i, j \in Nat \ {0} : i < j => Start(i) + BlockSize <= Start(j)
  <1>1. ASSUME NEW n \in Nat PROVE n * BlockSize \in Nat
    BY SizeFacts
  <1>2. \A i \in Nat \ {0} : Start(i) \in Nat
    BY <1>1 DEF Start
  <1>3. ASSUME NEW i \in Nat \ {0}, NEW j \in Nat \ {0}, i < j
        PROVE  Start(i) + BlockSize <= Start(j)
    <2> DEFINE k == j - i
    <2>1. k \in Nat \ {0} /\ j = i + k /\ i \in Nat
      BY <1>3
    <2> HIDE DEF k
    <2>2. Start(j) = Start(i + 1) + Start(k) /\ Start(i + 1) = Start(i) + BlockSize
      BY <2>1, StartSum, StartNext
    <2>3. Start(k) \in Nat /\ Start(i) \in Nat
      BY <1>2, <2>1
    <2>4. QED
      BY <2>2, <2>3, SizeFacts
  <1>4. QED
    BY <1>2, <1>3, SizeFacts DEF Start

\* A position of a sequence lies in one slot of one entry.
LEMMA PositionFacts ==
    ASSUME NEW p \in Nat \ {0}
    PROVE  /\ EntryAt(p) \in Nat \ {0} /\ SlotAt(p) \in Slots
           /\ p = Start(EntryAt(p)) + SlotAt(p)
  <1> DEFINE q == (p - 1) \div BlockSize
             m == (p - 1) % BlockSize
  <1>1. /\ q \in Nat /\ m \in 0..BlockSize - 1
        /\ p - 1 = BlockSize * q + m
    BY SizeFacts
  <1>2. EntryAt(p) = q + 1 /\ SlotAt(p) = m + 1
    BY DEF EntryAt, SlotAt
  <1> HIDE DEF q, m
  <1>3. Start(q + 1) = q * BlockSize
    BY <1>1, SizeFacts DEF Start
  <1>4. QED
    BY <1>1, <1>2, <1>3, SizeFacts

LEMMA PositionUnique ==
    ASSUME NEW i \in Nat \ {0}, NEW j \in Nat \ {0}, NEW s \in Slots, NEW t \in Slots,
           Start(i) + s = Start(j) + t
    PROVE  i = j /\ s = t
  <1>0. /\ s \in Nat /\ t \in Nat /\ 1 <= s /\ s <= BlockSize /\ 1 <= t /\ t <= BlockSize
        /\ Start(i) \in Nat /\ Start(j) \in Nat
    BY StartFacts, SizeFacts
  <1>1. CASE i < j
    <2>1. Start(i) + BlockSize <= Start(j)
      BY <1>1, StartFacts
    <2>2. QED
      BY <1>0, <2>1, SizeFacts
  <1>2. CASE j < i
    <2>1. Start(j) + BlockSize <= Start(i)
      BY <1>2, StartFacts
    <2>2. QED
      BY <1>0, <2>1, SizeFacts
  <1>3. CASE i = j
    BY <1>0, <1>3
  <1>4. QED
    BY <1>1, <1>2, <1>3

\* BlocksFor(n) entries are what n tokens take.
LEMMA BlocksForFacts ==
    ASSUME NEW n \in Nat
    PROVE  /\ BlocksFor(n) \in Nat
           /\ n = 0 => BlocksFor(n) = 0
           /\ n > 0 => BlocksFor(n) > 0 /\ Start(BlocksFor(n)) < n
                                        /\ n <= Start(BlocksFor(n)) + BlockSize
  <1> DEFINE k == (n + BlockSize - 1) \div BlockSize
             m == (n + BlockSize - 1) % BlockSize
  <1>1. /\ k \in Nat /\ m \in 0..BlockSize - 1
        /\ n + BlockSize - 1 = BlockSize * k + m
    BY SizeFacts
  <1>2. BlocksFor(n) = k
    BY DEF BlocksFor
  <1> HIDE DEF k, m
  <1>3. BlockSize * k = IF k = 0 THEN 0 ELSE Start(k) + BlockSize
    BY <1>1, SizeFacts DEF Start
  <1>4. CASE n = 0
    <2>1. CASE k > 0
      <3>1. Start(k) \in Nat
        BY <1>1, <2>1, StartFacts
      <3>2. QED
        BY <1>1, <1>3, <1>4, <2>1, <3>1, SizeFacts
    <2>2. QED
      BY <1>1, <1>2, <1>4, <2>1
  <1>5. CASE n > 0
    <2>1. k > 0
      BY <1>1, <1>3, <1>5, SizeFacts
    <2>2. Start(k) \in Nat
      BY <1>1, <2>1, StartFacts
    <2>3. QED
      BY <1>1, <1>2, <1>3, <1>5, <2>1, <2>2, SizeFacts
  <1>6. QED
    BY <1>1, <1>2, <1>4, <1>5

-----------------------------------------------------------------------------
(* Block tables *)

\* A table for n tokens: no block twice, and only the last entry partly filled.
Shaped(e, n) ==
    /\ \A i, j \in DOMAIN e : e[i].block = e[j].block => i = j
    /\ \A i \in DOMAIN e : i < Len(e) => e[i].tokens = BlockSize
    /\ n = IF e = <<>> THEN 0 ELSE Start(Len(e)) + Last(e).tokens

LEMMA EntryFacts ==
    ASSUME NEW e \in Seq(Entry)
    PROVE  /\ Len(e) \in Nat /\ DOMAIN e = 1..Len(e)
           /\ \A i \in 1..Len(e) : e[i] \in Entry /\ e[i].block \in Blocks
                                   /\ e[i].tokens \in Nat /\ e[i].tokens >= 1
                                   /\ e[i].tokens <= BlockSize
           /\ e # <<>> <=> Len(e) > 0
           /\ e # <<>> => Len(e) \in DOMAIN e /\ Last(e) = e[Len(e)]
  <1>1. Len(e) \in Nat /\ DOMAIN e = 1..Len(e) /\ \A i \in 1..Len(e) : e[i] \in Entry
    OBVIOUS
  <1>2. \A x \in Entry : x.block \in Blocks /\ x.tokens \in Slots
    BY DEF Entry
  <1>3. e # <<>> <=> Len(e) > 0
    OBVIOUS
  <1>4. QED
    BY <1>1, <1>2, <1>3, SizeFacts DEF Last

LEMMA ShapedIntro ==
    ASSUME NEW e \in Seq(Entry), e # <<>>,
           \A i, j \in 1..Len(e) : e[i].block = e[j].block => i = j,
           \A i \in 1..Len(e) : i < Len(e) => e[i].tokens = BlockSize,
           NEW n, n = Start(Len(e)) + e[Len(e)].tokens
    PROVE  Shaped(e, n)
  <1>1. DOMAIN e = 1..Len(e) /\ Last(e) = e[Len(e)]
    BY EntryFacts
  <1>2. QED
    BY <1>1 DEF Shaped

\* The tokens of an entry are among those of the table; the entries before the
\* last are full.
LEMMA EntriesEnd ==
    ASSUME NEW e \in Seq(Entry), NEW n, Shaped(e, n), NEW i \in DOMAIN e
    PROVE  /\ Start(i) \in Nat /\ n \in Nat /\ Start(i) + e[i].tokens <= n
           /\ i < Len(e) => Start(i) + e[i].tokens = Start(i + 1)
           /\ i = Len(e) => Start(i) + e[i].tokens = n
  <1>1. /\ i \in Nat \ {0} /\ i <= Len(e) /\ e # <<>> /\ Len(e) \in Nat \ {0}
        /\ n = Start(Len(e)) + e[Len(e)].tokens
        /\ e[i].tokens \in Nat /\ e[Len(e)].tokens \in Nat
    BY EntryFacts DEF Shaped
  <1>2. Start(i) \in Nat /\ Start(Len(e)) \in Nat
    BY <1>1, StartFacts
  <1>3. CASE i = Len(e)
    BY <1>1, <1>2, <1>3
  <1>4. CASE i < Len(e)
    <2>1. e[i].tokens = BlockSize
      BY <1>4 DEF Shaped
    <2>2. Start(i) + BlockSize <= Start(Len(e)) /\ Start(i + 1) = Start(i) + BlockSize
      BY <1>1, <1>4, StartFacts, StartNext
    <2>3. QED
      BY <1>1, <1>2, <1>4, <2>1, <2>2, SizeFacts
  <1>5. QED
    BY <1>1, <1>3, <1>4, EntryFacts

\* Every token of a sequence is in the view of an entry.
LEMMA PositionsCovered ==
    ASSUME NEW e \in Seq(Entry), NEW n, Shaped(e, n), NEW p \in 1..n, n \in Nat
    PROVE  /\ EntryAt(p) \in DOMAIN e /\ SlotAt(p) \in Slots
           /\ SlotAt(p) <= e[EntryAt(p)].tokens
           /\ p = Start(EntryAt(p)) + SlotAt(p)
  <1> DEFINE i == EntryAt(p)
             s == SlotAt(p)
             m == Len(e)
  <1>1. i \in Nat \ {0} /\ s \in Slots /\ s \in Nat /\ 1 <= s /\ s <= BlockSize /\ p = Start(i) + s
    BY PositionFacts, SizeFacts
  <1>2. e # <<>> /\ m \in DOMAIN e /\ m \in Nat \ {0} /\ DOMAIN e = 1..m
    BY EntryFacts DEF Shaped
  <1> HIDE DEF i, s, m
  <1>3. /\ Start(m) \in Nat /\ Start(m) + e[m].tokens = n
        /\ e[m].tokens \in Nat /\ e[m].tokens <= BlockSize /\ Start(i) \in Nat
    <2>1. Start(m) \in Nat /\ Start(m) + e[m].tokens = n
      BY <1>2, EntriesEnd DEF m
    <2>2. e[m].tokens \in Nat /\ e[m].tokens <= BlockSize
      BY <1>2, EntryFacts
    <2>3. Start(i) \in Nat
      BY <1>1, StartFacts
    <2>4. QED
      BY <2>1, <2>2, <2>3
  <1>4. i <= m
    <2>1. SUFFICES ASSUME m < i PROVE FALSE
      BY <1>1, <1>2
    <2>2. Start(m) + BlockSize <= Start(i)
      BY <1>1, <1>2, <2>1, StartFacts
    <2>3. QED
      BY <1>1, <1>3, <2>2, SizeFacts
  <1>5. i \in DOMAIN e
    BY <1>1, <1>2, <1>4
  <1>6. s <= e[i].tokens
    <2>1. CASE i = m
      BY <1>1, <1>3, <2>1
    <2>2. CASE i < m
      BY <1>1, <1>5, <2>2 DEF Shaped, m
    <2>3. QED
      BY <1>1, <1>2, <1>4, <2>1, <2>2
  <1>7. QED
    BY <1>1, <1>5, <1>6 DEF i, s

LEMMA ConcatAt ==
    ASSUME NEW S, NEW s \in Seq(S), NEW t \in Seq(S)
    PROVE  /\ s \o t \in Seq(S) /\ Len(s \o t) = Len(s) + Len(t)
           /\ Len(s) \in Nat /\ Len(t) \in Nat
           /\ \A i \in 1..Len(s) + Len(t) : (s \o t)[i] = IF i <= Len(s) THEN s[i] ELSE t[i - Len(s)]
  BY ConcatProperties, LenProperties

LEMMA SubSeqFacts ==
    ASSUME NEW S, NEW s \in Seq(S), NEW n \in 0..Len(s)
    PROVE  /\ SubSeq(s, 1, n) \in Seq(S) /\ Len(SubSeq(s, 1, n)) = n
           /\ DOMAIN SubSeq(s, 1, n) = 1..n
           /\ \A k \in 1..n : SubSeq(s, 1, n)[k] = s[k]
  OBVIOUS

LEMMA FrontFacts ==
    ASSUME NEW S, NEW s \in Seq(S), s # <<>>
    PROVE  /\ Front(s) \in Seq(S) /\ Len(Front(s)) = Len(s) - 1
           /\ \A i \in 1..Len(s) - 1 : Front(s)[i] = s[i]
  <1>1. Len(s) - 1 \in 0..Len(s)
    OBVIOUS
  <1>2. QED
    BY <1>1, SubSeqFacts DEF Front

\* What n further tokens put into the partial tail, and what remains.
LEMMA FillFacts ==
    ASSUME NEW e \in Seq(Entry), NEW len, Shaped(e, len), NEW n \in Nat \ {0}
    PROVE  /\ Fill(e, n) \in Nat /\ Fill(e, n) <= n
           /\ PartialTail(e) => /\ e # <<>> /\ Last(e).tokens < BlockSize
                                /\ Last(e).tokens + Fill(e, n) <= BlockSize /\ Fill(e, n) > 0
                                /\ Fill(e, n) < n => Last(e).tokens + Fill(e, n) = BlockSize
           /\ ~PartialTail(e) => /\ Fill(e, n) = 0 /\ len = Start(Len(e) + 1)
                                 /\ \A i \in DOMAIN e : e[i].tokens = BlockSize
           /\ Copies(e) \in {0, 1} /\ (Copies(e) = 1 <=> SharedTail(e))
           /\ SharedTail(e) => PartialTail(e)
           /\ len \in Nat
  <1>1. Copies(e) \in {0, 1} /\ (Copies(e) = 1 <=> SharedTail(e)) /\ (SharedTail(e) => PartialTail(e))
    BY DEF Copies, SharedTail
  <1>2. len \in Nat
    <2>1. CASE e = <<>>
      BY <2>1 DEF Shaped
    <2>2. CASE e # <<>>
      BY <2>2, EntryFacts, EntriesEnd
    <2>3. QED
      BY <2>1, <2>2
  <1>3. CASE PartialTail(e)
    <2>1. /\ e # <<>> /\ Last(e).tokens \in Nat /\ Last(e).tokens < BlockSize
          /\ Last(e).tokens >= 1
      BY <1>3, EntryFacts DEF PartialTail
    <2>2. Fill(e, n) = Lesser(BlockSize - Last(e).tokens, n)
      BY <1>3 DEF Fill
    <2>3. QED
      BY <1>1, <1>2, <1>3, <2>1, <2>2, SizeFacts DEF Lesser
  <1>4. CASE ~PartialTail(e)
    <2>1. Fill(e, n) = 0
      BY <1>4 DEF Fill
    <2>2. CASE e = <<>>
      <3>1. Len(e) = 0 /\ len = 0 /\ DOMAIN e = {}
        BY <2>2 DEF Shaped
      <3>2. QED
        BY <1>1, <1>2, <1>4, <2>1, <3>1, StartFacts
    <2>3. CASE e # <<>>
      <3>1. Last(e).tokens = BlockSize
        BY <1>4, <2>3, EntryFacts, SizeFacts DEF PartialTail
      <3>2. \A i \in DOMAIN e : e[i].tokens = BlockSize
        BY <2>3, <3>1, EntryFacts DEF Shaped
      <3>3. len = Start(Len(e)) + BlockSize /\ Len(e) \in Nat \ {0}
        BY <2>3, <3>1, EntryFacts DEF Shaped
      <3>4. len = Start(Len(e) + 1)
        BY <3>3, StartNext
      <3>5. QED
        BY <1>1, <1>2, <1>4, <2>1, <3>2, <3>4
    <2>4. QED
      BY <2>2, <2>3
  <1>5. QED
    BY <1>3, <1>4

\* The first entry that an append writes to.
FirstWritten(e) == IF PartialTail(e) THEN Len(e) ELSE Len(e) + 1

BlocksFrom(g, a) == {g[i].block : i \in a..Len(g)}

\* The table g of len + n tokens has the entries of e, but for a shared tail,
\* then fresh blocks: c for the copy of that tail and k more.
GrowsTo(e, len, n, fresh, g, k, c) ==
    /\ k \in Nat /\ c \in {0, 1} /\ c <= Len(e)
    /\ g \in Seq(Entry) /\ Len(g) = Len(e) + k /\ g # <<>>
    /\ \A i \in 1..Len(g) : i <= Len(e) - c => g[i].block = e[i].block
    /\ \A i \in 1..Len(g) : i > Len(e) - c =>
         i - (Len(e) - c) \in 1..c + k /\ g[i].block = fresh[i - (Len(e) - c)]
    /\ \A i \in 1..Len(e) : g[i].tokens >= e[i].tokens
    /\ \A i \in 1..Len(g) : i < Len(g) => g[i].tokens = BlockSize
    /\ len + n = Start(Len(g)) + g[Len(g)].tokens
    /\ BlocksOf(Written(e, n, fresh)) = BlocksFrom(g, FirstWritten(e))

LEMMA Reindex ==
    ASSUME NEW i \in Nat, NEW m \in Nat, NEW c \in Nat, NEW k \in Nat, i - m \in 1..k
    PROVE  c + (i - m) = i - (m - c) /\ i - (m - c) \in 1..c + k
  OBVIOUS

\* The table after an append: the blocks are those it had, but for a shared tail,
\* then the fresh ones, and it is a table for so many tokens more.
LEMMA GrownFacts ==
    ASSUME NEW e \in Seq(Entry), NEW len, Shaped(e, len), NEW n \in Nat \ {0},
           NEW fresh \in [1..Copies(e) + BlocksFor(n - Fill(e, n)) -> Blocks],
           NEW g, g = Grown(e, n, fresh),
           NEW k, k = BlocksFor(n - Fill(e, n)),
           NEW c, c = Copies(e)
    PROVE  GrowsTo(e, len, n, fresh, g, k, c)
  <1> USE DEF GrowsTo
  <1> DEFINE m == Len(e)
             f == Fill(e, n)
             rest == n - f
             u == Untouched(e)
             x == Filled(e, n, fresh)
             y == Added(e, n, fresh)
             w == x \o y
  <1>1. /\ m \in Nat /\ f \in Nat /\ f <= n /\ rest \in Nat /\ len \in Nat
        /\ c \in {0, 1} /\ (c = 1 => PartialTail(e)) /\ (c = 1 <=> SharedTail(e))
    BY FillFacts, EntryFacts
  <1>2. /\ k \in Nat /\ (rest = 0 => k = 0)
        /\ rest > 0 => k > 0 /\ Start(k) < rest /\ rest <= Start(k) + BlockSize
    BY <1>1, BlocksForFacts
  <1>3. fresh \in [1..c + k -> Blocks]
    OBVIOUS
  <1>4. y = [j \in 1..k |-> [block |-> fresh[c + j], tokens |-> Lesser(BlockSize, rest - Start(j))]]
    BY DEF Added
  <1>5. g = u \o w
    BY DEF Grown, Written
  <1>6. \A j \in 1..k : Lesser(BlockSize, rest - Start(j)) = IF j < k THEN BlockSize ELSE rest - Start(k)
    <2> SUFFICES ASSUME NEW j \in 1..k
                 PROVE  Lesser(BlockSize, rest - Start(j)) = IF j < k THEN BlockSize ELSE rest - Start(k)
      OBVIOUS
    <2> HIDE DEF rest
    <2>0. j \in Nat \ {0} /\ k \in Nat \ {0} /\ j <= k /\ rest > 0
      BY <1>1, <1>2
    <2>1. Start(j) \in Nat /\ Start(k) \in Nat
      BY <2>0, StartFacts
    <2>2. CASE j < k
      <3>1. Start(j) + BlockSize <= Start(k)
        BY <2>0, <2>2, StartFacts
      <3>2. QED
        BY <1>1, <1>2, <2>0, <2>1, <2>2, <3>1, SizeFacts, SMTT(30) DEF Lesser
    <2>3. CASE j = k
      BY <1>1, <1>2, <2>0, <2>1, <2>3, SizeFacts DEF Lesser
    <2>4. QED
      BY <2>0, <2>2, <2>3
  <1>7. \A j \in 1..k : rest - Start(k) \in Slots /\ fresh[c + j] \in Blocks /\ BlockSize \in Slots
    <2> HIDE DEF rest
    <2>1. \A j \in 1..k : fresh[c + j] \in Blocks
      BY <1>1, <1>2, <1>3
    <2>2. ASSUME NEW j \in 1..k PROVE rest - Start(k) \in Slots
      <3>1. k \in Nat \ {0} /\ rest > 0
        BY <1>1, <1>2
      <3>2. Start(k) \in Nat
        BY <3>1, StartFacts
      <3>3. QED
        BY <1>1, <1>2, <3>1, <3>2, SizeFacts, SMTT(30)
    <2>3. QED
      BY <2>1, <2>2, SizeFacts
  <1>8. /\ y \in Seq(Entry) /\ Len(y) = k
        /\ \A j \in 1..k : /\ y[j].block = fresh[c + j]
                           /\ y[j].tokens = IF j < k THEN BlockSize ELSE rest - Start(k)
    <2> HIDE DEF rest, y
    <2>1. \A j \in 1..k : [block |-> fresh[c + j], tokens |-> Lesser(BlockSize, rest - Start(j))] \in Entry
      BY <1>6, <1>7 DEF Entry
    <2>2. y \in [1..k -> Entry]
      BY <1>4, <2>1
    <2>3. y \in Seq(Entry) /\ Len(y) = k
      BY <1>2, <2>2
    <2>4. QED
      BY <1>4, <1>6, <2>3
  <1>9. CASE ~PartialTail(e)
    <2>1. c = 0 /\ f = 0 /\ rest = n /\ len = Start(m + 1) /\ \A i \in 1..m : e[i].tokens = BlockSize
      BY <1>1, <1>9, FillFacts, EntryFacts
    <2>2. u = e /\ x = <<>>
      BY <1>9 DEF Untouched, Filled
    <2>3. w = y
      BY <1>8, <2>2, ConcatEmptySeq
    <2> HIDE DEF u, x, y, w, f, rest, m
    <2>4. /\ g \in Seq(Entry) /\ Len(g) = m + k
          /\ \A i \in 1..m : g[i] = e[i]
          /\ \A i \in 1..m + k : i > m => i - m \in 1..k /\ g[i] = y[i - m]
      <3>1. y \in Seq(Entry) /\ Len(e) = m /\ Len(y) = k /\ g = e \o y
        BY <1>5, <1>8, <2>2, <2>3 DEF m
      <3>2. /\ e \o y \in Seq(Entry) /\ Len(e \o y) = Len(e) + Len(y)
            /\ \A i \in 1..Len(e) + Len(y) : (e \o y)[i] = IF i <= Len(e) THEN e[i] ELSE y[i - Len(e)]
        BY <3>1, ConcatAt
      <3>3. QED
        BY <1>1, <1>2, <3>1, <3>2
    <2>5. k > 0 /\ Start(k) \in Nat /\ Start(m + 1) \in Nat /\ Start(m + k) = Start(m + 1) + Start(k)
      <3>1. k \in Nat \ {0} /\ m + 1 \in Nat \ {0} /\ m \in Nat
        BY <1>1, <1>2, <2>1
      <3>2. Start(m + k) = Start(m + 1) + Start(k)
        BY <3>1, StartSum
      <3>3. QED
        BY <3>1, <3>2, StartFacts
    <2>6. \A i \in 1..Len(g) : i <= m - c => g[i].block = e[i].block
      BY <1>1, <1>2, <2>1, <2>4
    <2>7. \A i \in 1..Len(g) : i > m - c =>
              i - (m - c) \in 1..c + k /\ g[i].block = fresh[i - (m - c)]
      <3> SUFFICES ASSUME NEW i \in 1..m + k, i > m
                   PROVE  i - m \in 1..k /\ g[i].block = fresh[i - m]
        BY <1>1, <1>2, <2>1, <2>4
      <3>1. i - m \in 1..k /\ g[i] = y[i - m]
        BY <2>4
      <3>2. QED
        BY <1>8, <2>1, <3>1
    <2>8. \A i \in 1..m : g[i].tokens >= e[i].tokens
      BY <1>1, <2>1, <2>4, SizeFacts
    <2>9. \A i \in 1..Len(g) : i < Len(g) => g[i].tokens = BlockSize
      <3> SUFFICES ASSUME NEW i \in 1..m + k, i < m + k
                   PROVE  g[i].tokens = BlockSize
        BY <2>4
      <3>1. CASE i <= m
        BY <1>1, <2>1, <2>4, <3>1
      <3>2. CASE i > m
        <4>1. i - m \in 1..k /\ i - m < k /\ g[i] = y[i - m]
          BY <1>1, <1>2, <2>4, <3>2
        <4>2. QED
          BY <1>8, <4>1
      <3>3. QED
        BY <1>1, <1>2, <3>1, <3>2
    <2>10. len + n = Start(Len(g)) + g[Len(g)].tokens
      <3>1. Len(g) > m /\ Len(g) \in 1..m + k /\ Len(g) - m = k
        BY <1>1, <1>2, <2>4, <2>5, SMTT(30)
      <3>2. g[Len(g)].tokens = n - Start(k)
        BY <1>8, <2>1, <2>4, <3>1
      <3>3. QED
        BY <1>1, <2>1, <2>4, <2>5, <3>2
    <2>11. BlocksOf(Written(e, n, fresh)) = {g[i].block : i \in m + 1..Len(g)}
      <3>1. Written(e, n, fresh) = y
        BY <2>3 DEF Written, w, x, y
      <3>2. BlocksOf(y) = {y[j].block : j \in 1..k}
        BY <1>8, EntryFacts DEF BlocksOf
      <3>3. \A i \in m + 1..Len(g) : i - m \in 1..k /\ g[i] = y[i - m]
        BY <1>1, <1>2, <2>4
      <3>4. \A j \in 1..k : m + j \in m + 1..Len(g) /\ g[m + j] = y[j]
        BY <1>1, <1>2, <2>4, SMTT(30)
      <3>5. {y[j].block : j \in 1..k} = {g[i].block : i \in m + 1..Len(g)}
        BY <3>3, <3>4, SMTT(30)
      <3>6. QED
        BY <3>1, <3>2, <3>5
    <2>12. QED
      BY <1>1, <1>2, <1>9, <2>1, <2>4, <2>5, <2>6, <2>7, <2>8, <2>9, <2>10, <2>11 DEF m, FirstWritten, BlocksFrom
  <1>10. CASE PartialTail(e)
    <2> DEFINE z == [block |-> IF SharedTail(e) THEN fresh[1] ELSE Last(e).block,
                     tokens |-> Last(e).tokens + Fill(e, n)]
               t == e[m].tokens
    <2>1. /\ m > 0 /\ Last(e) = e[m] /\ t \in Nat /\ t >= 1 /\ t < BlockSize /\ f > 0
          /\ t + f <= BlockSize /\ (rest > 0 => t + f = BlockSize) /\ len = Start(m) + t
          /\ e[m].block \in Blocks
      <3>1. e # <<>> /\ len = Start(m) + Last(e).tokens
        BY <1>10, FillFacts DEF Shaped
      <3>2. /\ m > 0 /\ Last(e) = e[m] /\ m \in 1..m /\ e[m].block \in Blocks
            /\ e[m].tokens \in Nat /\ e[m].tokens >= 1
        BY <1>1, <3>1, EntryFacts
      <3>3. /\ Last(e).tokens < BlockSize /\ f > 0 /\ Last(e).tokens + f <= BlockSize
            /\ f < n => Last(e).tokens + f = BlockSize
        BY <1>10, FillFacts
      <3>4. QED
        BY <1>1, <3>1, <3>2, <3>3
    <2>2. u = Front(e) /\ x = <<z>>
      BY <1>10 DEF Untouched, Filled
    <2>3. z.block = (IF c = 1 THEN fresh[1] ELSE e[m].block) /\ z.tokens = t + f
      BY <1>1, <2>1
    <2>4. z \in Entry
      <3>1. z.block \in Blocks
        BY <1>1, <1>2, <1>3, <2>1, <2>3
      <3>2. z.tokens \in Slots
        BY <1>1, <2>1, <2>3, SizeFacts
      <3>3. QED
        BY <3>1, <3>2 DEF Entry
    <2> HIDE DEF z, t, u, x, y, w, f, rest, m
    <2>5. /\ g \in Seq(Entry) /\ Len(g) = m + k
          /\ \A i \in 1..m + k : i < m => g[i] = e[i]
          /\ g[m] = z
          /\ \A i \in 1..m + k : i > m => i - m \in 1..k /\ g[i] = y[i - m]
      <3>1. /\ u \in Seq(Entry) /\ Len(u) = m - 1
            /\ \A i \in 1..m - 1 : u[i] = e[i]
        BY <2>1, <2>2, FrontFacts, EntryFacts DEF m
      <3>2. x \in Seq(Entry) /\ Len(x) = 1 /\ x[1] = z
        BY <2>2, <2>4
      <3>3. /\ w \in Seq(Entry) /\ Len(w) = 1 + k
            /\ \A i \in 1..1 + k : w[i] = IF i <= 1 THEN x[i] ELSE y[i - 1]
        <4>1. /\ x \o y \in Seq(Entry) /\ Len(x \o y) = Len(x) + Len(y)
              /\ \A i \in 1..Len(x) + Len(y) : (x \o y)[i] = IF i <= Len(x) THEN x[i] ELSE y[i - Len(x)]
          BY <1>8, <3>2, ConcatAt
        <4>2. QED
          BY <1>8, <3>2, <4>1 DEF w
      <3>4. /\ g \in Seq(Entry) /\ Len(g) = (m - 1) + (1 + k)
            /\ \A i \in 1..(m - 1) + (1 + k) : g[i] = IF i <= m - 1 THEN u[i] ELSE w[i - (m - 1)]
        BY <1>5, <3>1, <3>3, ConcatAt
      <3>5. (m - 1) + (1 + k) = m + k /\ m - (m - 1) = 1 /\ 1 \in 1..1 + k /\ m \in 1..m + k
        BY <1>1, <1>2, <2>1, SMTT(30)
      <3>6. g[m] = z
        BY <1>1, <2>1, <3>2, <3>3, <3>4, <3>5
      <3>7. ASSUME NEW i \in 1..m + k, i > m PROVE i - m \in 1..k /\ g[i] = y[i - m]
        <4>1. i - (m - 1) \in 1..1 + k /\ i - (m - 1) > 1 /\ (i - (m - 1)) - 1 = i - m /\ ~(i <= m - 1)
          BY <1>1, <1>2, <2>1, <3>7
        <4>2. g[i] = w[i - (m - 1)]
          BY <3>4, <3>5, <3>7, <4>1
        <4>3. w[i - (m - 1)] = y[i - m]
          BY <3>3, <4>1
        <4>4. QED
          BY <1>1, <1>2, <3>7, <4>2, <4>3, SMTT(30)
      <3>8. ASSUME NEW i \in 1..m + k, i < m PROVE g[i] = e[i]
        <4>1. i \in 1..m - 1 /\ i <= m - 1
          BY <1>1, <1>2, <2>1, <3>8
        <4>2. QED
          BY <3>1, <3>4, <3>5, <4>1
      <3>9. QED
        BY <3>4, <3>5, <3>6, <3>7, <3>8
    <2>6. k > 0 => /\ Start(k) \in Nat /\ Start(m) \in Nat
                   /\ Start(m + k) = Start(m) + BlockSize + Start(k)
      <3> SUFFICES ASSUME k > 0
                   PROVE  /\ Start(k) \in Nat /\ Start(m) \in Nat
                          /\ Start(m + k) = Start(m) + BlockSize + Start(k)
        OBVIOUS
      <3>1. k \in Nat \ {0} /\ m \in Nat \ {0} /\ m \in Nat
        BY <1>1, <1>2, <2>1
      <3>2. Start(m + k) = Start(m + 1) + Start(k) /\ Start(m + 1) = Start(m) + BlockSize
        BY <3>1, StartSum, StartNext
      <3>3. QED
        BY <3>1, <3>2, StartFacts
    <2>7. \A i \in 1..Len(g) : i <= m - c => g[i].block = e[i].block
      <3> SUFFICES ASSUME NEW i \in 1..m + k, i <= m - c PROVE g[i].block = e[i].block
        BY <2>5
      <3>1. CASE i < m
        BY <2>5, <3>1
      <3>2. CASE i = m
        BY <1>1, <2>3, <2>5, <3>2
      <3>3. QED
        BY <1>1, <1>2, <3>1, <3>2
    <2>8. \A i \in 1..Len(g) : i > m - c =>
              i - (m - c) \in 1..c + k /\ g[i].block = fresh[i - (m - c)]
      <3> SUFFICES ASSUME NEW i \in 1..m + k, i > m - c
                   PROVE  i - (m - c) \in 1..c + k /\ g[i].block = fresh[i - (m - c)]
        BY <2>5
      <3>1. CASE i > m
        <4>1. i - m \in 1..k /\ g[i] = y[i - m]
          BY <2>5, <3>1
        <4>2. g[i].block = fresh[c + (i - m)]
          BY <1>8, <4>1
        <4>3. c + (i - m) = i - (m - c) /\ i - (m - c) \in 1..c + k
          <5>1. m \in Nat /\ k \in Nat
            BY <1>1, <1>2
          <5>2. i \in Nat
            BY <5>1
          <5>3. c \in Nat
            BY <1>1
          <5>4. QED
            BY <4>1, <5>1, <5>2, <5>3, Reindex, SMTT(30)
        <4>4. QED
          BY <4>2, <4>3
      <3>2. CASE i = m
        <4>1. c = 1 /\ i - (m - c) = 1 /\ 1 \in 1..c + k
          BY <1>1, <1>2, <3>2
        <4>2. QED
          BY <2>3, <2>5, <3>2, <4>1
      <3>3. QED
        BY <1>1, <1>2, <3>1, <3>2, SMTT(30)
    <2>9. \A i \in 1..m : g[i].tokens >= e[i].tokens
      <3> SUFFICES ASSUME NEW i \in 1..m PROVE g[i].tokens >= e[i].tokens
        OBVIOUS
      <3>1. CASE i < m
        <4>1. g[i] = e[i] /\ e[i].tokens \in Nat
          BY <1>1, <1>2, <2>5, <3>1, EntryFacts DEF m
        <4>2. QED
          BY <4>1
      <3>2. CASE i = m
        BY <1>1, <2>1, <2>3, <2>5, <3>2 DEF t
      <3>3. QED
        BY <1>1, <3>1, <3>2
    <2>10. \A i \in 1..Len(g) : i < Len(g) => g[i].tokens = BlockSize
      <3> SUFFICES ASSUME NEW i \in 1..m + k, i < m + k PROVE g[i].tokens = BlockSize
        BY <2>5
      <3>1. CASE i < m
        <4>1. g[i] = e[i] /\ i \in DOMAIN e /\ i < Len(e)
          BY <1>1, <2>5, <3>1, EntryFacts DEF m
        <4>2. QED
          BY <4>1 DEF Shaped
      <3>2. CASE i = m
        <4>1. rest > 0
          BY <1>1, <1>2, <3>2
        <4>2. QED
          BY <2>1, <2>3, <2>5, <3>2, <4>1
      <3>3. CASE i > m
        <4>1. i - m \in 1..k /\ i - m < k /\ g[i] = y[i - m]
          BY <1>1, <1>2, <2>5, <3>3
        <4>2. QED
          BY <1>8, <4>1
      <3>4. QED
        BY <1>1, <1>2, <3>1, <3>2, <3>3
    <2>11. len + n = Start(Len(g)) + g[Len(g)].tokens
      <3>1. n = rest + f /\ Start(m) \in Nat
        BY <1>1, <2>1, StartFacts DEF rest
      <3>2. CASE k = 0
        <4>1. rest = 0
          BY <1>1, <1>2, <3>2
        <4>2. Len(g) = m /\ g[Len(g)].tokens = t + f
          BY <1>1, <2>3, <2>5, <3>2
        <4>3. QED
          BY <1>1, <2>1, <3>1, <4>1, <4>2
      <3>3. CASE k > 0
        <4>1. rest > 0
          BY <1>1, <1>2, <3>3
        <4>2. Len(g) > m /\ Len(g) \in 1..m + k /\ Len(g) - m = k
          BY <1>1, <1>2, <2>5, <3>3
        <4>3. g[Len(g)].tokens = rest - Start(k)
          BY <1>8, <2>5, <4>2
        <4>4. QED
          BY <1>1, <2>1, <2>5, <2>6, <3>1, <3>3, <4>1, <4>3, SMTT(30)
      <3>4. QED
        BY <1>2, <3>2, <3>3
    <2>12. BlocksOf(Written(e, n, fresh)) = {g[i].block : i \in m..Len(g)}
      <3>1. Written(e, n, fresh) = w
        BY DEF Written, w, x, y
      <3>2. /\ w \in Seq(Entry) /\ Len(w) = 1 + k
            /\ w[1] = z /\ \A j \in 2..1 + k : w[j] = y[j - 1]
        <4>1. x \in Seq(Entry) /\ Len(x) = 1 /\ x[1] = z
          BY <2>2, <2>4
        <4>2. /\ x \o y \in Seq(Entry) /\ Len(x \o y) = Len(x) + Len(y)
              /\ \A i \in 1..Len(x) + Len(y) : (x \o y)[i] = IF i <= Len(x) THEN x[i] ELSE y[i - Len(x)]
          BY <1>8, <4>1, ConcatAt
        <4>3. QED
          BY <1>2, <1>8, <4>1, <4>2 DEF w
      <3>3. BlocksOf(w) = {w[j].block : j \in 1..1 + k}
        BY <3>2, EntryFacts DEF BlocksOf
      <3>4. \A i \in m..Len(g) : i - m + 1 \in 1..1 + k /\ g[i] = w[i - m + 1]
        <4> SUFFICES ASSUME NEW i \in m..m + k
                     PROVE  i - m + 1 \in 1..1 + k /\ g[i] = w[i - m + 1]
          BY <2>5
        <4>1. i - m + 1 \in 1..1 + k
          BY <1>1, <1>2, <2>1
        <4>2. CASE i = m
          <5>1. i - m + 1 = 1
            BY <1>1, <4>2
          <5>2. g[m] = w[1]
            <6>1. m \in 1..Len(g)
              BY <1>1, <1>2, <2>1, <2>5
            <6>2. QED
              BY <2>5, <3>2, <6>1
          <5>3. QED
            BY <4>1, <4>2, <5>1, <5>2
        <4>3. CASE i > m
          <5>1. i \in 1..m + k /\ i - m + 1 \in 2..1 + k /\ (i - m + 1) - 1 = i - m
            BY <1>1, <1>2, <2>1, <4>3
          <5>2. QED
            BY <2>5, <3>2, <4>3, <5>1
        <4>4. QED
          BY <1>1, <1>2, <4>1, <4>2, <4>3
      <3>5. \A j \in 1..1 + k : m + j - 1 \in m..Len(g) /\ (m + j - 1) - m + 1 = j
        BY <1>1, <1>2, <2>1, <2>5, SMTT(30)
      <3>6. {w[j].block : j \in 1..1 + k} = {g[i].block : i \in m..Len(g)}
        BY <3>4, <3>5
      <3>7. QED
        BY <3>1, <3>3, <3>6
    <2>13. QED
      BY <1>1, <1>2, <1>10, <2>1, <2>5, <2>7, <2>8, <2>9, <2>10, <2>11, <2>12, SMTT(30) DEF m, FirstWritten, BlocksFrom
  <1>11. QED
    BY <1>9, <1>10

-----------------------------------------------------------------------------
(* The first tokens of a table *)

LEMMA SeqOfNone == SetToSeq({}) = <<>>
  <1>1. Cardinality({}) = 0
    BY FS_EmptySet
  <1>2. \A f \in [1..0 -> {}] : f = <<>>
    OBVIOUS
  <1>3. <<>> \in [1..0 -> {}] /\ IsInjective(<<>>)
    BY DEF IsInjective
  <1>4. QED
    BY <1>1, <1>2, <1>3 DEF SetToSeq

LEMMA SeqOfOne ==
    ASSUME NEW x
    PROVE  SetToSeq({x}) = <<x>>
  <1>1. Cardinality({x}) = 1
    BY FS_Singleton
  <1>2. \A f \in [1..1 -> {x}] : f = <<x>>
    OBVIOUS
  <1>3. <<x>> \in [1..1 -> {x}] /\ IsInjective(<<x>>)
    BY DEF IsInjective
  <1>4. QED
    BY <1>1, <1>2, <1>3 DEF SetToSeq

\* The entries that lie within the first n tokens are the first ones, and the
\* remaining tokens are the first ones of the next entry.
LEMMA CutFacts ==
    ASSUME NEW e \in Seq(Entry), NEW len, Shaped(e, len), NEW n \in Nat, n <= len,
           NEW w, w = Whole(e, n), NEW rest, rest = Remainder(e, n)
    PROVE  /\ w \in 0..Len(e) /\ rest \in Nat
           /\ rest > 0 => /\ w < Len(e) /\ rest < e[w + 1].tokens /\ rest \in Slots
                          /\ n = Start(w + 1) + rest
           /\ rest = 0 => n = IF w = 0 THEN 0 ELSE Start(w) + e[w].tokens
  <1> DEFINE m == Len(e)
             End(i) == Start(i) + e[i].tokens
             D == {i \in DOMAIN e : End(i) <= n}
             Out == {i \in Nat : i + 1 \notin D}
  <1>1. /\ m \in Nat /\ DOMAIN e = 1..m
        /\ \A i \in 1..m : /\ Start(i) \in Nat /\ e[i].tokens \in Nat
                           /\ 1 <= e[i].tokens /\ End(i) \in Nat
    <2>1. m \in Nat /\ DOMAIN e = 1..m /\ \A i \in 1..m : e[i].tokens \in Nat /\ 1 <= e[i].tokens
      BY EntryFacts
    <2>2. \A i \in 1..m : Start(i) \in Nat
      BY <2>1, StartFacts
    <2>3. QED
      BY <2>1, <2>2
  <1>2. \A i, j \in 1..m : i < j => End(i) < End(j)
    <2> SUFFICES ASSUME NEW i \in 1..m, NEW j \in 1..m, i < j PROVE End(i) < End(j)
      OBVIOUS
    <2>1. i < m /\ i \in Nat \ {0} /\ j \in Nat \ {0}
      BY <1>1
    <2>2. e[i].tokens = BlockSize
      BY <1>1, <2>1 DEF Shaped
    <2>3. Start(i) + BlockSize <= Start(j)
      BY <2>1, StartFacts
    <2>4. QED
      BY <1>1, <2>2, <2>3, SizeFacts
  <1> HIDE DEF m, End, D, Out
  <1>3. PICK v \in Out : \A i \in Out : v <= i
    <2>1. m + 1 \notin D
      BY <1>1 DEF D
    <2>2. m \in Out
      BY <1>1, <2>1 DEF Out
    <2>3. Out \in SUBSET Nat
      BY DEF Out
    <2>4. QED
      BY <2>2, <2>3, LeastNat
  <1>4. v \in Nat /\ v + 1 \notin D
    BY <1>3 DEF Out
  <1>5. \A i \in 1..v : i \in D
    <2> SUFFICES ASSUME NEW i \in 1..v, i \notin D PROVE FALSE
      OBVIOUS
    <2>1. i - 1 \in Nat /\ (i - 1) + 1 = i /\ i - 1 < v
      BY <1>4
    <2>2. i - 1 \in Out
      BY <2>1 DEF Out
    <2>3. QED
      BY <1>3, <1>4, <2>1, <2>2
  <1>6. v <= m
    <2>1. CASE v = 0
      BY <1>1, <2>1
    <2>2. CASE v > 0
      <3>1. v \in D
        BY <1>4, <1>5, <2>2
      <3>2. QED
        BY <1>1, <1>4, <3>1 DEF D
    <2>3. QED
      BY <1>4, <2>1, <2>2
  <1>7. D = 1..v
    <2>1. ASSUME NEW i \in D PROVE i \in 1..v
      <3>1. i \in 1..m /\ End(i) <= n
        BY <1>1 DEF D
      <3>2. CASE i > v
        <4>1. v + 1 \in 1..m /\ End(v + 1) > n
          BY <1>1, <1>4, <3>1, <3>2 DEF D
        <4>2. End(v + 1) <= End(i)
          <5>1. CASE i = v + 1
            BY <1>1, <3>1, <5>1
          <5>2. CASE v + 1 < i
            <6>1. End(v + 1) < End(i)
              BY <1>2, <3>1, <4>1, <5>2
            <6>2. QED
              BY <1>1, <3>1, <4>1, <6>1
          <5>3. QED
            BY <1>1, <1>4, <3>1, <3>2, <5>1, <5>2
        <4>3. QED
          BY <1>1, <3>1, <4>1, <4>2
      <3>3. QED
        BY <1>1, <1>4, <3>1, <3>2
    <2>2. QED
      BY <1>5, <2>1
  <1>8. w = v
    <2>1. w = Cardinality(D)
      BY DEF Whole, D, End
    <2>2. Cardinality(1..v) = v
      BY <1>4, FS_Interval
    <2>3. QED
      BY <1>7, <2>1, <2>2
  <1>9. rest = IF w < m THEN n - Start(w + 1) ELSE 0
    BY DEF Remainder, m
  <1>10. CASE w < m
    <2>1. w + 1 \in 1..m /\ End(w + 1) > n
      BY <1>1, <1>4, <1>8, <1>10 DEF D
    <2>2. CASE w = 0
      <3>1. Start(w + 1) = 0
        BY <2>2, StartFacts
      <3>2. n < e[w + 1].tokens
        BY <1>1, <2>1, <3>1 DEF End
      <3>3. e[w + 1].tokens <= BlockSize
        BY <2>1, EntryFacts DEF m
      <3>4. rest = n
        BY <1>9, <1>10, <3>1
      <3>5. QED
        BY <1>1, <1>10, <2>1, <2>2, <3>1, <3>2, <3>3, <3>4, SizeFacts DEF m
    <2>3. CASE w > 0
      <3>1. w \in 1..m /\ w \in DOMAIN e /\ w < Len(e) /\ w \in Nat \ {0}
        BY <1>1, <1>4, <1>6, <1>8, <1>10, <2>3 DEF m
      <3>2. End(w) <= n
        BY <1>7, <1>8, <1>4, <2>3 DEF D
      <3>3. e[w].tokens = BlockSize /\ Start(w + 1) = Start(w) + BlockSize
        BY <3>1, StartNext DEF Shaped
      <3>4. Start(w + 1) = Start(w) + e[w].tokens /\ Start(w + 1) <= n
        BY <1>1, <3>1, <3>2, <3>3 DEF End
      <3>5. rest = n - Start(w + 1) /\ rest < e[w + 1].tokens /\ Start(w + 1) \in Nat
        BY <1>1, <1>9, <1>10, <2>1, <3>4 DEF End
      <3>6. e[w + 1].tokens <= BlockSize /\ e[w + 1].tokens \in Nat
        BY <2>1, EntryFacts DEF m
      <3>7. QED
        <4>1. rest \in Nat /\ n = Start(w + 1) + rest
          BY <3>4, <3>5
        <4>2. rest > 0 => rest \in Slots
          BY <3>5, <3>6, <4>1, SizeFacts
        <4>3. rest = 0 => n = Start(w) + e[w].tokens
          BY <3>4, <3>5, <4>1
        <4>4. w \in 0..Len(e)
          BY <1>1, <3>1 DEF m
        <4>5. QED
          BY <2>3, <3>1, <3>4, <3>5, <4>1, <4>2, <4>3, <4>4
    <2>4. QED
      BY <1>4, <1>8, <2>2, <2>3
  <1>11. CASE w = m
    <2>1. rest = 0
      BY <1>1, <1>9, <1>11
    <2>2. CASE m = 0
      <3>1. e = <<>>
        BY <2>2, EntryFacts DEF m
      <3>2. n = 0
        BY <3>1 DEF Shaped
      <3>3. QED
        BY <1>1, <1>11, <2>1, <2>2, <3>2 DEF m
    <2>3. CASE m > 0
      <3>1. m \in 1..m /\ e # <<>> /\ len = Start(m) + e[m].tokens
        BY <1>1, <2>3, EntryFacts DEF Shaped, m
      <3>2. End(m) <= n
        BY <1>7, <1>8, <1>11, <3>1 DEF D
      <3>3. n = Start(m) + e[m].tokens
        BY <1>1, <3>1, <3>2 DEF End
      <3>4. QED
        BY <1>1, <1>11, <2>1, <2>3, <3>3 DEF m
    <2>4. QED
      BY <1>1, <2>2, <2>3
  <1>12. QED
    BY <1>1, <1>4, <1>6, <1>8, <1>10, <1>11

-----------------------------------------------------------------------------
(* The inductive invariant *)

BlocksIn(r) == IF table[r] = None THEN {} ELSE BlocksOf(table[r])
Holders(b) == {r \in Requests : b \in BlocksIn(r)}

\* Every table has the shape of its length and lies within what was written.
Within(e) == \A i \in DOMAIN e : e[i].tokens <= used[e[i].block]
TablesHold ==
    \A r \in Requests :
        IF table[r] = None THEN length[r] = 0
        ELSE Shaped(table[r], length[r]) /\ Within(table[r])

\* A block is referenced once by each request that holds it, and exactly the
\* blocks nobody holds are free or fenced.
BlocksHold ==
    /\ free \cap pending = {}
    /\ \A b \in Blocks : /\ refs[b] = Cardinality(Holders(b))
                         /\ refs[b] = 0 <=> b \in free \cup pending
                         /\ refs[b] = 0 <=> used[b] = 0

\* Blocks are fenced for a batch only, and nobody but the commit touches the
\* requests it is to append to.
BatchKnown ==
    /\ phase = "idle" => pending = {}
    /\ phase = "commit" => batch \subseteq Live

PoolInv == TypeOK /\ TablesHold /\ BlocksHold /\ BatchKnown

LEMMA TableIsSome ==
    ASSUME NEW e \in Seq(Entry)
    PROVE  e # None
  BY PoolAssumption DEF Entry, Slots

LEMMA LiveFacts ==
    ASSUME TypeOK, NEW r \in Live
    PROVE  r \in Requests /\ table[r] \in Seq(Entry) /\ table[r] # None
  BY DEF TypeOK, Live

LEMMA BlocksOfFacts ==
    ASSUME NEW e \in Seq(Entry)
    PROVE  /\ BlocksOf(e) \subseteq Blocks
           /\ \A b : b \in BlocksOf(e) <=> \E i \in 1..Len(e) : b = e[i].block
  BY EntryFacts DEF BlocksOf

LEMMA HoldersFinite ==
    ASSUME NEW b
    PROVE  /\ IsFiniteSet(Holders(b)) /\ Cardinality(Holders(b)) \in Nat
           /\ IsFiniteSet(Holders(b)') /\ Cardinality(Holders(b)') \in Nat
  <1>1. IsFiniteSet(Requests)
    BY PoolAssumption
  <1>2. Holders(b) \in SUBSET Requests /\ Holders(b)' \in SUBSET Requests
    BY DEF Holders
  <1>3. QED
    BY <1>1, <1>2, FS_Subset, FS_CardinalityType

\* Whose block it is.
LEMMA Held ==
    ASSUME TypeOK, BlocksHold, NEW r \in Requests, NEW b \in BlocksIn(r)
    PROVE  /\ b \in Blocks /\ refs[b] \in Nat /\ refs[b] >= 1
           /\ b \notin free /\ b \notin pending /\ used[b] # 0
           /\ refs[b] = 1 => \A q \in Requests : b \in BlocksIn(q) => q = r
  <1>1. table[r] # None /\ b \in BlocksOf(table[r]) /\ table[r] \in Seq(Entry)
    BY DEF BlocksIn, TypeOK
  <1>2. b \in Blocks
    BY <1>1, BlocksOfFacts
  <1>3. r \in Holders(b)
    BY DEF Holders
  <1>4. IsFiniteSet(Holders(b)) /\ Cardinality(Holders(b)) \in Nat
    BY HoldersFinite
  <1>5. Cardinality(Holders(b)) # 0
    BY <1>3, <1>4, FS_EmptySet
  <1>6. refs[b] = Cardinality(Holders(b)) /\ refs[b] \in Nat
    BY <1>2 DEF BlocksHold, TypeOK
  <1>7. b \notin free /\ b \notin pending /\ used[b] # 0
    BY <1>2, <1>5, <1>6 DEF BlocksHold
  <1>8. ASSUME refs[b] = 1, NEW q \in Requests, b \in BlocksIn(q) PROVE q = r
    <2>1. PICK x : Holders(b) = {x}
      BY <1>4, <1>6, <1>8, FS_Singleton
    <2>2. q \in Holders(b)
      BY <1>8 DEF Holders
    <2>3. QED
      BY <1>3, <2>1, <2>2
  <1>9. QED
    BY <1>2, <1>4, <1>5, <1>6, <1>7, <1>8

\* A step that changes one table changes who holds a block by one request.
LEMMA Recount ==
    ASSUME NEW r \in Requests, NEW x, table \in [Requests -> Seq(Entry) \cup {None}],
           table' = [table EXCEPT ![r] = x]
    PROVE  /\ table'[r] = x
           /\ \A q \in Requests : q # r => table'[q] = table[q] /\ BlocksIn(q)' = BlocksIn(q)
           /\ \A b : Cardinality(Holders(b)') =
                IF b \in BlocksIn(r)'
                THEN IF b \in BlocksIn(r) THEN Cardinality(Holders(b)) ELSE Cardinality(Holders(b)) + 1
                ELSE IF b \in BlocksIn(r) THEN Cardinality(Holders(b)) - 1 ELSE Cardinality(Holders(b))
  <1>1. table'[r] = x /\ \A q \in Requests : q # r => table'[q] = table[q]
    OBVIOUS
  <1>2. \A q \in Requests : q # r => BlocksIn(q)' = BlocksIn(q)
    BY <1>1 DEF BlocksIn
  <1>3. ASSUME NEW b
        PROVE  Holders(b)' = IF b \in BlocksIn(r)' THEN Holders(b) \cup {r} ELSE Holders(b) \ {r}
    BY <1>2 DEF Holders
  <1>4. \A b : r \in Holders(b) <=> b \in BlocksIn(r)
    BY DEF Holders
  <1>5. ASSUME NEW b
        PROVE  Cardinality(Holders(b)') =
                IF b \in BlocksIn(r)'
                THEN IF b \in BlocksIn(r) THEN Cardinality(Holders(b)) ELSE Cardinality(Holders(b)) + 1
                ELSE IF b \in BlocksIn(r) THEN Cardinality(Holders(b)) - 1 ELSE Cardinality(Holders(b))
    <2>1. IsFiniteSet(Holders(b))
      BY HoldersFinite
    <2>2. CASE b \in BlocksIn(r)'
      <3>1. Holders(b)' = Holders(b) \cup {r}
        BY <1>3, <2>2
      <3>2. Cardinality(Holders(b) \cup {r}) =
              IF r \in Holders(b) THEN Cardinality(Holders(b)) ELSE Cardinality(Holders(b)) + 1
        BY <2>1, FS_AddElement
      <3>3. QED
        BY <1>4, <2>2, <3>1, <3>2
    <2>3. CASE b \notin BlocksIn(r)'
      <3>1. Holders(b)' = Holders(b) \ {r}
        BY <1>3, <2>3
      <3>2. Cardinality(Holders(b) \ {r}) =
              IF r \in Holders(b) THEN Cardinality(Holders(b)) - 1 ELSE Cardinality(Holders(b))
        BY <2>1, FS_RemoveElement
      <3>3. QED
        BY <1>4, <2>3, <3>1, <3>2
    <2>4. QED
      BY <2>2, <2>3
  <1>6. QED
    BY <1>1, <1>2, <1>5

\* A step on request r: its table becomes x, of len tokens, the references
\* follow, and no sharer loses what was written.
Edited(r, x, len) ==
    /\ x \in Seq(Entry) \cup {None} /\ len \in Nat
    /\ table' = [table EXCEPT ![r] = x] /\ length' = [length EXCEPT ![r] = len]
    /\ IF x = None THEN len = 0
       ELSE Shaped(x, len) /\ \A i \in DOMAIN x : x[i].tokens <= used'[x[i].block]
    /\ \A b \in Blocks :
          refs'[b] = IF b \in BlocksIn(r)'
                     THEN IF b \in BlocksIn(r) THEN refs[b] ELSE refs[b] + 1
                     ELSE IF b \in BlocksIn(r) THEN refs[b] - 1 ELSE refs[b]
    /\ \A b \in Blocks : (\E q \in Requests \ {r} : b \in BlocksIn(q)) => used'[b] >= used[b]
    /\ used' \in [Blocks -> 0..BlockSize]
    /\ free' \cap pending' = {}
    /\ \A b \in Blocks : /\ refs'[b] = 0 <=> b \in free' \cup pending'
                         /\ refs'[b] = 0 <=> used'[b] = 0

\* Such a step keeps what is known of tables and blocks.
LEMMA Edit ==
    ASSUME TypeOK, TablesHold, BlocksHold, NEW r \in Requests, NEW x, NEW len, Edited(r, x, len)
    PROVE  TablesHold' /\ BlocksHold'
  <1>1. table \in [Requests -> Seq(Entry) \cup {None}] /\ length \in [Requests -> Nat]
        /\ used \in [Blocks -> 0..BlockSize] /\ BlockSize \in Nat
        /\ x \in Seq(Entry) \cup {None} /\ len \in Nat
        /\ table' = [table EXCEPT ![r] = x] /\ length' = [length EXCEPT ![r] = len]
        /\ used' \in [Blocks -> 0..BlockSize]
    BY SizeFacts DEF TypeOK, Edited
  <1>a. IF x = None THEN len = 0 ELSE Shaped(x, len) /\ Within(x)'
    BY DEF Edited, Within
  <1>b. \A b \in Blocks :
          refs'[b] = IF b \in BlocksIn(r)'
                     THEN IF b \in BlocksIn(r) THEN refs[b] ELSE refs[b] + 1
                     ELSE IF b \in BlocksIn(r) THEN refs[b] - 1 ELSE refs[b]
    BY DEF Edited
  <1>c. \A b \in Blocks : (\E q \in Requests \ {r} : b \in BlocksIn(q)) => used'[b] >= used[b]
    BY DEF Edited
  <1>d. /\ free' \cap pending' = {}
        /\ \A b \in Blocks : /\ refs'[b] = 0 <=> b \in free' \cup pending'
                             /\ refs'[b] = 0 <=> used'[b] = 0
    BY DEF Edited
  <1>2. /\ table'[r] = x /\ length'[r] = len
        /\ \A q \in Requests : q # r =>
              table'[q] = table[q] /\ BlocksIn(q)' = BlocksIn(q) /\ length'[q] = length[q]
    BY <1>1, Recount
  <1>3. TablesHold'
    <2> SUFFICES ASSUME NEW q \in Requests
                 PROVE  IF table'[q] = None THEN length'[q] = 0
                        ELSE Shaped(table'[q], length'[q]) /\ Within(table[q])'
      BY DEF TablesHold
    <2>1. CASE q = r
      <3>1. CASE x = None
        BY <1>2, <1>a, <2>1, <3>1
      <3>2. CASE x # None
        <4>1. Shaped(x, len) /\ Within(x)'
          BY <1>a, <3>2
        <4>2. QED
          BY <1>2, <2>1, <3>2, <4>1 DEF Within
      <3>3. QED
        BY <3>1, <3>2
    <2>2. CASE q # r
      <3>1. table'[q] = table[q] /\ length'[q] = length[q]
        BY <1>2, <2>2
      <3>2. CASE table[q] = None
        BY <3>1, <3>2 DEF TablesHold
      <3>3. CASE table[q] # None
        <4>1. Shaped(table[q], length[q]) /\ Within(table[q]) /\ table[q] \in Seq(Entry)
          BY <1>1, <3>3 DEF TablesHold
        <4>2. ASSUME NEW i \in DOMAIN table[q]
              PROVE  table[q][i].tokens <= used'[table[q][i].block]
          <5>1. /\ table[q][i].block \in Blocks /\ table[q][i].tokens \in Nat
                /\ table[q][i].block \in BlocksIn(q)
            BY <3>3, <4>1, EntryFacts DEF BlocksIn, BlocksOf
          <5>2. used'[table[q][i].block] >= used[table[q][i].block]
            BY <1>c, <2>2, <5>1
          <5>3. table[q][i].tokens <= used[table[q][i].block]
            BY <4>1 DEF Within
          <5>4. used[table[q][i].block] \in Nat /\ used'[table[q][i].block] \in Nat
            BY <1>1, <5>1
          <5>5. QED
            BY <5>1, <5>2, <5>3, <5>4
        <4>3. Within(table[q])'
          BY <3>1, <4>2 DEF Within
        <4>4. QED
          BY <3>1, <3>3, <4>1, <4>3
      <3>4. QED
        BY <3>2, <3>3
    <2>3. QED
      BY <2>1, <2>2
  <1>4. BlocksHold'
    <2>1. ASSUME NEW b \in Blocks PROVE refs'[b] = Cardinality(Holders(b)')
      <3>1. refs[b] = Cardinality(Holders(b))
        BY DEF BlocksHold
      <3>2. Cardinality(Holders(b)') =
                IF b \in BlocksIn(r)'
                THEN IF b \in BlocksIn(r) THEN Cardinality(Holders(b)) ELSE Cardinality(Holders(b)) + 1
                ELSE IF b \in BlocksIn(r) THEN Cardinality(Holders(b)) - 1 ELSE Cardinality(Holders(b))
        BY <1>1, Recount
      <3>3. QED
        BY <1>b, <3>1, <3>2
    <2>2. QED
      BY <1>d, <2>1 DEF BlocksHold
  <1>5. QED
    BY <1>3, <1>4

\* A step of the batch that only moves blocks between the free list and the
\* reservation.
LEMMA Moved ==
    ASSUME TablesHold, BlocksHold, UNCHANGED <<refs, used, table, length>>,
           free' \cap pending' = {}, free' \cup pending' = free \cup pending
    PROVE  TablesHold' /\ BlocksHold'
  <1>1. \A r \in Requests : BlocksIn(r)' = BlocksIn(r)
    BY DEF BlocksIn
  <1>2. \A b : Holders(b)' = Holders(b)
    BY <1>1 DEF Holders
  <1>3. BlocksHold'
    BY <1>2 DEF BlocksHold
  <1>4. \A r \in Requests : Within(table[r])' <=> Within(table[r])
    BY DEF Within
  <1>5. TablesHold'
    BY <1>4 DEF TablesHold
  <1>6. QED
    BY <1>3, <1>5

-----------------------------------------------------------------------------
(* append_delta *)

LEMMA ToSetFacts ==
    ASSUME NEW n, NEW S, NEW fresh \in Picks(S, n)
    PROVE  /\ fresh \in [1..n -> S] /\ ToSet(fresh) \subseteq S
           /\ \A b : b \in ToSet(fresh) <=> \E j \in 1..n : b = fresh[j]
           /\ \A i, j \in 1..n : fresh[i] = fresh[j] => i = j
  BY DEF Picks, ToSet, IsInjective

\* What becomes of the table e of r: the table g, whose entries from a on are
\* written to.  They are fresh blocks, or the partial tail that only r holds.
TableGrows(r, n, fresh, e, g, a) ==
    /\ e \in Seq(Entry) /\ g \in Seq(Entry) /\ a \in 1..Len(g) /\ Len(e) <= Len(g)
    /\ Shaped(e, length[r]) /\ Shaped(g, length[r] + n)
    /\ ToSet(fresh) \subseteq Blocks
    /\ \A b \in ToSet(fresh) : refs[b] = 0 /\ used[b] = 0
    /\ \A b \in ToSet(fresh), q \in Requests : b \notin BlocksIn(q)
    /\ BlocksOf(g) = IF SharedTail(e) THEN (BlocksOf(e) \ {Last(e).block}) \cup ToSet(fresh)
                     ELSE BlocksOf(e) \cup ToSet(fresh)
    /\ SharedTail(e) => Last(e).block \in BlocksOf(e)
    /\ BlocksOf(Written(e, n, fresh)) = BlocksFrom(g, a)
    /\ \A i \in 1..Len(g) : i < a => i <= Len(e) /\ g[i] = e[i]
    /\ \A i \in a..Len(g) :
         \/ g[i].block \in ToSet(fresh) /\ (i <= Len(e) => SharedTail(e) /\ i = Len(e))
         \/ PartialTail(e) /\ ~SharedTail(e) /\ i = Len(e) /\ g[i].block = e[i].block
            /\ refs[e[i].block] = 1

LEMMA GrownTable ==
    ASSUME TypeOK, TablesHold, BlocksHold, NEW r \in Live, NEW n \in Nat \ {0},
           NEW fresh \in Picks(free \cup pending, Required(r, n)),
           NEW e, e = table[r], NEW g, g = Grown(e, n, fresh), NEW a, a = FirstWritten(e)
    PROVE  TableGrows(r, n, fresh, e, g, a)
  <1> USE DEF TableGrows
  <1> DEFINE c == Copies(e)
             k == BlocksFor(n - Fill(e, n))
             m == Len(e)
  <1>1. /\ e \in Seq(Entry) /\ e # None /\ r \in Requests
        /\ Shaped(e, length[r]) /\ Within(e)
    BY LiveFacts DEF TablesHold
  <1>2. /\ fresh \in [1..c + k -> free \cup pending] /\ ToSet(fresh) \subseteq free \cup pending
        /\ \A b : b \in ToSet(fresh) <=> \E j \in 1..c + k : b = fresh[j]
        /\ \A i, j \in 1..c + k : fresh[i] = fresh[j] => i = j
    BY ToSetFacts DEF Required
  <1>3. free \cup pending \subseteq Blocks
    BY DEF TypeOK
  <1>4. fresh \in [1..c + k -> Blocks]
    BY <1>2, <1>3
  <1>5. ToSet(fresh) \subseteq Blocks /\ \A b \in ToSet(fresh) : refs[b] = 0 /\ used[b] = 0
    BY <1>2, <1>3 DEF BlocksHold
  <1>6. \A b \in ToSet(fresh), q \in Requests : b \notin BlocksIn(q)
    BY <1>5, Held
  <1>0. /\ c = Copies(e) /\ k = BlocksFor(n - Fill(e, n)) /\ m = Len(e)
        /\ fresh \in [1..Copies(e) + BlocksFor(n - Fill(e, n)) -> Blocks]
    BY <1>4
  <1> HIDE DEF c, k, m
  <1>a. /\ k \in Nat /\ c \in {0, 1} /\ c <= Len(e)
        /\ g \in Seq(Entry) /\ Len(g) = Len(e) + k /\ g # <<>>
        /\ \A i \in 1..Len(g) : i <= Len(e) - c => g[i].block = e[i].block
        /\ \A i \in 1..Len(g) : i > Len(e) - c =>
             i - (Len(e) - c) \in 1..c + k /\ g[i].block = fresh[i - (Len(e) - c)]
        /\ \A i \in 1..Len(e) : g[i].tokens >= e[i].tokens
        /\ \A i \in 1..Len(g) : i < Len(g) => g[i].tokens = BlockSize
        /\ length[r] + n = Start(Len(g)) + g[Len(g)].tokens
        /\ BlocksOf(Written(e, n, fresh)) = BlocksFrom(g, FirstWritten(e))
    <2>1. GrowsTo(e, length[r], n, fresh, g, k, c)
      BY <1>0, <1>1, GrownFacts
    <2>2. QED
      BY <2>1 DEF GrowsTo
  <1>7. /\ k \in Nat /\ c \in {0, 1} /\ c <= m /\ m \in Nat
        /\ g \in Seq(Entry) /\ Len(g) = m + k /\ g # <<>>
    BY <1>0, <1>1, <1>a, EntryFacts
  <1>b. \A i \in 1..m + k : i <= m - c => g[i].block = e[i].block
    BY <1>0, <1>a
  <1>c. \A i \in 1..m + k : i > m - c =>
            /\ i - (m - c) \in 1..c + k /\ g[i].block = fresh[i - (m - c)]
    BY <1>0, <1>a
  <1>d. \A i \in 1..m + k : i > m - c => g[i].block \in ToSet(fresh)
    BY <1>2, <1>c
  <1>8. /\ c = 1 <=> SharedTail(e)
        /\ SharedTail(e) => PartialTail(e)
        /\ ~PartialTail(e) => Fill(e, n) = 0 /\ \A i \in 1..m : e[i].tokens = BlockSize
        /\ PartialTail(e) => m > 0 /\ Last(e) = e[m]
    <2>1. /\ c = 1 <=> SharedTail(e)
          /\ SharedTail(e) => PartialTail(e)
          /\ PartialTail(e) => e # <<>>
          /\ ~PartialTail(e) => Fill(e, n) = 0 /\ \A i \in DOMAIN e : e[i].tokens = BlockSize
      BY <1>0, <1>1, FillFacts
    <2>2. DOMAIN e = 1..m /\ (e # <<>> => m > 0 /\ Last(e) = e[m])
      BY <1>0, <1>1, EntryFacts
    <2>3. QED
      BY <2>1, <2>2
  <1>9. ~PartialTail(e) => k > 0
    <2>1. BlocksFor(n) > 0
      BY BlocksForFacts
    <2>2. ~PartialTail(e) => k = BlocksFor(n - 0)
      BY <1>0, <1>8
    <2>3. n - 0 = n
      OBVIOUS
    <2>4. QED
      BY <2>1, <2>2, <2>3
  <1>10. a = IF PartialTail(e) THEN m ELSE m + 1
    BY <1>0 DEF FirstWritten
  <1>11. \A i \in 1..m : /\ e[i].block \in BlocksIn(r) /\ e[i].block \in Blocks
                         /\ e[i].block \notin ToSet(fresh)
                         /\ e[i].tokens \in Nat /\ e[i].tokens <= BlockSize
    <2>1. \A i \in 1..m : /\ e[i].block \in Blocks /\ e[i].block \in BlocksIn(r)
                          /\ e[i].tokens \in Nat /\ e[i].tokens <= BlockSize
      BY <1>0, <1>1, EntryFacts DEF BlocksIn, BlocksOf
    <2>2. QED
      BY <1>1, <1>6, <2>1
  <1>12. \A i \in 1..m + k : i \in 1..m - c \/ i - (m - c) \in 1..c + k
    BY <1>7
  <1>13. \A j \in 1..c + k : (m - c) + j \in 1..m + k /\ (m - c) + j > m - c /\ ((m - c) + j) - (m - c) = j
    BY <1>7
  <1>14. ASSUME NEW i \in 1..Len(g), NEW j \in 1..Len(g), g[i].block = g[j].block PROVE i = j
    <2>1. CASE i <= m - c /\ j <= m - c
      <3>1. i \in DOMAIN e /\ j \in DOMAIN e /\ e[i].block = e[j].block
        <4>1. DOMAIN e = 1..m
          BY <1>0, <1>1, EntryFacts
        <4>2. i \in 1..m + k /\ j \in 1..m + k /\ i \in 1..m /\ j \in 1..m
          BY <1>7, <2>1
        <4>3. g[i].block = e[i].block /\ g[j].block = e[j].block
          BY <1>b, <2>1, <4>2
        <4>4. QED
          BY <1>14, <4>1, <4>2, <4>3
      <3>2. QED
        BY <1>1, <3>1 DEF Shaped
    <2>2. CASE i > m - c /\ j > m - c
      <3>1. i - (m - c) = j - (m - c)
        BY <1>2, <1>7, <1>c, <1>14, <2>2
      <3>2. QED
        BY <1>7, <3>1
    <2>3. ASSUME NEW p \in 1..Len(g), NEW q \in 1..Len(g), p <= m - c, q > m - c
          PROVE  g[p].block # g[q].block
      <3>1. p \in 1..m /\ g[p].block = e[p].block
        BY <1>7, <1>b, <2>3
      <3>2. g[q].block \in ToSet(fresh)
        BY <1>7, <1>d, <2>3
      <3>3. QED
        BY <1>11, <3>1, <3>2
    <2>4. QED
      BY <1>7, <1>14, <2>1, <2>2, <2>3
  <1>15. Shaped(g, length[r] + n)
    <2>1. \A i, j \in 1..Len(g) : g[i].block = g[j].block => i = j
      BY <1>14
    <2>2. \A i \in 1..Len(g) : i < Len(g) => g[i].tokens = BlockSize
      BY <1>a
    <2>3. g \in Seq(Entry) /\ g # <<>> /\ length[r] + n = Start(Len(g)) + g[Len(g)].tokens
      BY <1>a
    <2>4. QED
      BY <2>1, <2>2, <2>3, ShapedIntro
  <1>16. \A b : b \in BlocksOf(g) <=> (\E i \in 1..m - c : b = e[i].block) \/ b \in ToSet(fresh)
    <2>1. \A b : b \in BlocksOf(g) <=> \E i \in 1..m + k : b = g[i].block
      BY <1>7, BlocksOfFacts
    <2>2. \A i \in 1..m - c : i \in 1..m + k /\ g[i].block = e[i].block
      BY <1>7, <1>b
    <2>3. \A j \in 1..c + k : \E i \in 1..m + k : g[i].block = fresh[j]
      <3> SUFFICES ASSUME NEW j \in 1..c + k PROVE \E i \in 1..m + k : g[i].block = fresh[j]
        OBVIOUS
      <3>1. g[(m - c) + j].block = fresh[j]
        BY <1>c, <1>13
      <3>2. QED
        BY <1>13, <3>1
    <2>4. \A i \in 1..m + k : g[i].block \in ToSet(fresh) \/ (i \in 1..m - c /\ g[i].block = e[i].block)
      <3> SUFFICES ASSUME NEW i \in 1..m + k
                   PROVE  g[i].block \in ToSet(fresh) \/ (i \in 1..m - c /\ g[i].block = e[i].block)
        OBVIOUS
      <3>1. CASE i \in 1..m - c
        BY <2>2, <3>1
      <3>2. CASE i > m - c
        BY <1>d, <3>2
      <3>3. QED
        BY <1>7, <3>1, <3>2
    <2>5. QED
      BY <1>2, <2>1, <2>2, <2>3, <2>4
  <1>17. SharedTail(e) => m > 0 /\ m \in 1..m /\ Last(e).block = e[m].block /\ Last(e).block \in BlocksOf(e)
    <2> SUFFICES ASSUME SharedTail(e)
                 PROVE  m > 0 /\ m \in 1..m /\ Last(e).block = e[m].block /\ Last(e).block \in BlocksOf(e)
      OBVIOUS
    <2>1. m > 0 /\ Last(e) = e[m] /\ m \in 1..m
      BY <1>7, <1>8, <1>9
    <2>2. QED
      BY <1>0, <1>1, <2>1, BlocksOfFacts
  <1>18. BlocksOf(g) = IF SharedTail(e) THEN (BlocksOf(e) \ {Last(e).block}) \cup ToSet(fresh)
                       ELSE BlocksOf(e) \cup ToSet(fresh)
    <2>1. \A b : b \in BlocksOf(e) <=> \E i \in 1..m : b = e[i].block
      BY <1>0, <1>1, BlocksOfFacts
    <2>2. CASE SharedTail(e)
      <3>1. c = 1
        BY <1>8, <2>2
      <3>2. \A i \in 1..m - 1 : i \in 1..m /\ e[i].block # Last(e).block
        <4> SUFFICES ASSUME NEW i \in 1..m - 1, e[i].block = Last(e).block PROVE FALSE
          BY <1>7
        <4>1. i \in DOMAIN e /\ m \in DOMAIN e /\ e[i].block = e[m].block
          BY <1>0, <1>1, <1>17, <2>2, EntryFacts
        <4>2. i = m
          BY <1>1, <4>1 DEF Shaped
        <4>3. QED
          BY <1>9, <4>2
      <3>3. \A i \in 1..m : e[i].block # Last(e).block => i \in 1..m - 1
        BY <1>9, <1>17, <2>2
      <3>4. ASSUME NEW b
            PROVE  (\E i \in 1..m - 1 : b = e[i].block) <=> b \in BlocksOf(e) \ {Last(e).block}
        BY <2>1, <3>2, <3>3
      <3>5. QED
        BY <1>16, <2>2, <3>1, <3>4
    <2>3. CASE ~SharedTail(e)
      <3>1. c = 0 /\ m - c = m
        BY <1>7, <1>8, <1>9, <2>3
      <3>2. QED
        BY <1>16, <2>1, <2>3, <3>1
    <2>4. QED
      BY <2>2, <2>3
  <1>19. ASSUME NEW i \in 1..Len(g), i < a PROVE i <= m /\ g[i] = e[i]
    <2>1. i <= m - c /\ i \in 1..m
      BY <1>7, <1>8, <1>9, <1>10, <1>19
    <2>2. g[i].block = e[i].block /\ g[i].tokens >= e[i].tokens
      BY <1>0, <1>7, <1>a, <1>b, <2>1
    <2>3. e[i].tokens = BlockSize
      <3>1. CASE PartialTail(e)
        <4>1. i \in DOMAIN e /\ i < Len(e)
          BY <1>0, <1>1, <1>9, <1>10, <1>19, <2>1, <3>1, EntryFacts
        <4>2. QED
          BY <1>1, <4>1 DEF Shaped
      <3>2. QED
        BY <1>8, <2>1, <3>1
    <2>4. g[i] \in Entry /\ e[i] \in Entry /\ g[i].tokens \in Nat /\ g[i].tokens <= BlockSize
      BY <1>0, <1>1, <1>7, <1>19, <2>1, EntryFacts
    <2>5. g[i].tokens = e[i].tokens
      BY <2>2, <2>3, <2>4, SizeFacts
    <2>6. QED
      BY <2>1, <2>2, <2>4, <2>5 DEF Entry
  <1>20. ASSUME NEW i \in a..Len(g)
         PROVE  \/ g[i].block \in ToSet(fresh) /\ (i <= m => SharedTail(e) /\ i = m)
                \/ PartialTail(e) /\ ~SharedTail(e) /\ i = m /\ g[i].block = e[i].block
                   /\ refs[e[i].block] = 1
    <2>1. i \in 1..Len(g) /\ i >= a
      BY <1>7, <1>8, <1>9, <1>10
    <2>2. CASE i > m
      <3>1. i > m - c
        BY <1>7, <2>1, <2>2
      <3>2. g[i].block \in ToSet(fresh)
        BY <1>7, <1>d, <2>1, <3>1
      <3>3. QED
        BY <1>7, <2>1, <2>2, <3>2
    <2>3. CASE i <= m
      <3>1. PartialTail(e) /\ i = m
        BY <1>7, <1>10, <2>1, <2>3
      <3>2. CASE SharedTail(e)
        <4>1. i > m - c
          BY <1>8, <1>9, <3>1, <3>2
        <4>2. g[i].block \in ToSet(fresh)
          BY <1>7, <1>d, <2>1, <4>1
        <4>3. QED
          BY <3>1, <3>2, <4>2
      <3>3. CASE ~SharedTail(e)
        <4>1. i <= m - c
          BY <1>7, <1>8, <1>9, <3>1, <3>3
        <4>2. g[i].block = e[i].block
          BY <1>7, <1>b, <2>1, <4>1
        <4>3. m \in 1..m /\ e[m].block \in BlocksIn(r) /\ Last(e).block = e[m].block
          BY <1>8, <1>9, <1>11, <3>1
        <4>4. refs[e[m].block] \in Nat /\ refs[e[m].block] >= 1
          BY <1>1, <4>3, Held
        <4>5. ~(refs[e[m].block] > 1)
          BY <3>1, <3>3, <4>3 DEF SharedTail
        <4>6. refs[e[m].block] = 1
          BY <4>4, <4>5
        <4>7. QED
          BY <3>1, <3>3, <4>2, <4>6
      <3>4. QED
        BY <3>2, <3>3
    <2>4. QED
      BY <1>7, <2>1, <2>2, <2>3
  <1>21. a \in 1..Len(g) /\ m <= Len(g)
    BY <1>7, <1>8, <1>9, <1>10
  <1>22. QED
    BY <1>0, <1>1, <1>5, <1>6, <1>a, <1>10, <1>15, <1>17, <1>18, <1>19, <1>20, <1>21

\* The step seen from the entries of the new table.
ExtendSeen(r, delta, fresh, e, g, a) ==
    /\ table' = [table EXCEPT ![r] = g]
    /\ length' = [length EXCEPT ![r] = length[r] + Len(delta)]
    /\ refs' \in [Blocks -> Nat]
    /\ used' \in [Blocks -> 0..BlockSize]
    /\ slab' \in [Blocks -> [Slots -> Tokens \cup {Zero}]]
    /\ \A b \in Blocks : refs'[b] = IF b \in ToSet(fresh) THEN 1
                                    ELSE IF SharedTail(e) /\ b = Last(e).block THEN refs[b] - 1
                                    ELSE refs[b]
    /\ \A b \in Blocks \ BlocksFrom(g, a) : used'[b] = used[b] /\ slab'[b] = slab[b]
    /\ \A i \in a..Len(g) :
          /\ g[i].block \in Blocks
          /\ used'[g[i].block] = Greater(used[g[i].block], g[i].tokens)
          /\ \A s \in Slots :
                slab'[g[i].block][s] =
                    IF Start(i) + s - length[r] \in 1..Len(delta)
                    THEN delta[Start(i) + s - length[r]]
                    ELSE IF SharedTail(e) /\ i = Len(e) /\ s <= Last(e).tokens
                         THEN slab[Last(e).block][s]
                    ELSE slab[g[i].block][s]

LEMMA ExtendFacts ==
    ASSUME TypeOK, NEW r \in Live,
           NEW delta \in Seq(Tokens), NEW fresh, NEW a,
           TableGrows(r, Len(delta), fresh, table[r], Grown(table[r], Len(delta), fresh), a),
           Extend(r, delta, fresh)
    PROVE  ExtendSeen(r, delta, fresh, table[r], Grown(table[r], Len(delta), fresh), a)
  <1> DEFINE e == table[r]
             n == Len(delta)
             g == Grown(e, n, fresh)
             Place(b) == CHOOSE i \in DOMAIN g : g[i].block = b
             Content(i, s) ==
               IF Start(i) + s - length[r] \in 1..n THEN delta[Start(i) + s - length[r]]
               ELSE IF SharedTail(e) /\ i = Len(e) /\ s <= Last(e).tokens
                    THEN slab[Last(e).block][s]
               ELSE slab[g[i].block][s]
             W == BlocksOf(Written(e, n, fresh))
  <1>1. /\ e \in Seq(Entry) /\ g \in Seq(Entry) /\ a \in 1..Len(g)
        /\ DOMAIN g = 1..Len(g) /\ Len(g) \in Nat
        /\ Shaped(g, length[r] + n) /\ W = BlocksFrom(g, a)
    BY EntryFacts DEF TableGrows
  <1>2. /\ table' = [table EXCEPT ![r] = g] /\ length' = [length EXCEPT ![r] = @ + n]
        /\ refs' = [b \in Blocks |->
                      IF b \in ToSet(fresh) THEN 1
                      ELSE IF SharedTail(e) /\ b = Last(e).block THEN refs[b] - 1
                      ELSE refs[b]]
    BY DEF Extend
  <1>3. used' = [b \in Blocks |-> IF b \in W THEN Greater(used[b], g[Place(b)].tokens) ELSE used[b]]
    BY DEF Extend
  <1>4. slab' = [b \in Blocks |-> IF b \in W THEN [s \in Slots |-> Content(Place(b), s)] ELSE slab[b]]
    BY DEF Extend
  <1>a. n = Len(delta) /\ TableGrows(r, n, fresh, e, g, a)
    OBVIOUS
  <1> HIDE DEF Place, Content, W, e, n, g
  <1>5. \A i \in a..Len(g) : i \in 1..Len(g) /\ g[i].block \in W /\ g[i].block \in Blocks
    BY <1>1, EntryFacts DEF BlocksFrom
  <1>6. \A b \in W : \E i \in 1..Len(g) : g[i].block = b
    BY <1>1 DEF BlocksFrom
  <1>7. \A b \in W : Place(b) \in 1..Len(g) /\ g[Place(b)].block = b
    BY <1>1, <1>6 DEF Place
  <1>8. \A i \in a..Len(g) : Place(g[i].block) = i
    BY <1>1, <1>5, <1>7 DEF Shaped
  <1>9. refs \in [Blocks -> Nat] /\ used \in [Blocks -> 0..BlockSize]
        /\ slab \in [Blocks -> [Slots -> Tokens \cup {Zero}]] /\ length[r] \in Nat /\ r \in Requests
    BY LiveFacts DEF TypeOK
  <1>10. refs' \in [Blocks -> Nat]
    <2>1. ASSUME NEW b \in Blocks, SharedTail(e), b = Last(e).block PROVE refs[b] - 1 \in Nat
      <3>1. refs[b] > 1 /\ refs[b] \in Nat
        BY <1>9, <2>1 DEF SharedTail
      <3>2. QED
        BY <3>1
    <2>2. QED
      BY <1>2, <1>9, <2>1
  <1>11. used' \in [Blocks -> 0..BlockSize]
    <2>1. ASSUME NEW b \in Blocks, b \in W PROVE Greater(used[b], g[Place(b)].tokens) \in 0..BlockSize
      <3>1. g[Place(b)].tokens \in Nat /\ g[Place(b)].tokens <= BlockSize /\ used[b] \in 0..BlockSize
        BY <1>1, <1>7, <1>9, <2>1, EntryFacts
      <3>2. QED
        BY <3>1, SizeFacts DEF Greater
    <2>2. QED
      BY <1>3, <1>9, <2>1
  <1>12. SharedTail(e) => Last(e).block \in Blocks
    BY <1>1, <1>a, BlocksOfFacts DEF TableGrows
  <1>13. ASSUME NEW i \in 1..Len(g), NEW s \in Slots PROVE Content(i, s) \in Tokens \cup {Zero}
    <2>1. CASE Start(i) + s - length[r] \in 1..n
      BY <1>a, <2>1 DEF Content
    <2>2. CASE ~(Start(i) + s - length[r] \in 1..n)
      <3>1. g[i].block \in Blocks
        BY <1>1, <1>13, EntryFacts
      <3>2. slab[g[i].block][s] \in Tokens \cup {Zero}
        BY <1>9, <3>1
      <3>3. SharedTail(e) => slab[Last(e).block][s] \in Tokens \cup {Zero}
        BY <1>9, <1>12
      <3>4. QED
        BY <2>2, <3>2, <3>3 DEF Content
    <2>3. QED
      BY <2>1, <2>2
  <1>14. slab' \in [Blocks -> [Slots -> Tokens \cup {Zero}]]
    <2>1. ASSUME NEW b \in Blocks, b \in W
          PROVE  [s \in Slots |-> Content(Place(b), s)] \in [Slots -> Tokens \cup {Zero}]
      BY <1>7, <1>13, <2>1
    <2>2. QED
      BY <1>4, <1>9, <2>1
  <1>15. ASSUME NEW i \in a..Len(g)
         PROVE  /\ used'[g[i].block] = Greater(used[g[i].block], g[i].tokens)
                /\ \A s \in Slots : slab'[g[i].block][s] = Content(i, s)
    <2>1. g[i].block \in W /\ g[i].block \in Blocks /\ Place(g[i].block) = i
      BY <1>5, <1>8
    <2>2. used'[g[i].block] = Greater(used[g[i].block], g[i].tokens)
      BY <1>3, <2>1
    <2>3. slab'[g[i].block] = [s \in Slots |-> Content(i, s)]
      BY <1>4, <2>1
    <2>4. QED
      BY <2>2, <2>3
  <1>16. \A b \in Blocks \ W : used'[b] = used[b] /\ slab'[b] = slab[b]
    BY <1>3, <1>4
  <1>17. QED
    <2>1. ExtendSeen(r, delta, fresh, e, g, a)
      BY <1>a, <1>1, <1>2, <1>5, <1>10, <1>11, <1>14, <1>15, <1>16 DEF ExtendSeen, Content
    <2>2. QED
      BY <2>1 DEF e, n, g

\* An append keeps what is known of tables and blocks, and touches no block that
\* another request holds but for a reference it gives back.
LEMMA ExtendKeeps ==
    ASSUME TypeOK, TablesHold, BlocksHold, NEW r \in Live, NEW delta \in Seq(Tokens),
           NEW n \in Nat \ {0}, n = Len(delta), NEW fresh, NEW e, e = table[r], NEW g, NEW a,
           TableGrows(r, n, fresh, e, g, a), ExtendSeen(r, delta, fresh, e, g, a),
           free' \cap pending' = {},
           free' \cup pending' = (free \cup pending) \ ToSet(fresh)
    PROVE  TablesHold' /\ BlocksHold'
  <1> DEFINE W == BlocksFrom(g, a)
  <1>1. /\ r \in Requests /\ e \in Seq(Entry) /\ g \in Seq(Entry) /\ g # None /\ e # None
        /\ a \in 1..Len(g) /\ DOMAIN g = 1..Len(g) /\ Len(e) <= Len(g) /\ DOMAIN e = 1..Len(e)
        /\ Len(e) \in Nat /\ Len(g) \in Nat
    BY LiveFacts, TableIsSome, EntryFacts DEF TableGrows
  <1>2. /\ refs \in [Blocks -> Nat] /\ used \in [Blocks -> 0..BlockSize] /\ length[r] \in Nat
        /\ BlockSize \in Nat
    BY <1>1, SizeFacts DEF TypeOK
  <1>3. /\ table' = [table EXCEPT ![r] = g] /\ length' = [length EXCEPT ![r] = length[r] + n]
        /\ used' \in [Blocks -> 0..BlockSize] /\ refs' \in [Blocks -> Nat]
        /\ \A b \in Blocks : refs'[b] = IF b \in ToSet(fresh) THEN 1
                                    ELSE IF SharedTail(e) /\ b = Last(e).block THEN refs[b] - 1
                                    ELSE refs[b]
        /\ \A b \in Blocks \ W : used'[b] = used[b]
        /\ \A i \in a..Len(g) : used'[g[i].block] = Greater(used[g[i].block], g[i].tokens)
    BY DEF ExtendSeen
  <1>4. BlocksIn(r) = BlocksOf(e) /\ BlocksIn(r)' = BlocksOf(g)
    <2>1. table'[r] = g
      BY <1>1, <1>3 DEF TypeOK
    <2>2. QED
      BY <1>1, <2>1 DEF BlocksIn
  <1>5. /\ ToSet(fresh) \subseteq Blocks
        /\ \A b \in ToSet(fresh) : refs[b] = 0 /\ used[b] = 0 /\ b \notin BlocksOf(e)
        /\ BlocksOf(g) = IF SharedTail(e) THEN (BlocksOf(e) \ {Last(e).block}) \cup ToSet(fresh)
                            ELSE BlocksOf(e) \cup ToSet(fresh)
        /\ SharedTail(e) => Last(e).block \in BlocksOf(e) /\ refs[Last(e).block] > 1
    BY <1>1, <1>4 DEF TableGrows, SharedTail
  <1>6. \A b \in Blocks :
               refs'[b] = IF b \in BlocksIn(r)'
                          THEN IF b \in BlocksIn(r) THEN refs[b] ELSE refs[b] + 1
                          ELSE IF b \in BlocksIn(r) THEN refs[b] - 1 ELSE refs[b]
    BY <1>2, <1>3, <1>4, <1>5
  <1> HIDE DEF W
  <1>7. \A b \in W : \E i \in a..Len(g) : b = g[i].block
    BY DEF W, BlocksFrom
  <1>8. \A i \in 1..Len(g) : g[i].block \in Blocks /\ g[i].tokens \in Nat /\ g[i].tokens >= 1
                             /\ g[i].block \in BlocksOf(g)
    BY <1>1, EntryFacts, BlocksOfFacts
  <1>9. \A i \in a..Len(g) : i \in 1..Len(g)
    BY <1>1
  <1>10. \A b \in Blocks : used[b] \in Nat /\ used'[b] \in Nat /\ used'[b] >= used[b]
    <2> SUFFICES ASSUME NEW b \in Blocks
                 PROVE  used[b] \in Nat /\ used'[b] \in Nat /\ used'[b] >= used[b]
      OBVIOUS
    <2>1. used[b] \in Nat /\ used'[b] \in Nat
      BY <1>2, <1>3
    <2>2. CASE b \in W
      <3>1. PICK i \in a..Len(g) : b = g[i].block
        BY <1>7, <2>2
      <3>2. used'[b] = Greater(used[b], g[i].tokens) /\ g[i].tokens \in Nat
        BY <1>3, <1>8, <1>9, <3>1
      <3>3. QED
        BY <2>1, <3>2 DEF Greater
    <2>3. CASE b \notin W
      BY <1>3, <2>1, <2>3
    <2>4. QED
      BY <2>2, <2>3
  <1>11. \A i \in a..Len(g) : used'[g[i].block] >= g[i].tokens
    BY <1>2, <1>3, <1>8, <1>9 DEF Greater
  <1>12. Within(g)'
    <2> SUFFICES ASSUME NEW i \in 1..Len(g) PROVE g[i].tokens <= used'[g[i].block]
      BY <1>1 DEF Within
    <2>1. CASE i \in a..Len(g)
      BY <1>8, <1>10, <1>11, <2>1
    <2>2. CASE i < a
      <3>1. i \in 1..Len(e) /\ g[i] = e[i]
        BY <1>1, <2>2 DEF TableGrows
      <3>2. e[i].tokens <= used[e[i].block]
        BY <1>1, <3>1 DEF TablesHold, Within
      <3>3. QED
        BY <1>8, <1>10, <3>1, <3>2, SMTT(30)
    <2>3. QED
      BY <1>1, <2>1, <2>2
  <1>13. ASSUME NEW b \in ToSet(fresh) PROVE used'[b] # 0
    <2>1. b \in BlocksOf(g) /\ b \notin BlocksOf(e) /\ b \in Blocks
      BY <1>5
    <2>2. PICK i \in 1..Len(g) : b = g[i].block
      BY <1>1, <2>1, BlocksOfFacts
    <2>3. i \in a..Len(g)
      <3>1. CASE i < a
        <4>1. i \in 1..Len(e) /\ g[i] = e[i]
          BY <1>1, <3>1 DEF TableGrows
        <4>2. QED
          BY <1>1, <2>1, <2>2, <4>1, BlocksOfFacts
      <3>2. QED
        BY <1>1, <3>1
    <2>4. used'[b] >= g[i].tokens /\ g[i].tokens >= 1 /\ g[i].tokens \in Nat
      BY <1>8, <1>11, <2>2, <2>3
    <2>5. QED
      BY <1>10, <2>1, <2>4
  <1>14. \A b \in Blocks : /\ refs'[b] = 0 <=> refs[b] = 0 /\ b \notin ToSet(fresh)
                           /\ refs[b] \in Nat
    <2> SUFFICES ASSUME NEW b \in Blocks
                 PROVE  /\ refs'[b] = 0 <=> refs[b] = 0 /\ b \notin ToSet(fresh)
                        /\ refs[b] \in Nat
      OBVIOUS
    <2>1. refs[b] \in Nat
      BY <1>2
    <2>2. QED
      BY <1>3, <1>5, <2>1
  <1>15. \A b \in Blocks : refs'[b] = 0 <=> b \in free' \cup pending'
    BY <1>14 DEF BlocksHold
  <1>16. \A b \in Blocks : refs'[b] = 0 <=> used'[b] = 0
    <2> SUFFICES ASSUME NEW b \in Blocks PROVE refs'[b] = 0 <=> used'[b] = 0
      OBVIOUS
    <2>1. CASE b \in ToSet(fresh)
      BY <1>13, <1>14, <2>1
    <2>2. CASE b \notin ToSet(fresh) /\ refs[b] # 0
      <3>1. used[b] # 0
        BY <2>2 DEF BlocksHold
      <3>2. QED
        BY <1>10, <1>14, <2>2, <3>1
    <2>3. CASE b \notin ToSet(fresh) /\ refs[b] = 0
      <3>1. used[b] = 0 /\ b \notin BlocksOf(e)
        BY <1>1, <1>4, <2>3, Held DEF BlocksHold
      <3>2. b \notin BlocksOf(g)
        BY <1>5, <2>3, <3>1
      <3>3. b \notin W
        BY <1>7, <1>8, <1>9, <3>2
      <3>4. QED
        BY <1>3, <1>14, <2>3, <3>1, <3>3
    <2>4. QED
      BY <2>1, <2>2, <2>3
  <1>17. length[r] + n \in Nat /\ Shaped(g, length[r] + n)
    BY <1>2 DEF TableGrows
  <1>18. QED
    <2> DEFINE len == length[r] + n
    <2>1. len \in Nat /\ Shaped(g, len) /\ length' = [length EXCEPT ![r] = len]
      BY <1>3, <1>17
    <2> HIDE DEF len
    <2>2. IF g = None THEN len = 0 ELSE Shaped(g, len) /\ Within(g)'
      BY <1>1, <1>12, <2>1
    <2>3. \A b \in Blocks : (\E q \in Requests \ {r} : b \in BlocksIn(q)) => used'[b] >= used[b]
      BY <1>10
    <2>4. \A b \in Blocks : /\ refs'[b] = 0 <=> b \in free' \cup pending'
                            /\ refs'[b] = 0 <=> used'[b] = 0
      BY <1>15, <1>16
    <2>5. g \in Seq(Entry) \cup {None}
      BY <1>1
    <2>6. QED
      <3>1. Edited(r, g, len)
        <4>1. /\ table' = [table EXCEPT ![r] = g] /\ used' \in [Blocks -> 0..BlockSize]
              /\ free' \cap pending' = {}
          BY <1>3
        <4>2. QED
          BY <1>6, <2>1, <2>2, <2>3, <2>4, <2>5, <4>1, Zenon DEF Edited, Within
      <3>2. QED
        BY <1>1, <3>1, Edit

\* What an append writes to is held by nobody else.
LEMMA ExtendElsewhere ==
    ASSUME TypeOK, BlocksHold, NEW r \in Live, NEW delta, NEW n, NEW fresh,
           NEW e, e = table[r], NEW g, NEW a,
           TableGrows(r, n, fresh, e, g, a), ExtendSeen(r, delta, fresh, e, g, a)
    PROVE  /\ \A q \in Requests \ {r} : \A b \in BlocksIn(q) : slab'[b] = slab[b] /\ refs'[b] <= refs[b]
           /\ \A b \in Blocks : refs[b] = 0 /\ b \notin ToSet(fresh) => refs'[b] = 0
  <1>1. /\ r \in Requests /\ e \in Seq(Entry) /\ e # None /\ g \in Seq(Entry)
        /\ a \in 1..Len(g) /\ Len(g) \in Nat /\ refs \in [Blocks -> Nat]
    BY LiveFacts, EntryFacts DEF TableGrows, TypeOK
  <1>2. ASSUME NEW q \in Requests \ {r}, NEW b \in BlocksIn(q)
        PROVE  slab'[b] = slab[b] /\ refs'[b] <= refs[b]
    <2>1. b \in Blocks /\ refs[b] \in Nat /\ refs[b] >= 1 /\ (refs[b] = 1 => b \notin BlocksIn(r))
      BY <1>1, Held
    <2>2. b \notin ToSet(fresh)
      BY DEF TableGrows
    <2>3. b \notin BlocksFrom(g, a)
      <3> SUFFICES ASSUME NEW i \in a..Len(g), b = g[i].block PROVE FALSE
        BY DEF BlocksFrom
      <3>1. PartialTail(e) /\ i = Len(e) /\ b = e[i].block /\ refs[b] = 1
        BY <2>2 DEF TableGrows
      <3>2. i \in 1..Len(e)
        BY <1>1, <3>1
      <3>3. b \in BlocksIn(r)
        BY <1>1, <3>1, <3>2, BlocksOfFacts DEF BlocksIn
      <3>4. QED
        BY <2>1, <3>1, <3>3
    <2>4. QED
      BY <2>1, <2>2, <2>3 DEF ExtendSeen
  <1>3. ASSUME NEW b \in Blocks, refs[b] = 0, b \notin ToSet(fresh) PROVE refs'[b] = 0
    BY <1>3 DEF ExtendSeen, SharedTail
  <1>4. QED
    BY <1>2, <1>3

-----------------------------------------------------------------------------
(* fork_request and truncate *)

\* x is the table of the first n tokens of e: its whole entries, and an entry in
\* the block of B for what remains of the next one.
Shortened(e, n, w, rest, B, x) ==
    /\ x \in Seq(Entry) /\ Shaped(x, n) /\ w \in 0..Len(e) /\ rest \in Nat
    /\ \A i \in 1..w : i \in 1..Len(x) /\ x[i] = e[i]
    /\ rest = 0 => Len(x) = w /\ B = {}
    /\ rest > 0 => /\ Len(x) = w + 1 /\ w + 1 \in 1..Len(e)
                   /\ rest \in Slots /\ rest < e[w + 1].tokens
                   /\ B = {x[w + 1].block} /\ x[w + 1].tokens = rest
    /\ BlocksOf(x) = BlocksOf(SubSeq(e, 1, w)) \cup B
    /\ Len(SubSeq(e, 1, w)) = w
    /\ \A b : b \in BlocksOf(SubSeq(e, 1, w)) <=> \E i \in 1..w : b = e[i].block

\* The first w entries of a table, and the same with one more entry.
LEMMA ShapedWhole ==
    ASSUME NEW e \in Seq(Entry), NEW len, Shaped(e, len), NEW w \in 0..Len(e),
           NEW n, n = IF w = 0 THEN 0 ELSE Start(w) + e[w].tokens,
           NEW s \in Seq(Entry), Len(s) = w, \A i \in 1..w : s[i] = e[i]
    PROVE  Shaped(s, n)
  <1>1. /\ w \in Nat /\ Len(e) \in Nat /\ DOMAIN e = 1..Len(e) /\ w <= Len(e)
        /\ DOMAIN s = 1..w /\ (s # <<>> <=> w > 0) /\ (s # <<>> => Last(s) = s[w])
    BY EntryFacts
  <1>2. \A i, j \in DOMAIN s : s[i].block = s[j].block => i = j
    BY <1>1 DEF Shaped
  <1>3. \A i \in DOMAIN s : i < Len(s) => s[i].tokens = BlockSize
    BY <1>1 DEF Shaped
  <1>4. s # <<>> => Last(s) = e[w]
    BY <1>1
  <1>5. n = IF s = <<>> THEN 0 ELSE Start(Len(s)) + Last(s).tokens
    BY <1>1, <1>4
  <1>6. QED
    BY <1>2, <1>3, <1>5 DEF Shaped

HasOneMore(x, s, w, z) ==
    /\ x \in Seq(Entry) /\ Len(x) = w + 1 /\ w \in Nat
    /\ \A i \in 1..w : i \in 1..w + 1 /\ x[i] = s[i]
    /\ x[w + 1] = z /\ Last(x) = z /\ x # <<>> /\ DOMAIN x = 1..w + 1
    /\ BlocksOf(x) = BlocksOf(s) \cup {z.block}

LEMMA OneMore ==
    ASSUME NEW s \in Seq(Entry), NEW z \in Entry
    PROVE  HasOneMore(s \o <<z>>, s, Len(s), z)
  <1> DEFINE x == s \o <<z>>
             w == Len(s)
  <1>1. <<z>> \in Seq(Entry) /\ Len(<<z>>) = 1 /\ <<z>>[1] = z /\ w \in Nat
    OBVIOUS
  <1>2. /\ s \o <<z>> \in Seq(Entry) /\ Len(s \o <<z>>) = Len(s) + Len(<<z>>)
        /\ \A i \in 1..Len(s) + Len(<<z>>) :
              (s \o <<z>>)[i] = IF i <= Len(s) THEN s[i] ELSE <<z>>[i - Len(s)]
    BY <1>1, ConcatAt
  <1>3. /\ x \in Seq(Entry) /\ Len(x) = w + 1
        /\ \A i \in 1..w + 1 : x[i] = IF i <= w THEN s[i] ELSE <<z>>[i - w]
    BY <1>1, <1>2
  <1>a. w = Len(s)
    OBVIOUS
  <1> HIDE DEF x, w
  <1>4. x[w + 1] = z
    <2>1. w + 1 \in 1..w + 1 /\ ~(w + 1 <= w) /\ (w + 1) - w = 1
      BY <1>1
    <2>2. QED
      BY <1>1, <1>3, <2>1
  <1>5. \A i \in 1..w : i \in 1..w + 1 /\ x[i] = s[i]
    BY <1>1, <1>3
  <1>6. x # <<>> /\ Last(x) = z /\ DOMAIN x = 1..w + 1
    <2>1. Len(x) > 0
      BY <1>1, <1>3
    <2>2. DOMAIN x = 1..Len(x) /\ x # <<>> /\ Last(x) = x[Len(x)]
      BY <1>3, <2>1, EntryFacts
    <2>3. QED
      BY <1>3, <1>4, <2>2
  <1>7. BlocksOf(x) = BlocksOf(s) \cup {z.block}
    <2>1. \A y : y \in BlocksOf(x) <=> \E i \in 1..w + 1 : y = x[i].block
      BY <1>3, BlocksOfFacts
    <2>2. \A y : y \in BlocksOf(s) <=> \E i \in 1..w : y = s[i].block
      BY <1>a, BlocksOfFacts
    <2>3. \A i \in 1..w + 1 : i \in 1..w \/ i = w + 1
      BY <1>1
    <2>4. w + 1 \in 1..w + 1
      BY <1>1
    <2>5. ASSUME NEW y PROVE y \in BlocksOf(x) <=> y \in BlocksOf(s) \/ y = z.block
      BY <1>4, <1>5, <2>1, <2>2, <2>3, <2>4
    <2>6. QED
      BY <2>5
  <1>8. QED
    BY <1>1, <1>3, <1>4, <1>5, <1>6, <1>7 DEF HasOneMore, x, w

LEMMA ShapedPart ==
    ASSUME NEW e \in Seq(Entry), NEW len, Shaped(e, len), NEW w \in Nat, w < Len(e),
           NEW z \in Entry, NEW n, n = Start(w + 1) + z.tokens,
           NEW s \in Seq(Entry), Len(s) = w, \A i \in 1..w : s[i] = e[i],
           z.block \notin BlocksOf(s), NEW x, x = s \o <<z>>
    PROVE  Shaped(x, n)
  <1>1. /\ x \in Seq(Entry) /\ Len(x) = w + 1 /\ DOMAIN x = 1..w + 1
        /\ \A i \in 1..w : i \in 1..w + 1 /\ x[i] = s[i]
        /\ x[w + 1] = z /\ Last(x) = z /\ x # <<>>
    <2>1. HasOneMore(x, s, w, z)
      BY OneMore
    <2>2. QED
      BY <2>1 DEF HasOneMore
  <1>2. /\ Len(e) \in Nat /\ DOMAIN e = 1..Len(e)
        /\ \A i \in 1..w : i \in DOMAIN e /\ i < Len(e) /\ s[i].block # z.block
    <2>1. Len(e) \in Nat /\ DOMAIN e = 1..Len(e)
      BY EntryFacts
    <2>2. \A i \in 1..w : i \in 1..Len(e) /\ i < Len(e)
      BY <2>1
    <2>3. \A b : b \in BlocksOf(s) <=> \E i \in 1..Len(s) : b = s[i].block
      BY BlocksOfFacts
    <2>4. \A i \in 1..w : s[i].block # z.block
      BY <2>3
    <2>5. QED
      BY <2>1, <2>2, <2>4
  <1>3. \A i \in 1..w + 1 : i \in 1..w \/ i = w + 1
    OBVIOUS
  <1>4. \A i, j \in 1..w + 1 : x[i].block = x[j].block => i = j
    <2> SUFFICES ASSUME NEW i \in 1..w + 1, NEW j \in 1..w + 1, x[i].block = x[j].block
                 PROVE  i = j
      OBVIOUS
    <2>1. CASE i \in 1..w /\ j \in 1..w
      <3>1. e[i].block = e[j].block /\ i \in DOMAIN e /\ j \in DOMAIN e
        BY <1>1, <1>2, <2>1
      <3>2. QED
        BY <3>1 DEF Shaped
    <2>2. CASE i = w + 1 \/ j = w + 1
      BY <1>1, <1>2, <1>3, <2>2
    <2>3. QED
      BY <1>3, <2>1, <2>2
  <1>5. \A i \in 1..w + 1 : i < w + 1 => x[i].tokens = BlockSize
    <2> SUFFICES ASSUME NEW i \in 1..w + 1, i < w + 1 PROVE x[i].tokens = BlockSize
      OBVIOUS
    <2>1. i \in 1..w /\ x[i] = e[i] /\ i \in DOMAIN e /\ i < Len(e)
      BY <1>1, <1>2
    <2>2. QED
      BY <2>1 DEF Shaped
  <1>6. QED
    BY <1>1, <1>4, <1>5 DEF Shaped

Cut(e, w, rest, B) == SubSeq(e, 1, w) \o SetToSeq({[block |-> b, tokens |-> rest] : b \in B})

LEMMA ShortenedFacts ==
    ASSUME NEW e \in Seq(Entry), NEW len, Shaped(e, len), NEW n \in Nat, n <= len,
           NEW w, w = Whole(e, n), NEW rest, rest = Remainder(e, n), NEW B,
           rest = 0 => B = {},
           rest > 0 => \E b \in Blocks \ BlocksOf(SubSeq(e, 1, w)) : B = {b},
           NEW x, x = Cut(e, w, rest, B)
    PROVE  Shortened(e, n, w, rest, B, x)
  <1> DEFINE s == SubSeq(e, 1, w)
  <1>1. /\ w \in 0..Len(e) /\ rest \in Nat
        /\ rest > 0 => /\ w < Len(e) /\ rest < e[w + 1].tokens /\ rest \in Slots
                       /\ n = Start(w + 1) + rest
        /\ rest = 0 => n = IF w = 0 THEN 0 ELSE Start(w) + e[w].tokens
    BY CutFacts
  <1>2. /\ s \in Seq(Entry) /\ Len(s) = w /\ \A i \in 1..w : s[i] = e[i]
        /\ w \in Nat /\ Len(e) \in Nat /\ w <= Len(e)
    BY <1>1, SubSeqFacts, EntryFacts
  <1>3. s = SubSeq(e, 1, w)
    OBVIOUS
  <1> HIDE DEF s
  <1>4. \A b : b \in BlocksOf(s) <=> \E i \in 1..w : b = e[i].block
    <2>1. \A b : b \in BlocksOf(s) <=> \E i \in 1..w : b = s[i].block
      BY <1>2, BlocksOfFacts
    <2>2. QED
      BY <1>2, <2>1
  <1>5. CASE rest = 0
    <2>1. B = {} /\ {[block |-> b, tokens |-> rest] : b \in B} = {}
      BY <1>5
    <2>2. x = s
      BY <1>2, <1>3, <2>1, SeqOfNone, ConcatEmptySeq DEF Cut
    <2>3. Shaped(s, n)
      BY <1>1, <1>2, <1>5, ShapedWhole
    <2>4. BlocksOf(x) = BlocksOf(s) \cup B /\ ~(rest > 0)
      BY <1>5, <2>1, <2>2
    <2>5. Len(x) = w /\ \A i \in 1..w : i \in 1..Len(x) /\ x[i] = e[i]
      BY <1>2, <2>2
    <2>6. QED
      BY <1>1, <1>2, <1>3, <1>4, <1>5, <2>1, <2>2, <2>3, <2>4, <2>5 DEF Shortened
  <1>6. CASE rest > 0
    <2>1. PICK b \in Blocks \ BlocksOf(s) : B = {b}
      BY <1>3, <1>6
    <2> DEFINE z == [block |-> b, tokens |-> rest]
    <2>2. z \in Entry /\ z.block = b /\ z.tokens = rest
      BY <1>1, <1>6 DEF Entry
    <2>3. {[block |-> y, tokens |-> rest] : y \in B} = {z}
      BY <2>1
    <2> HIDE DEF z
    <2>4. x = s \o <<z>>
      BY <1>3, <2>3, SeqOfOne DEF Cut
    <2>5. Shaped(x, n)
      <3>1. z.block \notin BlocksOf(s) /\ w < Len(e) /\ n = Start(w + 1) + z.tokens
        BY <1>1, <1>6, <2>1, <2>2
      <3>2. QED
        BY <1>2, <2>2, <2>4, <3>1, ShapedPart
    <2>6. /\ x \in Seq(Entry) /\ Len(x) = w + 1 /\ w \in Nat
          /\ \A i \in 1..w : i \in 1..w + 1 /\ x[i] = s[i]
          /\ x[w + 1] = z
          /\ BlocksOf(x) = BlocksOf(s) \cup {z.block}
      <3>1. HasOneMore(x, s, w, z)
        BY <1>2, <2>2, <2>4, OneMore
      <3>2. QED
        BY <3>1 DEF HasOneMore
    <2>7. rest # 0 /\ w + 1 \in 1..Len(e) /\ B = {x[w + 1].block} /\ x[w + 1].tokens = rest
      <3>1. w + 1 \in 1..Len(e) /\ rest # 0
        BY <1>1, <1>2, <1>6
      <3>2. QED
        BY <2>1, <2>2, <2>6, <3>1
    <2>8. BlocksOf(x) = BlocksOf(s) \cup B
      BY <2>1, <2>2, <2>6
    <2>9. \A i \in 1..w : i \in 1..Len(x) /\ x[i] = e[i]
      BY <1>2, <2>6
    <2>10. QED
      BY <1>1, <1>2, <1>3, <1>4, <1>6, <2>5, <2>6, <2>7, <2>8, <2>9 DEF Shortened
  <1>7. QED
    BY <1>1, <1>5, <1>6

LEMMA SubSeqBlocks ==
    ASSUME NEW e \in Seq(Entry), NEW w \in 0..Len(e)
    PROVE  \A b : b \in BlocksOf(SubSeq(e, 1, w)) <=> \E i \in 1..w : b = e[i].block
  <1> DEFINE s == SubSeq(e, 1, w)
  <1>1. s \in Seq(Entry) /\ Len(s) = w /\ \A i \in 1..w : s[i] = e[i]
    BY SubSeqFacts
  <1> HIDE DEF s
  <1>2. \A b : b \in BlocksOf(s) <=> \E i \in 1..w : b = s[i].block
    BY <1>1, BlocksOfFacts
  <1>3. \A b : b \in BlocksOf(s) <=> \E i \in 1..w : b = e[i].block
    BY <1>1, <1>2
  <1>4. QED
    BY <1>3 DEF s

-----------------------------------------------------------------------------
(* References given back *)

LEMMA ReleaseFacts ==
    ASSUME TypeOK, BlocksHold, NEW r \in Requests, NEW S \in SUBSET BlocksIn(r),
           ReleaseRefs(S), pending' = pending
    PROVE  /\ refs' \in [Blocks -> Nat] /\ free' \subseteq Blocks /\ free' \cap pending' = {}
           /\ \A b \in Blocks : refs'[b] = IF b \in S THEN refs[b] - 1 ELSE refs[b]
           /\ \A b \in Blocks : refs'[b] = 0 <=> b \in free' \cup pending'
           /\ \A b \in Blocks : refs'[b] = 0 <=> used[b] = 0 \/ b \in Freed(S)
           /\ \A b \in Freed(S) : b \in Blocks /\ b \in S
           /\ \A b \in BlocksIn(r), q \in Requests \ {r} : Unshared(b) => b \notin BlocksIn(q)
           /\ Freed(S) \subseteq S
  <1>1. /\ refs \in [Blocks -> Nat] /\ free \subseteq Blocks
        /\ refs' = [b \in Blocks |-> IF b \in S THEN refs[b] - 1 ELSE refs[b]]
        /\ free' = free \cup Freed(S)
    BY DEF TypeOK, ReleaseRefs, Dropped
  <1>2. \A b \in S : /\ b \in Blocks /\ refs[b] \in Nat /\ refs[b] >= 1
                     /\ b \notin free /\ b \notin pending /\ used[b] # 0
    BY Held
  <1>3. \A b : b \in Freed(S) <=> b \in S /\ refs[b] = 1
    BY DEF Freed, Unshared
  <1>4. refs' \in [Blocks -> Nat]
    BY <1>1, <1>2
  <1>5. free' \subseteq Blocks /\ free' \cap pending' = {}
    BY <1>1, <1>2, <1>3 DEF BlocksHold
  <1>6. \A b \in Blocks : refs'[b] = 0 <=> refs[b] = 0 \/ b \in Freed(S)
    BY <1>1, <1>2, <1>3
  <1>7. \A b \in Blocks : refs'[b] = 0 <=> b \in free' \cup pending'
    BY <1>1, <1>6 DEF BlocksHold
  <1>8. \A b \in Blocks : refs'[b] = 0 <=> used[b] = 0 \/ b \in Freed(S)
    BY <1>6 DEF BlocksHold
  <1>9. \A b \in BlocksIn(r), q \in Requests \ {r} : Unshared(b) => b \notin BlocksIn(q)
    BY Held DEF Unshared
  <1>10. QED
    BY <1>1, <1>2, <1>3, <1>4, <1>5, <1>7, <1>8, <1>9

-----------------------------------------------------------------------------
(* Every operation keeps the invariant *)

LEMMA InitKeeps == Init => PoolInv
  <1> SUFFICES ASSUME Init PROVE PoolInv
    OBVIOUS
  <1>1. TypeOK
    BY SizeFacts DEF Init, TypeOK
  <1>2. \A r \in Requests : table[r] = None /\ length[r] = 0
    BY DEF Init
  <1>3. \A b : Holders(b) = {}
    BY <1>2 DEF Holders, BlocksIn
  <1>4. BlocksHold
    <2>1. \A b \in Blocks : Cardinality(Holders(b)) = 0
      BY <1>3, FS_EmptySet
    <2>2. free \cap pending = {} /\ \A b \in Blocks : refs[b] = 0 /\ used[b] = 0 /\ b \in free
      BY DEF Init
    <2>3. QED
      BY <2>1, <2>2 DEF BlocksHold
  <1>5. QED
    BY <1>1, <1>2, <1>4 DEF PoolInv, TablesHold, BatchKnown, Init

LEMMA CreateKeeps ==
    ASSUME PoolInv, NEW r \in Requests, Create(r)
    PROVE  PoolInv'
  <1>1. /\ TypeOK /\ TablesHold /\ BlocksHold /\ table[r] = None /\ length[r] = 0
        /\ table' = [table EXCEPT ![r] = <<>>]
        /\ UNCHANGED <<free, refs, used, length, slab, phase, batch, pending>> /\ phase # "commit"
    BY DEF PoolInv, Create, TablesHold, Live, batchVars
  <1>2. /\ table \in [Requests -> Seq(Entry) \cup {None}] /\ length \in [Requests -> Nat]
        /\ used \in [Blocks -> 0..BlockSize] /\ refs \in [Blocks -> Nat]
    BY <1>1 DEF TypeOK
  <1>3. <<>> \in Seq(Entry) /\ <<>> # None
    <2>1. <<>> \in Seq(Entry)
      OBVIOUS
    <2>2. QED
      BY <2>1, TableIsSome
  <1>4. TypeOK'
    BY <1>1, <1>2, <1>3 DEF TypeOK
  <1>5. Edited(r, <<>>, 0)
    <2>1. BlocksIn(r) = {} /\ BlocksIn(r)' = {}
      <3>1. table'[r] = <<>>
        BY <1>1, <1>2
      <3>2. QED
        BY <1>1, <3>1 DEF BlocksIn, BlocksOf
    <2>2. length' = [length EXCEPT ![r] = 0]
      BY <1>1, <1>2
    <2>3. Shaped(<<>>, 0) /\ \A i \in DOMAIN <<>> : <<>>[i].tokens <= used'[<<>>[i].block]
      BY DEF Shaped
    <2>4. \A b \in Blocks : used'[b] >= used[b]
      BY <1>1, <1>2
    <2>5. \A b \in Blocks : /\ refs'[b] = 0 <=> b \in free' \cup pending'
                            /\ refs'[b] = 0 <=> used'[b] = 0
      BY <1>1 DEF BlocksHold
    <2>6. free' \cap pending' = {}
      BY <1>1 DEF BlocksHold
    <2>7. QED
      BY <1>1, <1>2, <1>3, <2>1, <2>2, <2>3, <2>4, <2>5, <2>6 DEF Edited
  <1>6. TablesHold' /\ BlocksHold'
    BY <1>1, <1>5, Edit
  <1>7. QED
    BY <1>1, <1>4, <1>6 DEF PoolInv, BatchKnown

LEMMA ReleaseKeeps ==
    ASSUME PoolInv, NEW r \in Requests, Release(r)
    PROVE  PoolInv'
  <1> DEFINE blocks == BlocksOf(table[r])
  <1>1. /\ TypeOK /\ TablesHold /\ BlocksHold /\ phase # "commit"
        /\ table[r] \in Seq(Entry) /\ table[r] # None
        /\ ReleaseRefs(blocks)
        /\ used' = [b \in Blocks |-> IF b \in Freed(blocks) THEN 0 ELSE used[b]]
        /\ slab' = [b \in Blocks |-> IF b \in Freed(blocks) THEN [s \in Slots |-> Zero] ELSE slab[b]]
        /\ table' = [table EXCEPT ![r] = None]
        /\ length' = [length EXCEPT ![r] = 0]
        /\ phase' = phase /\ batch' = batch /\ pending' = pending
    BY LiveFacts DEF PoolInv, Release, batchVars
  <1>2. BlocksIn(r) = blocks
    BY <1>1 DEF BlocksIn
  <1> HIDE DEF blocks
  <1>3. /\ table \in [Requests -> Seq(Entry) \cup {None}] /\ length \in [Requests -> Nat]
        /\ used \in [Blocks -> 0..BlockSize] /\ slab \in [Blocks -> [Slots -> Tokens \cup {Zero}]]
        /\ BlockSize \in Nat
    BY <1>1, SizeFacts DEF TypeOK
  <1>4. /\ refs' \in [Blocks -> Nat] /\ free' \subseteq Blocks /\ free' \cap pending' = {}
        /\ \A b \in Blocks : refs'[b] = IF b \in blocks THEN refs[b] - 1 ELSE refs[b]
        /\ \A b \in Blocks : refs'[b] = 0 <=> b \in free' \cup pending'
        /\ \A b \in Blocks : refs'[b] = 0 <=> used[b] = 0 \/ b \in Freed(blocks)
        /\ \A b \in BlocksIn(r), q \in Requests \ {r} : Unshared(b) => b \notin BlocksIn(q)
        /\ Freed(blocks) \subseteq blocks
    BY <1>1, <1>2, ReleaseFacts
  <1>5. used' \in [Blocks -> 0..BlockSize] /\ slab' \in [Blocks -> [Slots -> Tokens \cup {Zero}]]
    BY <1>1, <1>3
  <1>6. TypeOK'
    BY <1>1, <1>3, <1>4, <1>5 DEF TypeOK
  <1>7. Edited(r, None, 0)
    <2>1. BlocksIn(r)' = {}
      <3>1. table'[r] = None
        BY <1>1, <1>3
      <3>2. QED
        BY <3>1 DEF BlocksIn
    <2>2. \A b \in Blocks : refs'[b] = IF b \in BlocksIn(r)'
                     THEN IF b \in BlocksIn(r) THEN refs[b] ELSE refs[b] + 1
                     ELSE IF b \in BlocksIn(r) THEN refs[b] - 1 ELSE refs[b]
      BY <1>2, <1>4, <2>1
    <2>3. ASSUME NEW b \in Blocks, NEW q \in Requests \ {r}, b \in BlocksIn(q)
          PROVE  used'[b] >= used[b]
      <3>1. b \notin Freed(blocks)
        BY <1>2, <1>4, <2>3 DEF Freed
      <3>2. QED
        BY <1>1, <1>3, <3>1
    <2>4. \A b \in Blocks : refs'[b] = 0 <=> used'[b] = 0
      BY <1>1, <1>4
    <2>5. QED
      BY <1>1, <1>4, <1>5, <2>2, <2>3, <2>4 DEF Edited
  <1>8. TablesHold' /\ BlocksHold'
    BY <1>1, <1>7, Edit
  <1>9. QED
    BY <1>1, <1>6, <1>8 DEF PoolInv, BatchKnown

LEMMA TruncateKeeps ==
    ASSUME PoolInv, NEW r \in Requests, NEW n \in 0..length[r], Truncate(r, n)
    PROVE  /\ PoolInv'
           /\ \E x, B : /\ table' = [table EXCEPT ![r] = x]
                        /\ Shortened(table[r], n, Whole(table[r], n), Remainder(table[r], n), B, x)
                        /\ \A i \in 1..Len(x) : x[i].block = table[r][i].block
  <1> DEFINE e == table[r]
             w == Whole(e, n)
             rest == Remainder(e, n)
             cut == IF rest > 0 THEN {e[w + 1].block} ELSE {}
             dropped == BlocksOf(e) \ (BlocksOf(SubSeq(e, 1, w)) \cup cut)
             x == SubSeq(e, 1, w) \o SetToSeq({[block |-> b, tokens |-> rest] : b \in cut})
  <1>1. TypeOK /\ TablesHold /\ BlocksHold
    BY DEF PoolInv
  <1>2. /\ phase # "commit" /\ r \in Live /\ n < length[r]
        /\ ReleaseRefs(dropped)
        /\ used' = [b \in Blocks |-> IF b \in Freed(dropped) THEN 0
                                     ELSE IF b \in cut /\ Unshared(b) THEN rest ELSE used[b]]
        /\ table' = [table EXCEPT ![r] = x]
        /\ length' = [length EXCEPT ![r] = n]
        /\ slab' = slab /\ phase' = phase /\ batch' = batch /\ pending' = pending
    BY DEF Truncate, batchVars
  <1>3. /\ e \in Seq(Entry) /\ e # None /\ Shaped(e, length[r]) /\ Within(e)
        /\ length[r] \in Nat /\ n \in Nat /\ n <= length[r] /\ DOMAIN e = 1..Len(e)
    BY <1>1, <1>2, LiveFacts, EntryFacts DEF TablesHold, TypeOK
  <1>4. /\ w \in 0..Len(e) /\ rest \in Nat
        /\ rest > 0 => /\ w < Len(e) /\ rest < e[w + 1].tokens /\ rest \in Slots
    BY <1>3, CutFacts
  <1>a. /\ w = Whole(e, n) /\ rest = Remainder(e, n)
        /\ cut = (IF rest > 0 THEN {e[w + 1].block} ELSE {})
        /\ dropped = BlocksOf(e) \ (BlocksOf(SubSeq(e, 1, w)) \cup cut)
        /\ x = SubSeq(e, 1, w) \o SetToSeq({[block |-> b, tokens |-> rest] : b \in cut})
        /\ e = table[r]
    OBVIOUS
  <1> HIDE DEF e, w, rest, cut, dropped, x
  <1>5. rest > 0 => /\ w + 1 \in 1..Len(e) /\ e[w + 1].block \in Blocks \ BlocksOf(SubSeq(e, 1, w))
                    /\ e[w + 1].block \in BlocksOf(e)
    <2> SUFFICES ASSUME rest > 0
                 PROVE  /\ w + 1 \in 1..Len(e)
                        /\ e[w + 1].block \in Blocks \ BlocksOf(SubSeq(e, 1, w))
                        /\ e[w + 1].block \in BlocksOf(e)
      OBVIOUS
    <2>1. w + 1 \in 1..Len(e) /\ e[w + 1].block \in Blocks /\ e[w + 1].block \in BlocksOf(e)
      BY <1>3, <1>4, EntryFacts, BlocksOfFacts
    <2>2. \A i \in 1..w : i \in DOMAIN e /\ w + 1 \in DOMAIN e /\ i # w + 1
      BY <1>3, <1>4, <2>1
    <2>3. \A i \in 1..w : e[i].block # e[w + 1].block
      BY <1>3, <2>2 DEF Shaped
    <2>4. e[w + 1].block \notin BlocksOf(SubSeq(e, 1, w))
      BY <1>3, <1>4, <2>3, SubSeqBlocks
    <2>5. QED
      BY <2>1, <2>4
  <1>6. Shortened(e, n, w, rest, cut, x)
    <2>1. rest = 0 => cut = {}
      BY <1>a
    <2>2. rest > 0 => \E b \in Blocks \ BlocksOf(SubSeq(e, 1, w)) : cut = {b}
      BY <1>a, <1>5
    <2>3. QED
      <3>1. x = Cut(e, w, rest, cut) /\ w = Whole(e, n) /\ rest = Remainder(e, n)
        BY <1>a DEF Cut
      <3>2. QED
        BY <1>3, <2>1, <2>2, <3>1, ShortenedFacts
  <1>7. /\ x \in Seq(Entry) /\ x # None /\ Shaped(x, n)
        /\ \A i \in 1..w : i \in 1..Len(x) /\ x[i] = e[i]
        /\ rest = 0 => Len(x) = w /\ cut = {}
        /\ rest > 0 => /\ Len(x) = w + 1 /\ w + 1 \in 1..Len(e)
                       /\ rest < e[w + 1].tokens
                       /\ x[w + 1].block = e[w + 1].block /\ x[w + 1].tokens = rest
                       /\ cut = {e[w + 1].block}
        /\ BlocksOf(x) = BlocksOf(SubSeq(e, 1, w)) \cup cut
        /\ \A b : b \in BlocksOf(SubSeq(e, 1, w)) <=> \E i \in 1..w : b = e[i].block
        /\ DOMAIN x = 1..Len(x)
    <2>1. rest > 0 => cut = {e[w + 1].block}
      BY <1>a
    <2>2. rest > 0 => {x[w + 1].block} = {e[w + 1].block}
      BY <1>6, <2>1 DEF Shortened
    <2>3. QED
      BY <1>6, <2>1, <2>2, TableIsSome, EntryFacts DEF Shortened
  <1>8. BlocksIn(r) = BlocksOf(e) /\ BlocksIn(r)' = BlocksOf(x) /\ table'[r] = x
    <2>1. table'[r] = x
      BY <1>1, <1>2 DEF TypeOK
    <2>2. QED
      BY <1>a, <1>3, <1>7, <2>1 DEF BlocksIn
  <1>9. /\ dropped = BlocksOf(e) \ BlocksOf(x) /\ BlocksOf(x) \subseteq BlocksOf(e)
        /\ cut \subseteq BlocksOf(e) /\ cut \subseteq BlocksOf(x)
    <2>1. \A b : b \in BlocksOf(e) <=> \E i \in 1..Len(e) : b = e[i].block
      BY <1>3, BlocksOfFacts
    <2>2. \A i \in 1..w : i \in 1..Len(e)
      BY <1>4, <1>3, EntryFacts
    <2>3. BlocksOf(SubSeq(e, 1, w)) \subseteq BlocksOf(e)
      BY <1>7, <2>1, <2>2
    <2>4. cut \subseteq BlocksOf(e)
      BY <1>a, <1>5
    <2>5. QED
      BY <1>a, <1>7, <2>3, <2>4
  <1>10. /\ refs' \in [Blocks -> Nat] /\ free' \subseteq Blocks /\ free' \cap pending' = {}
         /\ \A b \in Blocks : refs'[b] = IF b \in dropped THEN refs[b] - 1 ELSE refs[b]
         /\ \A b \in Blocks : refs'[b] = 0 <=> b \in free' \cup pending'
         /\ \A b \in Blocks : refs'[b] = 0 <=> used[b] = 0 \/ b \in Freed(dropped)
         /\ \A b \in BlocksIn(r), q \in Requests \ {r} : Unshared(b) => b \notin BlocksIn(q)
         /\ Freed(dropped) \subseteq dropped
    <2>1. dropped \in SUBSET BlocksIn(r)
      BY <1>8, <1>9
    <2>2. QED
      BY <1>1, <1>2, <2>1, ReleaseFacts
  <1>11. /\ used \in [Blocks -> 0..BlockSize] /\ BlockSize \in Nat /\ rest \in 0..BlockSize
         /\ rest > 0 <=> rest # 0
    BY <1>1, <1>4, SizeFacts DEF TypeOK
  <1>12. used' \in [Blocks -> 0..BlockSize]
    BY <1>2, <1>11
  <1>13. TypeOK'
    <2>1. table' \in [Requests -> Seq(Entry) \cup {None}] /\ length' \in [Requests -> Nat]
      BY <1>1, <1>2, <1>3, <1>7 DEF TypeOK
    <2>2. QED
      BY <1>1, <1>2, <1>10, <1>12, <2>1 DEF TypeOK
  <1>14. Edited(r, x, n)
    <2>1. \A b \in Blocks : refs'[b] = IF b \in BlocksIn(r)'
                     THEN IF b \in BlocksIn(r) THEN refs[b] ELSE refs[b] + 1
                     ELSE IF b \in BlocksIn(r) THEN refs[b] - 1 ELSE refs[b]
      BY <1>8, <1>9, <1>10
    <2>2. ASSUME NEW b \in Blocks, NEW q \in Requests \ {r}, b \in BlocksIn(q)
          PROVE  used'[b] >= used[b]
      <3>1. b \notin Freed(dropped) /\ ~(b \in cut /\ Unshared(b))
        BY <1>8, <1>9, <1>10, <2>2 DEF Freed
      <3>2. QED
        BY <1>2, <1>11, <3>1
    <2>3. \A b \in Blocks : refs'[b] = 0 <=> used'[b] = 0
      <3> SUFFICES ASSUME NEW b \in Blocks PROVE refs'[b] = 0 <=> used'[b] = 0
        OBVIOUS
      <3>1. CASE b \in Freed(dropped)
        BY <1>2, <1>10, <3>1
      <3>2. CASE b \notin Freed(dropped) /\ b \in cut /\ Unshared(b)
        <4>1. rest # 0 /\ used'[b] = rest
          BY <1>2, <1>7, <1>11, <3>2
        <4>2. used[b] # 0
          BY <1>1, <1>8, <1>9, <3>2, Held
        <4>3. QED
          BY <1>10, <3>2, <4>1, <4>2
      <3>3. CASE b \notin Freed(dropped) /\ ~(b \in cut /\ Unshared(b))
        BY <1>2, <1>10, <3>3
      <3>4. QED
        BY <3>1, <3>2, <3>3
    <2>4. \A i \in DOMAIN x : x[i].tokens <= used'[x[i].block]
      <3> SUFFICES ASSUME NEW i \in 1..Len(x) PROVE x[i].tokens <= used'[x[i].block]
        BY <1>7
      <3>1. /\ x[i].block \in BlocksOf(x) /\ x[i].block \in Blocks /\ x[i].tokens \in Nat
            /\ x[i].block \notin Freed(dropped)
        BY <1>7, <1>9, <1>10, EntryFacts, BlocksOfFacts
      <3>2. CASE i \in 1..w
        <4>1. x[i] = e[i] /\ i \in DOMAIN e
          BY <1>3, <1>4, <1>7, <3>2, EntryFacts
        <4>2. x[i].tokens <= used[x[i].block]
          BY <1>3, <4>1 DEF Within
        <4>3. x[i].block \notin cut
          BY <1>a, <1>5, <1>7, <3>2, <4>1
        <4>4. QED
          BY <1>2, <3>1, <4>2, <4>3
      <3>3. CASE ~(i \in 1..w)
        <4>1. rest > 0 /\ i = w + 1
          <5>1. w \in Nat
            BY <1>4
          <5>2. QED
            BY <1>7, <1>11, <3>3, <5>1
        <4>2. x[i].block = e[i].block /\ x[i].tokens = rest /\ rest < e[i].tokens /\ i \in DOMAIN e
          BY <1>3, <1>7, <4>1
        <4>3. e[i].tokens <= used[x[i].block] /\ used[x[i].block] \in Nat /\ e[i].tokens \in Nat
          BY <1>3, <1>11, <3>1, <4>2, EntryFacts DEF Within
        <4>4. used'[x[i].block] = rest \/ used'[x[i].block] = used[x[i].block]
          BY <1>2, <3>1
        <4>5. QED
          BY <1>4, <4>2, <4>3, <4>4
      <3>4. QED
        BY <3>2, <3>3
    <2>5. x \in Seq(Entry) \cup {None} /\ n \in Nat
          /\ table' = [table EXCEPT ![r] = x] /\ length' = [length EXCEPT ![r] = n]
      BY <1>2, <1>3, <1>7
    <2>6. IF x = None THEN n = 0
          ELSE Shaped(x, n) /\ \A i \in DOMAIN x : x[i].tokens <= used'[x[i].block]
      BY <1>7, <2>4
    <2>7. QED
      BY <1>10, <1>12, <2>1, <2>2, <2>3, <2>5, <2>6 DEF Edited
  <1>15. TablesHold' /\ BlocksHold'
    BY <1>1, <1>14, Edit
  <1>16. PoolInv'
    BY <1>2, <1>13, <1>15 DEF PoolInv, BatchKnown
  <1>17. \A i \in 1..Len(x) : x[i].block = e[i].block
    <2> SUFFICES ASSUME NEW i \in 1..Len(x) PROVE x[i].block = e[i].block
      OBVIOUS
    <2>1. i \in 1..w \/ (rest > 0 /\ i = w + 1)
      <3>1. w \in Nat /\ (rest = 0 \/ rest > 0)
        BY <1>4
      <3>2. (rest = 0 => Len(x) = w) /\ (rest > 0 => Len(x) = w + 1)
        BY <1>7
      <3>3. CASE rest = 0
        BY <3>1, <3>2, <3>3
      <3>4. CASE rest > 0
        <4>1. i \in 1..w + 1
          BY <3>2, <3>4
        <4>2. QED
          BY <3>1, <3>4, <4>1
      <3>5. QED
        BY <3>1, <3>3, <3>4
    <2>2. QED
      BY <1>7, <2>1
  <1>18. table' = [table EXCEPT ![r] = x]
    BY <1>2
  <1>19. Shortened(table[r], n, Whole(table[r], n), Remainder(table[r], n), cut, x)
    BY <1>a, <1>6, Zenon
  <1>20. \A i \in 1..Len(x) : x[i].block = table[r][i].block
    BY <1>a, <1>17
  <1>21. QED
    BY <1>16, <1>18, <1>19, <1>20

LEMMA ForkKeeps ==
    ASSUME PoolInv, NEW source \in Requests, NEW target \in Requests,
           NEW n \in 0..length[source], Fork(source, target, n)
    PROVE  /\ PoolInv'
           /\ \E x, B : LET e == table[source]
                            w == Whole(e, n)
                            rest == Remainder(e, n)
                        IN  /\ table' = [table EXCEPT ![target] = x]
                            /\ Shortened(e, n, w, rest, B, x)
                            /\ \A b \in Blocks : refs[b] # 0 => slab'[b] = slab[b]
                            /\ rest > 0 => \A s \in 1..rest :
                                  slab'[x[w + 1].block][s] = slab[e[w + 1].block][s]
  <1> DEFINE e == table[source]
             w == Whole(e, n)
             rest == Remainder(e, n)
             shared == SubSeq(e, 1, w)
  <1>1. TypeOK /\ TablesHold /\ BlocksHold
    BY DEF PoolInv
  <1>2. PICK B \in kSubset(IF rest > 0 THEN 1 ELSE 0, free) :
          /\ free' = free \ B
          /\ table' = [table EXCEPT ![target] = Cut(e, w, rest, B)]
          /\ refs' = [b \in Blocks |->
                IF b \in B THEN 1
                ELSE IF b \in BlocksOf(shared) THEN refs[b] + 1 ELSE refs[b]]
          /\ used' = [b \in Blocks |-> IF b \in B THEN rest ELSE used[b]]
          /\ slab' = [b \in Blocks |-> [s \in Slots |->
                IF b \in B /\ s <= rest
                THEN slab[e[Len(shared) + 1].block][s] ELSE slab[b][s]]]
    BY DEF Fork, Cut
  <1>3. /\ phase # "commit" /\ source \in Live /\ target \notin Live /\ n <= length[source]
        /\ length' = [length EXCEPT ![target] = n]
        /\ phase' = phase /\ batch' = batch /\ pending' = pending
    BY DEF Fork, batchVars
  <1> DEFINE x == Cut(e, w, rest, B)
  <1>a. /\ w = Whole(e, n) /\ rest = Remainder(e, n) /\ x = Cut(e, w, rest, B)
        /\ e = table[source] /\ shared = SubSeq(e, 1, w)
    OBVIOUS
  <1>4. /\ e \in Seq(Entry) /\ e # None /\ Shaped(e, length[source]) /\ Within(e)
        /\ length[source] \in Nat /\ n \in Nat /\ DOMAIN e = 1..Len(e)
    BY <1>1, <1>3, LiveFacts, EntryFacts DEF TablesHold, TypeOK
  <1>b. table' = [table EXCEPT ![target] = x]
    BY <1>2
  <1> HIDE DEF e, w, rest, x, shared
  <1>5. /\ w \in 0..Len(e) /\ rest \in Nat
        /\ rest > 0 => w < Len(e) /\ rest \in Slots
    BY <1>a, <1>3, <1>4, CutFacts
  <1>6. B \subseteq free /\ Cardinality(B) = (IF rest > 0 THEN 1 ELSE 0)
    BY <1>2 DEF kSubset
  <1>7. IsFiniteSet(B)
    <2>1. IsFiniteSet(Blocks) /\ B \in SUBSET Blocks
      BY <1>1, <1>6, PoolAssumption DEF TypeOK
    <2>2. QED
      BY <2>1, FS_Subset
  <1>8. \A b \in B : /\ b \in Blocks /\ refs[b] = 0 /\ used[b] = 0
                     /\ \A q \in Requests : b \notin BlocksIn(q)
    BY <1>1, <1>6, Held DEF TypeOK, BlocksHold
  <1>9. BlocksIn(source) = BlocksOf(e) /\ BlocksIn(target) = {} /\ table[target] = None
    BY <1>a, <1>3, <1>4 DEF BlocksIn, Live
  <1>10. \A b : b \in BlocksOf(shared) <=> \E i \in 1..w : b = e[i].block
    <2>1. \A b : b \in BlocksOf(SubSeq(e, 1, w)) <=> \E i \in 1..w : b = e[i].block
      BY <1>4, <1>5, SubSeqBlocks
    <2>2. QED
      BY <1>a, <2>1, Zenon
  <1>11. BlocksOf(shared) \subseteq BlocksOf(e) /\ BlocksOf(e) \subseteq Blocks
    <2>1. \A b : b \in BlocksOf(e) <=> \E i \in 1..Len(e) : b = e[i].block
      BY <1>4, BlocksOfFacts
    <2>2. \A i \in 1..w : i \in 1..Len(e)
      BY <1>4, <1>5, EntryFacts
    <2>3. QED
      BY <1>4, <1>10, <2>1, <2>2, BlocksOfFacts
  <1>12. Shortened(e, n, w, rest, B, x)
    <2>1. rest = 0 => B = {}
      BY <1>6, <1>7, FS_EmptySet
    <2>2. rest > 0 => \E b \in Blocks \ BlocksOf(SubSeq(e, 1, w)) : B = {b}
      <3> SUFFICES ASSUME rest > 0 PROVE \E b \in Blocks \ BlocksOf(SubSeq(e, 1, w)) : B = {b}
        OBVIOUS
      <3>1. PICK b : B = {b}
        BY <1>6, <1>7, FS_Singleton
      <3>2. b \in Blocks /\ b \notin BlocksOf(shared)
        BY <1>8, <1>9, <1>11, <3>1
      <3>3. QED
        BY <1>a, <3>1, <3>2
    <2>3. QED
      BY <1>a, <1>3, <1>4, <2>1, <2>2, ShortenedFacts
  <1>13. /\ x \in Seq(Entry) /\ x # None /\ Shaped(x, n) /\ DOMAIN x = 1..Len(x)
         /\ \A i \in 1..w : i \in 1..Len(x) /\ x[i] = e[i]
         /\ rest = 0 => Len(x) = w /\ B = {}
         /\ rest > 0 => Len(x) = w + 1 /\ B = {x[w + 1].block} /\ x[w + 1].tokens = rest
         /\ BlocksOf(x) = BlocksOf(shared) \cup B
         /\ Len(shared) = w
    BY <1>a, <1>12, TableIsSome, EntryFacts DEF Shortened
  <1>14. BlocksIn(target)' = BlocksOf(x) /\ table'[target] = x
    <2>1. table'[target] = x
      BY <1>1, <1>b DEF TypeOK
    <2>2. QED
      BY <1>13, <2>1 DEF BlocksIn
  <1>15. /\ used \in [Blocks -> 0..BlockSize] /\ BlockSize \in Nat /\ rest \in 0..BlockSize
         /\ refs \in [Blocks -> Nat] /\ slab \in [Blocks -> [Slots -> Tokens \cup {Zero}]]
         /\ (rest > 0 <=> rest # 0)
    BY <1>1, <1>5, SizeFacts DEF TypeOK
  <1>16. \A b \in Blocks : refs'[b] = IF b \in B THEN 1
                                      ELSE IF b \in BlocksOf(shared) THEN refs[b] + 1 ELSE refs[b]
    BY <1>2
  <1>17. \A b \in Blocks : used'[b] = IF b \in B THEN rest ELSE used[b]
    BY <1>2
  <1>18. \A b \in Blocks, s \in Slots :
            slab'[b][s] = IF b \in B /\ s <= rest THEN slab[e[w + 1].block][s] ELSE slab[b][s]
    BY <1>2, <1>13
  <1>19. \A b \in BlocksOf(shared) : b \in Blocks /\ refs[b] # 0 /\ used[b] # 0
    BY <1>1, <1>9, <1>11, Held
  <1>20. TypeOK'
    <2>1. table' \in [Requests -> Seq(Entry) \cup {None}] /\ length' \in [Requests -> Nat]
      BY <1>1, <1>b, <1>3, <1>4, <1>13 DEF TypeOK
    <2>2. used' \in [Blocks -> 0..BlockSize] /\ refs' \in [Blocks -> Nat]
      BY <1>2, <1>15
    <2>3. slab' \in [Blocks -> [Slots -> Tokens \cup {Zero}]]
      <3>1. ASSUME NEW b \in B, NEW s \in Slots
            PROVE  slab[e[w + 1].block][s] \in Tokens \cup {Zero}
        <4>1. rest > 0
          BY <1>13, <1>15
        <4>2. w + 1 \in 1..Len(e)
          BY <1>4, <1>5, <4>1, EntryFacts
        <4>3. e[w + 1].block \in Blocks
          BY <1>4, <4>2, EntryFacts
        <4>4. QED
          BY <1>15, <4>3
      <3>2. QED
        BY <1>2, <1>13, <1>15, <3>1
    <2>4. free' \subseteq Blocks
      BY <1>1, <1>2 DEF TypeOK
    <2>5. QED
      BY <1>1, <1>3, <2>1, <2>2, <2>3, <2>4 DEF TypeOK
  <1>21. Edited(target, x, n)
    <2>1. \A b \in Blocks : refs'[b] = IF b \in BlocksIn(target)'
                     THEN IF b \in BlocksIn(target) THEN refs[b] ELSE refs[b] + 1
                     ELSE IF b \in BlocksIn(target) THEN refs[b] - 1 ELSE refs[b]
      BY <1>8, <1>9, <1>13, <1>14, <1>16
    <2>2. \A b \in Blocks : used'[b] >= used[b]
      BY <1>8, <1>15, <1>17
    <2>3. \A b \in Blocks : refs'[b] = 0 <=> b \in free' \cup pending'
      <3> SUFFICES ASSUME NEW b \in Blocks PROVE refs'[b] = 0 <=> b \in free' \cup pending'
        OBVIOUS
      <3>1. refs[b] \in Nat /\ (refs[b] = 0 <=> b \in free \cup pending)
        BY <1>1, <1>15 DEF BlocksHold
      <3>2. b \in B => b \notin pending
        BY <1>1, <1>6 DEF BlocksHold
      <3>3. b \in free' <=> b \in free /\ b \notin B
        BY <1>2
      <3>4. QED
        BY <1>3, <1>6, <1>16, <1>19, <3>1, <3>2, <3>3
    <2>4. \A b \in Blocks : refs'[b] = 0 <=> used'[b] = 0
      <3> SUFFICES ASSUME NEW b \in Blocks PROVE refs'[b] = 0 <=> used'[b] = 0
        OBVIOUS
      <3>1. refs[b] \in Nat /\ (refs[b] = 0 <=> used[b] = 0)
        BY <1>1, <1>15 DEF BlocksHold
      <3>2. b \in B => rest # 0
        BY <1>13, <1>15
      <3>3. QED
        BY <1>16, <1>17, <1>19, <3>1, <3>2
    <2>5. free' \cap pending' = {}
      BY <1>1, <1>2, <1>3 DEF BlocksHold
    <2>6. \A i \in DOMAIN x : x[i].tokens <= used'[x[i].block]
      <3> SUFFICES ASSUME NEW i \in 1..Len(x) PROVE x[i].tokens <= used'[x[i].block]
        BY <1>13
      <3>1. CASE i \in 1..w
        <4>1. x[i] = e[i] /\ i \in DOMAIN e /\ e[i].block \in BlocksOf(shared)
          BY <1>4, <1>5, <1>10, <1>13, <3>1, EntryFacts
        <4>2. e[i].tokens <= used[e[i].block] /\ e[i].block \in Blocks
          BY <1>4, <1>11, <4>1 DEF Within
        <4>3. e[i].block \notin B
          BY <1>8, <1>19, <4>1
        <4>4. QED
          BY <1>17, <4>1, <4>2, <4>3
      <3>2. CASE ~(i \in 1..w)
        <4>0. w \in Nat /\ (rest = 0 \/ rest > 0) /\ rest \in Nat
          BY <1>5
        <4>1. rest > 0 /\ i = w + 1
          <5>1. (rest = 0 => Len(x) = w) /\ (rest > 0 => Len(x) = w + 1)
            BY <1>13
          <5>2. CASE rest = 0
            BY <3>2, <4>0, <5>1, <5>2
          <5>3. CASE rest > 0
            <6>1. i \in 1..w + 1
              BY <5>1, <5>3
            <6>2. QED
              BY <3>2, <4>0, <5>3, <6>1
          <5>4. QED
            BY <4>0, <5>2, <5>3
        <4>2. x[i].block \in B /\ x[i].tokens = rest /\ x[i].block \in Blocks
          BY <1>8, <1>13, <4>1
        <4>3. QED
          BY <1>17, <4>0, <4>2
      <3>3. QED
        BY <3>1, <3>2
    <2>7. QED
      BY <1>b, <1>3, <1>4, <1>13, <1>20, <2>1, <2>2, <2>3, <2>4, <2>5, <2>6 DEF Edited, TypeOK
  <1>22. TablesHold' /\ BlocksHold'
    BY <1>1, <1>21, Edit
  <1>23. PoolInv'
    BY <1>3, <1>20, <1>22 DEF PoolInv, BatchKnown
  <1>24. \A b \in Blocks : refs[b] # 0 => slab'[b] = slab[b]
    <2> SUFFICES ASSUME NEW b \in Blocks, refs[b] # 0 PROVE slab'[b] = slab[b]
      OBVIOUS
    <2>1. b \notin B
      BY <1>8
    <2>2. slab'[b] = [s \in Slots |-> slab[b][s]]
      BY <1>2, <2>1
    <2>3. QED
      BY <1>15, <2>2
  <1>25. rest > 0 => \A s \in 1..rest : slab'[x[w + 1].block][s] = slab[e[w + 1].block][s]
    <2> SUFFICES ASSUME rest > 0, NEW s \in 1..rest
                 PROVE  slab'[x[w + 1].block][s] = slab[e[w + 1].block][s]
      OBVIOUS
    <2>1. x[w + 1].block \in B /\ x[w + 1].block \in Blocks /\ s \in Slots /\ s <= rest
      BY <1>8, <1>13, <1>15, SizeFacts
    <2>2. QED
      BY <1>18, <2>1
  <1>26. QED
    BY <1>a, <1>b, <1>12, <1>23, <1>24, <1>25, ZenonT(30)

LEMMA DeltaFacts ==
    ASSUME NEW delta \in Deltas
    PROVE  delta \in Seq(Tokens) /\ Len(delta) \in Nat \ {0}
  <1>1. PICK n \in 1..MaxDelta : delta \in [1..n -> Tokens]
    BY DEF Deltas
  <1>2. n \in Nat \ {0}
    BY PoolAssumption
  <1>3. QED
    BY <1>1, <1>2

\* An append of delta to r by the blocks of S, seen from its new table.
Appended(r, delta, fresh, g, a) ==
    /\ TableGrows(r, Len(delta), fresh, table[r], g, a)
    /\ ExtendSeen(r, delta, fresh, table[r], g, a)

LEMMA ExtendStep ==
    ASSUME TypeOK, TablesHold, BlocksHold, NEW r \in Live,
           NEW delta \in Seq(Tokens), Len(delta) \in Nat \ {0},
           NEW S \in SUBSET (free \cup pending),
           NEW fresh \in Picks(S, Required(r, Len(delta))), Extend(r, delta, fresh)
    PROVE  /\ ToSet(fresh) \subseteq S
           /\ Appended(r, delta, fresh, Grown(table[r], Len(delta), fresh), FirstWritten(table[r]))
  <1> DEFINE e == table[r]
             n == Len(delta)
             g == Grown(e, n, fresh)
             a == FirstWritten(e)
  <1>1. fresh \in Picks(free \cup pending, Required(r, n)) /\ ToSet(fresh) \subseteq S
    <2>1. ToSet(fresh) \subseteq S
      BY ToSetFacts
    <2>2. QED
      BY <2>1 DEF Picks
  <1>2. TableGrows(r, n, fresh, e, g, a)
    BY <1>1, GrownTable
  <1>3. ExtendSeen(r, delta, fresh, e, g, a)
    BY <1>2, ExtendFacts
  <1>4. QED
    BY <1>1, <1>2, <1>3 DEF Appended

LEMMA AppendedTypes ==
    ASSUME TypeOK, NEW r \in Live, NEW delta \in Seq(Tokens), Len(delta) \in Nat,
           NEW fresh, NEW g, NEW a, Appended(r, delta, fresh, g, a)
    PROVE  /\ refs' \in [Blocks -> Nat]
           /\ used' \in [Blocks -> 0..BlockSize]
           /\ table' \in [Requests -> Seq(Entry) \cup {None}]
           /\ length' \in [Requests -> Nat]
           /\ slab' \in [Blocks -> [Slots -> Tokens \cup {Zero}]]
           /\ Live' = Live
  <1>1. /\ g \in Seq(Entry) /\ g # None /\ r \in Requests /\ table[r] # None
        /\ table' = [table EXCEPT ![r] = g]
        /\ length' = [length EXCEPT ![r] = length[r] + Len(delta)]
    BY LiveFacts, TableIsSome DEF Appended, TableGrows, ExtendSeen
  <1>2. length[r] + Len(delta) \in Nat
    BY <1>1 DEF TypeOK
  <1>3. Live' = Live
    BY <1>1 DEF TypeOK, Live
  <1>4. QED
    BY <1>1, <1>2, <1>3 DEF Appended, ExtendSeen, TypeOK

LEMMA AppendKeeps ==
    ASSUME PoolInv, NEW r \in Requests, NEW delta \in Deltas, AppendDelta(r, delta)
    PROVE  /\ PoolInv'
           /\ r \in Live /\ \E fresh, g, a : Appended(r, delta, fresh, g, a) /\ ToSet(fresh) \subseteq free
  <1> DEFINE n == Len(delta)
  <1>1. /\ TypeOK /\ TablesHold /\ BlocksHold /\ phase # "commit" /\ r \in Live
        /\ phase' = phase /\ batch' = batch /\ pending' = pending
    BY DEF PoolInv, AppendDelta, batchVars
  <1>2. PICK fresh \in Picks(free, Required(r, n)) : Extend(r, delta, fresh) /\ free' = free \ ToSet(fresh)
    BY DEF AppendDelta
  <1>3. delta \in Seq(Tokens) /\ n \in Nat \ {0}
    BY DeltaFacts
  <1> DEFINE g == Grown(table[r], n, fresh)
             a == FirstWritten(table[r])
  <1>4. ToSet(fresh) \subseteq free /\ Appended(r, delta, fresh, g, a)
    <2>1. free \in SUBSET (free \cup pending)
      OBVIOUS
    <2>2. QED
      BY <1>1, <1>2, <1>3, <2>1, ExtendStep
  <1> HIDE DEF n, g, a
  <1>5. /\ free' \cap pending' = {}
        /\ free' \cup pending' = (free \cup pending) \ ToSet(fresh)
        /\ free' \subseteq Blocks
    BY <1>1, <1>2, <1>4 DEF BlocksHold, TypeOK
  <1>6. TablesHold' /\ BlocksHold'
    BY <1>1, <1>3, <1>4, <1>5, ExtendKeeps DEF Appended, n
  <1>7. TypeOK'
    <2>1. Len(delta) \in Nat
      BY <1>3 DEF n
    <2>2. /\ refs' \in [Blocks -> Nat]
          /\ used' \in [Blocks -> 0..BlockSize]
          /\ table' \in [Requests -> Seq(Entry) \cup {None}]
          /\ length' \in [Requests -> Nat]
          /\ slab' \in [Blocks -> [Slots -> Tokens \cup {Zero}]]
      BY <1>1, <1>3, <1>4, <2>1, AppendedTypes
    <2>3. QED
      BY <1>1, <1>5, <2>2 DEF TypeOK
  <1>8. QED
    BY <1>1, <1>4, <1>6, <1>7 DEF PoolInv, BatchKnown

LEMMA CommitOneKeeps ==
    ASSUME PoolInv, NEW r \in Requests, NEW token \in Tokens, CommitOne(r, token)
    PROVE  /\ PoolInv'
           /\ r \in Live /\ \E fresh, g, a : /\ Appended(r, <<token>>, fresh, g, a)
                                             /\ ToSet(fresh) \subseteq pending
                                             /\ pending' = pending \ ToSet(fresh)
                                             /\ fresh \in Picks(pending, Required(r, 1))
  <1> DEFINE delta == <<token>>
  <1>1. /\ TypeOK /\ TablesHold /\ BlocksHold /\ phase = "commit" /\ r \in Live
        /\ batch' = batch \ {r} /\ phase' = phase /\ free' = free /\ batch \subseteq Live
    BY DEF PoolInv, BatchKnown, CommitOne
  <1>2. PICK fresh \in Picks(pending, Required(r, 1)) :
            Extend(r, delta, fresh) /\ pending' = pending \ ToSet(fresh)
    BY DEF CommitOne
  <1>3. delta \in Seq(Tokens) /\ Len(delta) = 1
    OBVIOUS
  <1> HIDE DEF delta
  <1> DEFINE g == Grown(table[r], Len(delta), fresh)
             a == FirstWritten(table[r])
  <1>4. ToSet(fresh) \subseteq pending /\ Appended(r, delta, fresh, g, a)
    <2>1. pending \in SUBSET (free \cup pending)
      OBVIOUS
    <2>2. fresh \in Picks(pending, Required(r, Len(delta))) /\ Len(delta) \in Nat \ {0}
      BY <1>2, <1>3
    <2>3. QED
      BY <1>1, <1>2, <1>3, <2>1, <2>2, ExtendStep
  <1> HIDE DEF g, a
  <1>5. /\ free' \cap pending' = {}
        /\ free' \cup pending' = (free \cup pending) \ ToSet(fresh)
        /\ pending' \subseteq Blocks
    BY <1>1, <1>2, <1>4 DEF BlocksHold, TypeOK
  <1>6. TablesHold' /\ BlocksHold'
    <2>1. Len(delta) \in Nat \ {0}
      BY <1>3
    <2>2. QED
      BY <1>1, <1>3, <1>4, <1>5, <2>1, ExtendKeeps DEF Appended
  <1>7. TypeOK' /\ Live' = Live
    <2>1. Len(delta) \in Nat
      BY <1>3
    <2>2. /\ refs' \in [Blocks -> Nat]
          /\ used' \in [Blocks -> 0..BlockSize]
          /\ table' \in [Requests -> Seq(Entry) \cup {None}]
          /\ length' \in [Requests -> Nat]
          /\ slab' \in [Blocks -> [Slots -> Tokens \cup {Zero}]]
          /\ Live' = Live
      BY <1>1, <1>3, <1>4, <2>1, AppendedTypes
    <2>3. QED
      BY <1>1, <1>5, <2>2 DEF TypeOK
  <1>8. PoolInv'
    BY <1>1, <1>6, <1>7 DEF PoolInv, BatchKnown
  <1>9. QED
    BY <1>1, <1>2, <1>4, <1>8 DEF delta

\* The steps of a batch that touch no table.
LEMMA BatchKeeps ==
    ASSUME PoolInv, (\E S \in SUBSET Requests : Reserve(S)) \/ Commit \/ EndBatch
    PROVE  PoolInv'
  <1>1. TypeOK /\ TablesHold /\ BlocksHold
    BY DEF PoolInv
  <1>2. ASSUME NEW S \in SUBSET Requests, Reserve(S) PROVE PoolInv'
    <2>1. PICK fenced \in kSubset(Demand(S), free) : pending' = fenced /\ free' = free \ fenced
      BY <1>2 DEF Reserve, ReserveBlocks
    <2>2. /\ UNCHANGED <<refs, used, table, length, slab>>
          /\ batch' = S /\ phase' = "model" /\ phase = "idle"
      BY <1>2 DEF Reserve
    <2>3. fenced \subseteq free
      BY <2>1 DEF kSubset
    <2>4. pending = {}
      BY <2>2 DEF PoolInv, BatchKnown
    <2>5. free' \cap pending' = {} /\ free' \cup pending' = free \cup pending
      BY <2>1, <2>3, <2>4
    <2>6. TablesHold' /\ BlocksHold'
      BY <1>1, <2>2, <2>5, Moved
    <2>7. TypeOK'
      BY <1>1, <2>1, <2>2, <2>3 DEF TypeOK
    <2>8. QED
      BY <2>2, <2>6, <2>7 DEF PoolInv, BatchKnown
  <1>3. ASSUME Commit PROVE PoolInv'
    <2>1. /\ UNCHANGED <<free, refs, used, table, length, slab, batch, pending>>
          /\ phase' = "commit" /\ batch \subseteq Live
      BY <1>3 DEF Commit
    <2>2. TablesHold' /\ BlocksHold'
      BY <1>1, <2>1, Moved DEF BlocksHold
    <2>3. Live' = Live
      BY <2>1 DEF Live
    <2>4. TypeOK'
      BY <1>1, <2>1 DEF TypeOK
    <2>5. QED
      BY <2>1, <2>2, <2>3, <2>4 DEF PoolInv, BatchKnown
  <1>4. ASSUME EndBatch PROVE PoolInv'
    <2>1. /\ UNCHANGED <<refs, used, table, length, slab>>
          /\ free' = free \cup pending /\ pending' = {}
          /\ batch' = {} /\ phase' = "idle"
      BY <1>4 DEF EndBatch, ReleaseReservation
    <2>2. free' \cap pending' = {} /\ free' \cup pending' = free \cup pending
      BY <2>1
    <2>3. TablesHold' /\ BlocksHold'
      BY <1>1, <2>1, <2>2, Moved
    <2>4. TypeOK'
      BY <1>1, <2>1 DEF TypeOK
    <2>5. QED
      BY <2>1, <2>3, <2>4 DEF PoolInv, BatchKnown
  <1>5. QED
    BY <1>2, <1>3, <1>4

-----------------------------------------------------------------------------
(* What always holds *)

LEMMA PoolStep ==
    ASSUME PoolInv, [Next]_vars
    PROVE  PoolInv'
  <1>1. ASSUME NEW r \in Requests, Create(r) \/ Release(r) PROVE PoolInv'
    BY <1>1, CreateKeeps, ReleaseKeeps
  <1>2. ASSUME NEW r \in Requests, NEW delta \in Deltas, AppendDelta(r, delta) PROVE PoolInv'
    BY <1>2, AppendKeeps
  <1>3. ASSUME NEW s \in Requests, NEW t \in Requests, NEW n \in 0..length[s], Fork(s, t, n)
        PROVE  PoolInv'
    BY <1>3, ForkKeeps
  <1>4. ASSUME NEW r \in Requests, NEW n \in 0..length[r], Truncate(r, n) PROVE PoolInv'
    BY <1>4, TruncateKeeps
  <1>5. ASSUME (\E S \in SUBSET Requests : Reserve(S)) \/ Commit \/ EndBatch PROVE PoolInv'
    BY <1>5, BatchKeeps
  <1>6. ASSUME NEW r \in Requests, NEW token \in Tokens, CommitOne(r, token) PROVE PoolInv'
    BY <1>6, CommitOneKeeps
  <1>7. ASSUME UNCHANGED vars PROVE PoolInv'
    <2>1. UNCHANGED <<free, refs, used, table, length, slab, phase, batch, pending>>
      BY <1>7 DEF vars, batchVars
    <2>2. TypeOK /\ TablesHold /\ BlocksHold /\ BatchKnown
      BY DEF PoolInv
    <2>3. TablesHold' /\ BlocksHold'
      BY <2>1, <2>2, Moved DEF BlocksHold
    <2>4. TypeOK' /\ BatchKnown'
      BY <2>1, <2>2 DEF TypeOK, BatchKnown, Live
    <2>5. QED
      BY <2>3, <2>4 DEF PoolInv
  <1>8. QED
    BY <1>1, <1>2, <1>3, <1>4, <1>5, <1>6, <1>7 DEF Next

LEMMA PoolInvariant == Spec => []PoolInv
  <1>1. Init => PoolInv
    BY InitKeeps
  <1>2. PoolInv /\ [Next]_vars => PoolInv'
    BY PoolStep
  <1>3. QED
    BY <1>1, <1>2, PTL DEF Spec

\* Every variable keeps its type: in particular no reference count falls below
\* zero and no block counts more used tokens than it has slots.
THEOREM TypeCorrect == Spec => []TypeOK
  <1>1. PoolInv => TypeOK
    BY DEF PoolInv
  <1>2. QED
    BY <1>1, PoolInvariant, PTL

\* Within a table a block is named once, so the mentions of a block are its
\* holders.
LEMMA MentionsAreHolders ==
    ASSUME TypeOK, TablesHold, NEW b \in Blocks
    PROVE  Cardinality(Mentions(b)) = Cardinality(Holders(b))
  <1> DEFINE At(r) == {i \in DOMAIN table[r] : table[r][i].block = b}
             h == [r \in Holders(b) |-> <<r, CHOOSE i \in At(r) : TRUE>>]
  <1>1. \A r \in Live : r \in Requests /\ table[r] \in Seq(Entry) /\ table[r] # None
    BY LiveFacts
  <1>2. \A r \in Requests : r \in Holders(b) <=> r \in Live /\ At(r) # {}
    BY DEF Holders, BlocksIn, BlocksOf, Live
  <1>3. \A m : m \in Mentions(b) <=> \E r \in Live : \E i \in At(r) : m = <<r, i>>
    BY DEF Mentions
  <1>4. \A r \in Live : \A i, j \in At(r) : i = j
    BY <1>1 DEF TablesHold, Shaped
  <1>5. Holders(b) \subseteq Requests
    BY DEF Holders
  <1> HIDE DEF At
  <1>6. \A r \in Holders(b) : r \in Live /\ (CHOOSE i \in At(r) : TRUE) \in At(r)
    BY <1>2, <1>5
  <1>7. h \in [Holders(b) -> Mentions(b)]
    BY <1>3, <1>6
  <1>8. \A r, q \in Holders(b) : h[r] = h[q] => r = q
    OBVIOUS
  <1>9. \A m \in Mentions(b) : \E r \in Holders(b) : h[r] = m
    <2> SUFFICES ASSUME NEW m \in Mentions(b) PROVE \E r \in Holders(b) : h[r] = m
      OBVIOUS
    <2>1. PICK r \in Live : \E i \in At(r) : m = <<r, i>>
      BY <1>3
    <2>2. PICK i \in At(r) : m = <<r, i>>
      BY <2>1
    <2>3. r \in Holders(b)
      BY <1>1, <1>2, <2>2
    <2>4. (CHOOSE j \in At(r) : TRUE) = i
      BY <1>4, <1>6, <2>2, <2>3
    <2>5. h[r] = m
      BY <2>2, <2>3, <2>4
    <2>6. QED
      BY <2>3, <2>5
  <1> HIDE DEF h
  <1>10. h \in Bijection(Holders(b), Mentions(b))
    BY <1>7, <1>8, <1>9 DEF Bijection, Injection, Surjection, IsInjective
  <1>11. ExistsBijection(Holders(b), Mentions(b))
    BY <1>10 DEF ExistsBijection
  <1>12. QED
    BY <1>11, HoldersFinite, FS_Bijection

\* Reference counts are exactly the mentions of a block in the tables, and the
\* blocks nobody references are exactly those that are free or fenced.
THEOREM BlocksAccounted == Spec => []BlocksAreAccounted
  <1>1. PoolInv => BlocksAreAccounted
    BY MentionsAreHolders DEF PoolInv, BlocksHold, BlocksAreAccounted
  <1>2. QED
    BY <1>1, PoolInvariant, PTL

\* Whatever sharers do, the view of a request lies within what was written to
\* its blocks, and is full up to the last one.
THEOREM ViewsBacked == Spec => []ViewsAreBacked
  <1>1. PoolInv => ViewsAreBacked
    BY LiveFacts DEF PoolInv, TablesHold, Shaped, Within, ViewsAreBacked
  <1>2. QED
    BY <1>1, PoolInvariant, PTL

\* While the model runs, a fenced block stays without references, whoever else
\* uses the allocator.
THEOREM FencesHold == Spec => FencedBlocksStay
  <1>1. ASSUME PoolInv, [Next]_vars
        PROVE  [phase = "model" => \A b \in pending : refs'[b] = 0]_vars
    <2> SUFFICES ASSUME Next, phase = "model", NEW b \in pending PROVE refs'[b] = 0
      BY <1>1
    <2>1. PoolInv'
      BY <1>1, PoolStep
    <2>2. b \in Blocks /\ refs[b] = 0
      BY <1>1 DEF PoolInv, TypeOK, BlocksHold
    <2>3. pending' = pending \/ refs' = refs
      BY DEF Next, Create, Release, AppendDelta, Fork, Truncate, Reserve, Commit, EndBatch,
             CommitOne, batchVars
    <2>4. CASE pending' = pending
      BY <2>1, <2>2, <2>4 DEF PoolInv, BlocksHold
    <2>5. CASE refs' = refs
      BY <2>2, <2>5
    <2>6. QED
      BY <2>3, <2>4, <2>5
  <1>2. QED
    BY <1>1, PoolInvariant, PTL DEF Spec, FencedBlocksStay

-----------------------------------------------------------------------------
(* The commit of a batch *)

LEMMA RequiredNat ==
    ASSUME TypeOK, TablesHold, NEW r \in Live
    PROVE  /\ Required(r, 1) \in Nat /\ Copies(table[r]) \in {0, 1}
           /\ BlocksFor(1 - Fill(table[r], 1)) \in Nat
  <1>1. table[r] \in Seq(Entry) /\ Shaped(table[r], length[r])
    BY LiveFacts DEF TablesHold
  <1>2. 1 \in Nat \ {0}
    OBVIOUS
  <1>3. Fill(table[r], 1) \in Nat /\ Fill(table[r], 1) <= 1 /\ Copies(table[r]) \in {0, 1}
    BY <1>1, <1>2, FillFacts
  <1>4. 1 - Fill(table[r], 1) \in Nat
    BY <1>3
  <1>5. BlocksFor(1 - Fill(table[r], 1)) \in Nat
    BY <1>4, BlocksForFacts
  <1>6. QED
    BY <1>3, <1>5 DEF Required

LEMMA NeedsFinite ==
    ASSUME TypeOK, TablesHold, NEW S \in SUBSET Live
    PROVE  IsFiniteSet(Needs(S)) /\ Demand(S) \in Nat
  <1> DEFINE Sets == {{r} \X (1..Required(r, 1)) : r \in S}
  <1>1. IsFiniteSet(S)
    BY PoolAssumption, FS_Subset DEF Live
  <1>2. IsFiniteSet(Sets)
    <2>1. Sets = {[r \in S |-> {r} \X (1..Required(r, 1))][q] : q \in S}
      OBVIOUS
    <2> DEFINE f == [r \in S |-> {r} \X (1..Required(r, 1))]
    <2>2. f \in Surjection(S, Sets)
      BY DEF Surjection
    <2>3. QED
      BY <1>1, <2>2, FS_Surjection
  <1>3. \A T \in Sets : IsFiniteSet(T)
    <2> SUFFICES ASSUME NEW r \in S PROVE IsFiniteSet({r} \X (1..Required(r, 1)))
      OBVIOUS
    <2>1. IsFiniteSet({r}) /\ IsFiniteSet(1..Required(r, 1))
      <3>1. r \in Live /\ Required(r, 1) \in Nat
        BY RequiredNat
      <3>2. 1 \in Int /\ Required(r, 1) \in Int
        BY <3>1
      <3>3. QED
        BY <3>2, FS_Singleton, FS_Interval
    <2>2. QED
      BY <2>1, FS_Product
  <1>4. IsFiniteSet(UNION Sets)
    BY <1>2, <1>3, FS_UNION
  <1>5. Needs(S) = UNION Sets
    BY DEF Needs
  <1>6. QED
    BY <1>4, <1>5, FS_CardinalityType DEF Demand

\* What a request needs is part of what its batch needs.
LEMMA DemandSplits ==
    ASSUME TypeOK, TablesHold, NEW S \in SUBSET Live, NEW r \in S
    PROVE  Demand(S) = Demand(S \ {r}) + Required(r, 1)
  <1> DEFINE N == {r} \X (1..Required(r, 1))
             M == Needs(S \ {r})
  <1>1. Required(r, 1) \in Nat
    BY RequiredNat
  <1>2. IsFiniteSet(N) /\ Cardinality(N) = Required(r, 1)
    <2>1. IsFiniteSet({r}) /\ Cardinality({r}) = 1
      BY FS_Singleton
    <2>2. IsFiniteSet(1..Required(r, 1)) /\ Cardinality(1..Required(r, 1)) = Required(r, 1)
      BY <1>1, FS_Interval
    <2>3. QED
      BY <1>1, <2>1, <2>2, FS_Product
  <1>3. S \ {r} \in SUBSET Live
    OBVIOUS
  <1>4. IsFiniteSet(M) /\ Demand(S \ {r}) = Cardinality(M) /\ Demand(S \ {r}) \in Nat
    BY <1>3, NeedsFinite DEF Demand
  <1>5. Needs(S) = M \cup N /\ M \cap N = {}
    BY DEF Needs
  <1> HIDE DEF M, N
  <1>6. Cardinality(M \cup N) = Cardinality(M) + Cardinality(N) - Cardinality({})
    BY <1>2, <1>4, <1>5, FS_Union
  <1>7. Cardinality({}) = 0
    BY FS_EmptySet
  <1>8. QED
    BY <1>1, <1>2, <1>4, <1>5, <1>6, <1>7 DEF Demand

LEMMA PicksCount ==
    ASSUME NEW S, IsFiniteSet(S), NEW k \in Nat, NEW fresh \in Picks(S, k)
    PROVE  Cardinality(S \ ToSet(fresh)) = Cardinality(S) - k
  <1>1. /\ fresh \in [1..k -> S] /\ ToSet(fresh) \subseteq S
        /\ \A b : b \in ToSet(fresh) <=> \E j \in 1..k : b = fresh[j]
        /\ \A i, j \in 1..k : fresh[i] = fresh[j] => i = j
    BY ToSetFacts
  <1>2. fresh \in Bijection(1..k, ToSet(fresh))
    BY <1>1 DEF Bijection, Injection, Surjection, IsInjective
  <1>3. IsFiniteSet(1..k) /\ Cardinality(1..k) = k
    BY FS_Interval
  <1>4. Cardinality(ToSet(fresh)) = k
    BY <1>2, <1>3, FS_Bijection DEF ExistsBijection
  <1>5. S \cap ToSet(fresh) = ToSet(fresh)
    BY <1>1
  <1>6. Cardinality(S \ ToSet(fresh)) = Cardinality(S) - Cardinality(S \cap ToSet(fresh))
    BY FS_Difference
  <1>7. QED
    BY <1>4, <1>5, <1>6

\* An append to one request leaves no other one needing more.
LEMMA OthersNeedNoMore ==
    ASSUME TypeOK, TablesHold, BlocksHold, NEW r \in Live, NEW delta \in Seq(Tokens),
           NEW fresh, NEW g, NEW a, Appended(r, delta, fresh, g, a),
           NEW q \in Live \ {r}
    PROVE  /\ Required(q, 1)' \in Nat /\ Required(q, 1) \in Nat
           /\ Required(q, 1)' <= Required(q, 1)
  <1>1. /\ r \in Requests /\ q \in Requests /\ table[q] \in Seq(Entry) /\ table[q] # None
        /\ Shaped(table[q], length[q])
    BY LiveFacts DEF TablesHold
  <1>2. table'[q] = table[q]
    <2>1. table' = [table EXCEPT ![r] = g]
      BY DEF Appended, ExtendSeen
    <2>2. QED
      BY <1>1, <2>1 DEF TypeOK
  <1> DEFINE b == Last(table[q]).block
             k == BlocksFor(1 - Fill(table[q], 1))
  <1>3. Required(q, 1) = (IF PartialTail(table[q]) /\ refs[b] > 1 THEN 1 ELSE 0) + k
    BY DEF Required, Copies, SharedTail
  <1>4. Required(q, 1)' = (IF PartialTail(table[q]) /\ refs'[b] > 1 THEN 1 ELSE 0) + k
    <2>1. Required(q, 1)' = (IF PartialTail(table'[q]) /\ refs'[Last(table'[q]).block] > 1 THEN 1 ELSE 0)
                            + BlocksFor(1 - Fill(table'[q], 1))
      BY DEF Required, Copies, SharedTail
    <2>2. QED
      BY <1>2, <2>1
  <1>5. k \in Nat
    BY <1>1, RequiredNat
  <1>6. PartialTail(table[q]) => refs[b] \in Nat /\ refs'[b] \in Nat /\ refs'[b] <= refs[b]
    <2> SUFFICES ASSUME PartialTail(table[q])
                 PROVE  refs[b] \in Nat /\ refs'[b] \in Nat /\ refs'[b] <= refs[b]
      OBVIOUS
    <2>1. b \in BlocksIn(q) /\ b \in Blocks
      <3>1. table[q] # <<>>
        BY DEF PartialTail
      <3>2. Len(table[q]) \in 1..Len(table[q]) /\ b = table[q][Len(table[q])].block
        BY <1>1, <3>1, EntryFacts
      <3>3. QED
        BY <1>1, <3>2, BlocksOfFacts DEF BlocksIn
    <2>2. refs'[b] <= refs[b]
      BY <1>1, <2>1, ExtendElsewhere DEF Appended
    <2>3. refs \in [Blocks -> Nat] /\ refs' \in [Blocks -> Nat]
      BY DEF TypeOK, Appended, ExtendSeen
    <2>4. QED
      BY <2>1, <2>2, <2>3
  <1> HIDE DEF b, k
  <1>7. QED
    BY <1>3, <1>4, <1>5, <1>6

\* When append_batch_delta has found the reservation large enough, each request
\* leaves enough for those that are still to come.
LEMMA CommitOneCovers ==
    ASSUME PoolInv, CommitNeverRunsDry, NEW r \in Requests, NEW token \in Tokens, CommitOne(r, token)
    PROVE  CommitNeverRunsDry'
  <1>1. PoolInv'
    BY CommitOneKeeps
  <1>2. /\ phase = "commit" /\ r \in batch /\ batch' = batch \ {r} /\ batch \subseteq Live
        /\ TypeOK /\ TablesHold /\ BlocksHold /\ TypeOK' /\ TablesHold'
        /\ phase' = "commit" /\ batch' \subseteq Live'
    BY <1>1 DEF PoolInv, BatchKnown, CommitOne
  <1>3. PICK fresh, g, a : /\ Appended(r, <<token>>, fresh, g, a)
                           /\ pending' = pending \ ToSet(fresh)
                           /\ fresh \in Picks(pending, Required(r, 1))
    BY CommitOneKeeps
  <1>4. Demand(batch) = Demand(batch \ {r}) + Required(r, 1)
    BY <1>2, DemandSplits
  <1>5. Required(r, 1) \in Nat /\ r \in Live
    BY <1>2, RequiredNat
  <1>6. IsFiniteSet(pending) /\ Cardinality(pending) \in Nat
    <2>1. IsFiniteSet(pending)
      BY <1>2, PoolAssumption, FS_Subset DEF TypeOK
    <2>2. QED
      BY <2>1, FS_CardinalityType
  <1>7. Cardinality(pending') = Cardinality(pending) - Required(r, 1)
    BY <1>3, <1>5, <1>6, PicksCount
  <1>8. /\ Demand(batch)' <= Demand(batch \ {r})
        /\ Demand(batch)' \in Nat /\ Demand(batch \ {r}) \in Nat
    <2>1. \A q \in batch \ {r} : /\ Required(q, 1)' \in Nat /\ Required(q, 1) \in Nat
                                 /\ Required(q, 1)' <= Required(q, 1)
      <3>1. <<token>> \in Seq(Tokens)
        OBVIOUS
      <3>2. QED
        BY <1>2, <1>3, <1>5, <3>1, OthersNeedNoMore
    <2>2. \A q \in batch \ {r} : 1..(Required(q, 1)') \subseteq 1..Required(q, 1)
      BY <2>1
    <2>3. Needs(batch)' = UNION {{q} \X (1..(Required(q, 1)')) : q \in batch \ {r}}
      BY <1>2 DEF Needs
    <2>4. Needs(batch)' \subseteq Needs(batch \ {r})
      <3> SUFFICES ASSUME NEW m \in Needs(batch)' PROVE m \in Needs(batch \ {r})
        OBVIOUS
      <3>1. PICK q \in batch \ {r} : m \in {q} \X (1..(Required(q, 1)'))
        BY <2>3
      <3>2. m \in {q} \X (1..Required(q, 1))
        BY <2>2, <3>1
      <3>3. QED
        BY <3>2 DEF Needs
    <2>5. IsFiniteSet(Needs(batch \ {r})) /\ Demand(batch \ {r}) \in Nat
      BY <1>2, NeedsFinite
    <2>6. /\ IsFiniteSet(Needs(batch)')
          /\ Cardinality(Needs(batch)') <= Cardinality(Needs(batch \ {r}))
      BY <2>4, <2>5, FS_Subset
    <2>7. Cardinality(Needs(batch)') \in Nat
      BY <2>6, FS_CardinalityType
    <2>8. QED
      BY <2>5, <2>6, <2>7 DEF Demand
  <1>9. Demand(batch) <= Cardinality(pending)
    BY <1>2 DEF CommitNeverRunsDry
  <1>10. Demand(batch)' <= Cardinality(pending')
    BY <1>4, <1>5, <1>6, <1>7, <1>8, <1>9
  <1>11. QED
    BY <1>10 DEF CommitNeverRunsDry

\* The reservation covers every request of a batch that is still to be appended,
\* even if one of them shares its tail with those before it.
THEOREM CommitsNeverRunDry == Spec => []CommitNeverRunsDry
  <1>1. Init => CommitNeverRunsDry
    BY DEF Init, CommitNeverRunsDry
  <1>2. ASSUME PoolInv, CommitNeverRunsDry, [Next]_vars
        PROVE  CommitNeverRunsDry'
    <2> SUFFICES ASSUME phase' = "commit" PROVE CommitNeverRunsDry'
      BY DEF CommitNeverRunsDry
    <2>1. \/ UNCHANGED vars \/ Commit
          \/ \E r \in Requests, token \in Tokens : CommitOne(r, token)
      BY <1>2 DEF Next, Create, Release, AppendDelta, Fork, Truncate, Reserve, EndBatch, batchVars
    <2>2. CASE \E r \in Requests, token \in Tokens : CommitOne(r, token)
      BY <1>2, <2>2, CommitOneCovers
    <2>3. CASE UNCHANGED vars \/ Commit
      <3>1. UNCHANGED <<refs, table, batch, pending>>
        BY <2>3 DEF vars, batchVars, Commit
      <3>2. \A r : Required(r, 1)' = Required(r, 1)
        BY <3>1 DEF Required, Copies, SharedTail
      <3>3. Demand(batch)' = Demand(batch)
        BY <3>1, <3>2 DEF Demand, Needs
      <3>4. Demand(batch) <= Cardinality(pending)
        BY <1>2, <2>3 DEF Commit, CommitNeverRunsDry, vars, batchVars
      <3>5. QED
        BY <3>1, <3>3, <3>4 DEF CommitNeverRunsDry
    <2>4. QED
      BY <2>1, <2>2, <2>3
  <1>3. QED
    BY <1>1, <1>2, PoolInvariant, PTL DEF Spec

-----------------------------------------------------------------------------
(* The store that the pool implements *)

\* What the n tokens of table e read in the blocks of sl.
View(e, n, sl) == [p \in 1..n |-> sl[e[EntryAt(p)].block][SlotAt(p)]]

States == [Blocks -> [Slots -> Tokens \cup {Zero}]]

LEMMA ViewFacts ==
    ASSUME NEW e \in Seq(Entry), NEW n \in Nat, Shaped(e, n), NEW sl \in States
    PROVE  /\ View(e, n, sl) \in Seq(Tokens \cup {Zero}) /\ Len(View(e, n, sl)) = n
           /\ View(e, n, sl) # None
           /\ \A p \in 1..n : View(e, n, sl)[p] = sl[e[EntryAt(p)].block][SlotAt(p)]
  <1>1. \A p \in 1..n : sl[e[EntryAt(p)].block][SlotAt(p)] \in Tokens \cup {Zero}
    <2> SUFFICES ASSUME NEW p \in 1..n
                 PROVE  sl[e[EntryAt(p)].block][SlotAt(p)] \in Tokens \cup {Zero}
      OBVIOUS
    <2>1. EntryAt(p) \in 1..Len(e) /\ SlotAt(p) \in Slots
      BY PositionsCovered, EntryFacts
    <2>2. e[EntryAt(p)].block \in Blocks
      BY <2>1, EntryFacts
    <2>3. QED
      BY <2>1, <2>2 DEF States
  <1>2. View(e, n, sl) \in [1..n -> Tokens \cup {Zero}]
    BY <1>1 DEF View
  <1>3. View(e, n, sl) \in Seq(Tokens \cup {Zero}) /\ Len(View(e, n, sl)) = n
    BY <1>2
  <1>4. View(e, n, sl) # None
    BY <1>3, PoolAssumption
  <1>5. QED
    BY <1>3, <1>4 DEF View

\* A view that reads the same as the start of a longer one is that start.
LEMMA StartOfView ==
    ASSUME NEW S, NEW v \in Seq(S), NEW u \in Seq(S), Len(v) <= Len(u),
           \A p \in 1..Len(v) : v[p] = u[p]
    PROVE  v = SubSeq(u, 1, Len(v))
  <1>1. Len(v) \in 0..Len(u) /\ Len(v) \in Nat /\ Len(u) \in Nat
    BY LenProperties
  <1>2. /\ SubSeq(u, 1, Len(v)) \in Seq(S) /\ Len(SubSeq(u, 1, Len(v))) = Len(v)
        /\ \A k \in 1..Len(v) : SubSeq(u, 1, Len(v))[k] = u[k]
    BY <1>1, SubSeqFacts
  <1>3. QED
    BY <1>2, SeqEqual

\* A view that reads like another one and then like a sequence is their
\* concatenation.
LEMMA EndOfView ==
    ASSUME NEW S, NEW v \in Seq(S), NEW u \in Seq(S), NEW d \in Seq(S),
           Len(v) = Len(u) + Len(d),
           \A p \in 1..Len(u) : v[p] = u[p],
           \A p \in 1..Len(d) : v[Len(u) + p] = d[p]
    PROVE  v = u \o d
  <1>1. Len(v) \in Nat /\ Len(u) \in Nat /\ Len(d) \in Nat
    BY LenProperties
  <1>2. u \o d \in Seq(S) /\ Len(u \o d) = Len(u) + Len(d)
    OBVIOUS
  <1>3. ASSUME NEW p \in 1..Len(v) PROVE v[p] = (u \o d)[p]
    <2>1. CASE p <= Len(u)
      <3>1. p \in 1..Len(u)
        BY <1>1, <2>1
      <3>2. (u \o d)[p] = u[p]
        BY <3>1
      <3>3. QED
        BY <3>1, <3>2
    <2>2. CASE ~(p <= Len(u))
      <3> DEFINE q == p - Len(u)
      <3>1. q \in 1..Len(d) /\ p = Len(u) + q
        BY <1>1, <2>2
      <3>2. (u \o d)[p] = d[q]
        BY <1>1, <2>2
      <3> HIDE DEF q
      <3>3. QED
        BY <3>1, <3>2
    <2>3. QED
      BY <2>1, <2>2
  <1>4. QED
    BY <1>2, <1>3, SeqEqual

LEMMA CacheOf ==
    ASSUME TypeOK, TablesHold, NEW r \in Requests
    PROVE  IF r \in Live
           THEN /\ Materialize(r) = View(table[r], length[r], slab)
                /\ table[r] \in Seq(Entry) /\ length[r] \in Nat /\ Shaped(table[r], length[r])
                /\ slab \in States
           ELSE Materialize(r) = None /\ table[r] = None /\ length[r] = 0
  BY LiveFacts DEF TypeOK, TablesHold, Live, Materialize, View, States

\* Nobody else's cache changes unless a block he holds does.
LEMMA CacheKept ==
    ASSUME TypeOK, TablesHold, NEW q \in Requests,
           table'[q] = table[q], length'[q] = length[q],
           \A b \in BlocksIn(q) : slab'[b] = slab[b]
    PROVE  Materialize(q)' = Materialize(q)
  <1>1. CASE q \notin Live
    BY <1>1 DEF Materialize, Live
  <1>2. CASE q \in Live
    <2>1. /\ Materialize(q) = View(table[q], length[q], slab)
          /\ table[q] \in Seq(Entry) /\ length[q] \in Nat /\ Shaped(table[q], length[q])
          /\ table[q] # None
      BY <1>2, CacheOf, LiveFacts
    <2>2. Materialize(q)' = View(table[q], length[q], slab')
      BY <1>2, <2>1 DEF Materialize, Live, View
    <2>3. ASSUME NEW p \in 1..length[q]
          PROVE  slab'[table[q][EntryAt(p)].block] = slab[table[q][EntryAt(p)].block]
      <3>1. EntryAt(p) \in 1..Len(table[q])
        BY <2>1, PositionsCovered, EntryFacts
      <3>2. table[q][EntryAt(p)].block \in BlocksIn(q)
        BY <2>1, <3>1, BlocksOfFacts DEF BlocksIn
      <3>3. QED
        BY <3>2
    <2>4. View(table[q], length[q], slab') = View(table[q], length[q], slab)
      BY <2>3 DEF View
    <2>5. QED
      BY <2>1, <2>2, <2>4
  <1>3. QED
    BY <1>1, <1>2

\* When only the cache of r changes, the map of all caches changes at r alone.
Caches == [q \in Requests |-> Materialize(q)]

LEMMA OnlyThatCache ==
    ASSUME NEW r \in Requests, NEW new, Materialize(r)' = new,
           \A q \in Requests \ {r} : Materialize(q)' = Materialize(q)
    PROVE  Caches' = [Caches EXCEPT ![r] = new]
  <1>1. Caches' = [q \in Requests |-> Materialize(q)']
    BY DEF Caches
  <1> DEFINE d == [q \in Requests |-> Materialize(q)']
             c == [q \in Requests |-> Materialize(q)]
  <1>2. \A q \in Requests : d[q] = Materialize(q)' /\ c[q] = Materialize(q)
    OBVIOUS
  <1>3. \A q \in Requests : d[q] = [c EXCEPT ![r] = new][q]
    BY <1>2
  <1>4. d = [c EXCEPT ![r] = new]
    <2>1. DOMAIN d = Requests /\ DOMAIN [c EXCEPT ![r] = new] = Requests
      OBVIOUS
    <2>2. d = [q \in Requests |-> d[q]]
      OBVIOUS
    <2>3. [c EXCEPT ![r] = new] = [q \in Requests |-> [c EXCEPT ![r] = new][q]]
      OBVIOUS
    <2>4. QED
      BY <1>3, <2>2, <2>3
  <1>5. QED
    BY <1>1, <1>4 DEF Caches

\* The operations of the store in terms of the pool.
LEMMA StoreOperations ==
    /\ \A r : Store!Create(r) <=> ~Store!Live(r) /\ Caches' = [Caches EXCEPT ![r] = <<>>]
    /\ \A r : Store!Release(r) <=> Store!Live(r) /\ Caches' = [Caches EXCEPT ![r] = None]
    /\ \A r, delta : Store!Extend(r, delta) <=>
          Store!Live(r) /\ Caches' = [Caches EXCEPT ![r] = Caches[r] \o delta]
    /\ \A r, n : Store!Truncate(r, n) <=>
          /\ Store!Live(r) /\ n < Len(Caches[r])
          /\ Caches' = [Caches EXCEPT ![r] = SubSeq(Caches[r], 1, n)]
    /\ \A s, t, n : Store!Fork(s, t, n) <=>
          /\ Store!Live(s) /\ ~Store!Live(t) /\ n <= Len(Caches[s])
          /\ Caches' = [Caches EXCEPT ![t] = SubSeq(Caches[s], 1, n)]
    /\ \A r : Store!Live(r) <=> Caches[r] # None
    /\ \A r \in Requests : Caches[r] = Materialize(r)
  BY DEF Store!Create, Store!Release, Store!Extend, Store!Truncate, Store!Fork, Store!Live, Caches

LEMMA CreateStores ==
    ASSUME PoolInv, NEW r \in Requests, Create(r)
    PROVE  Store!Create(r)
  <1>1. /\ TypeOK /\ TablesHold /\ r \notin Live
        /\ table' = [table EXCEPT ![r] = <<>>] /\ length' = length /\ slab' = slab
    BY DEF PoolInv, Create
  <1>2. \A q \in Requests \ {r} : Materialize(q)' = Materialize(q)
    <2> SUFFICES ASSUME NEW q \in Requests \ {r} PROVE Materialize(q)' = Materialize(q)
      OBVIOUS
    <2>1. table'[q] = table[q]
      BY <1>1 DEF TypeOK
    <2>2. QED
      BY <1>1, <2>1, CacheKept
  <1>3. Materialize(r) = None /\ length[r] = 0
    BY <1>1, CacheOf
  <1>4. Materialize(r)' = <<>>
    <2>1. table'[r] = <<>> /\ <<>> # None
      <3>1. <<>> \in Seq(Entry)
        OBVIOUS
      <3>2. QED
        BY <1>1, <3>1, TableIsSome DEF TypeOK
    <2>2. Materialize(r)' = View(<<>>, 0, slab')
      BY <1>1, <1>3, <2>1 DEF Materialize, Live, View
    <2>3. QED
      BY <2>2 DEF View
  <1>5. QED
    BY <1>2, <1>3, <1>4, OnlyThatCache, StoreOperations

LEMMA ReleaseStores ==
    ASSUME PoolInv, NEW r \in Requests, Release(r)
    PROVE  Store!Release(r)
  <1> DEFINE blocks == BlocksOf(table[r])
  <1>1. /\ TypeOK /\ TablesHold /\ BlocksHold /\ r \in Live
        /\ table[r] \in Seq(Entry) /\ table[r] # None
        /\ ReleaseRefs(blocks)
        /\ slab' = [b \in Blocks |-> IF b \in Freed(blocks) THEN [s \in Slots |-> Zero] ELSE slab[b]]
        /\ table' = [table EXCEPT ![r] = None]
        /\ length' = [length EXCEPT ![r] = 0] /\ pending' = pending
    BY LiveFacts DEF PoolInv, Release, batchVars
  <1>2. BlocksIn(r) = blocks
    BY <1>1 DEF BlocksIn
  <1> HIDE DEF blocks
  <1>3. /\ \A b \in BlocksIn(r), q \in Requests \ {r} : Unshared(b) => b \notin BlocksIn(q)
        /\ Freed(blocks) \subseteq blocks
    BY <1>1, <1>2, ReleaseFacts
  <1>4. \A q \in Requests \ {r} : Materialize(q)' = Materialize(q)
    <2> SUFFICES ASSUME NEW q \in Requests \ {r} PROVE Materialize(q)' = Materialize(q)
      OBVIOUS
    <2>1. table'[q] = table[q] /\ length'[q] = length[q]
      BY <1>1 DEF TypeOK
    <2>2. ASSUME NEW b \in BlocksIn(q) PROVE slab'[b] = slab[b]
      <3>1. b \in Blocks
        BY <1>1, Held
      <3>2. b \notin Freed(blocks)
        BY <1>2, <1>3 DEF Freed
      <3>3. QED
        BY <1>1, <3>1, <3>2
    <2>3. QED
      BY <1>1, <2>1, <2>2, CacheKept
  <1>5. Materialize(r)' = None
    BY <1>1 DEF TypeOK, Materialize, Live
  <1>6. Materialize(r) # None
    BY <1>1, CacheOf, ViewFacts
  <1>7. QED
    BY <1>4, <1>5, <1>6, OnlyThatCache, StoreOperations

LEMMA TruncateStores ==
    ASSUME PoolInv, NEW r \in Requests, NEW n \in 0..length[r], Truncate(r, n)
    PROVE  Store!Truncate(r, n)
  <1>1. /\ TypeOK /\ TablesHold /\ r \in Live /\ n < length[r]
        /\ length' = [length EXCEPT ![r] = n] /\ slab' = slab
    BY DEF PoolInv, Truncate
  <1>2. PICK x, B : /\ table' = [table EXCEPT ![r] = x]
                    /\ Shortened(table[r], n, Whole(table[r], n), Remainder(table[r], n), B, x)
                    /\ \A i \in 1..Len(x) : x[i].block = table[r][i].block
    BY TruncateKeeps
  <1>3. /\ x \in Seq(Entry) /\ Shaped(x, n) /\ x # None
    BY <1>2, TableIsSome DEF Shortened
  <1> DEFINE e == table[r]
             old == View(e, length[r], slab)
             new == View(x, n, slab)
  <1>4. /\ Materialize(r) = old /\ e \in Seq(Entry) /\ length[r] \in Nat /\ Shaped(e, length[r])
        /\ slab \in States /\ n \in Nat /\ r \in Requests
    BY <1>1, CacheOf
  <1>5. Materialize(r)' = new
    <2>1. table'[r] = x /\ length'[r] = n
      BY <1>1, <1>2 DEF TypeOK
    <2>2. QED
      BY <1>1, <1>3, <2>1 DEF Materialize, Live, View
  <1>6. \A q \in Requests \ {r} : Materialize(q)' = Materialize(q)
    <2> SUFFICES ASSUME NEW q \in Requests \ {r} PROVE Materialize(q)' = Materialize(q)
      OBVIOUS
    <2>1. table'[q] = table[q] /\ length'[q] = length[q]
      BY <1>1, <1>2 DEF TypeOK
    <2>2. QED
      BY <1>1, <2>1, CacheKept
  <1>7. /\ old \in Seq(Tokens \cup {Zero}) /\ Len(old) = length[r] /\ old # None
        /\ \A p \in 1..length[r] : old[p] = slab[e[EntryAt(p)].block][SlotAt(p)]
    BY <1>4, ViewFacts
  <1>8. /\ new \in Seq(Tokens \cup {Zero}) /\ Len(new) = n /\ new # None
        /\ \A p \in 1..n : new[p] = slab[x[EntryAt(p)].block][SlotAt(p)]
    BY <1>3, <1>4, ViewFacts
  <1>9. \A p \in 1..n : p \in 1..length[r] /\ x[EntryAt(p)].block = e[EntryAt(p)].block
    <2> SUFFICES ASSUME NEW p \in 1..n
                 PROVE  p \in 1..length[r] /\ x[EntryAt(p)].block = e[EntryAt(p)].block
      OBVIOUS
    <2>1. EntryAt(p) \in 1..Len(x)
      BY <1>3, <1>4, PositionsCovered, EntryFacts
    <2>2. p \in 1..length[r]
      BY <1>1, <1>4
    <2>3. QED
      BY <1>2, <2>1, <2>2
  <1> HIDE DEF e, old, new
  <1>10. new = SubSeq(old, 1, n)
    <2>1. Len(new) <= Len(old) /\ Len(new) = n
      BY <1>1, <1>4, <1>7, <1>8
    <2>2. \A p \in 1..Len(new) : new[p] = old[p]
      BY <1>7, <1>8, <1>9
    <2>3. QED
      BY <1>7, <1>8, <2>1, <2>2, StartOfView
  <1>11. n < Len(old)
    BY <1>1, <1>7
  <1>12. QED
    <2>1. Caches' = [Caches EXCEPT ![r] = new]
      BY <1>4, <1>5, <1>6, OnlyThatCache
    <2>2. Caches[r] = old /\ old # None
      BY <1>4, <1>7, StoreOperations
    <2>3. QED
      BY <1>10, <1>11, <2>1, <2>2, StoreOperations

LEMMA ForkStores ==
    ASSUME PoolInv, NEW source \in Requests, NEW target \in Requests,
           NEW n \in 0..length[source], Fork(source, target, n)
    PROVE  Store!Fork(source, target, n)
  <1> DEFINE e == table[source]
             w == Whole(e, n)
             rest == Remainder(e, n)
  <1>1. /\ TypeOK /\ TablesHold /\ BlocksHold /\ source \in Live /\ target \notin Live
        /\ length' = [length EXCEPT ![target] = n]
    BY DEF PoolInv, Fork
  <1>2. PICK x, B : /\ table' = [table EXCEPT ![target] = x]
                    /\ Shortened(e, n, w, rest, B, x)
                    /\ \A b \in Blocks : refs[b] # 0 => slab'[b] = slab[b]
                    /\ rest > 0 => \A s \in 1..rest :
                          slab'[x[w + 1].block][s] = slab[e[w + 1].block][s]
    BY ForkKeeps
  <1> HIDE DEF e, w, rest
  <1>3. /\ x \in Seq(Entry) /\ Shaped(x, n) /\ w \in 0..Len(e) /\ rest \in Nat /\ x # None
        /\ \A i \in 1..w : i \in 1..Len(x) /\ x[i] = e[i]
        /\ rest = 0 => Len(x) = w
        /\ rest > 0 => Len(x) = w + 1 /\ rest \in Slots /\ x[w + 1].tokens = rest
    BY <1>2, TableIsSome DEF Shortened
  <1> DEFINE old == View(e, length[source], slab)
             new == View(x, n, slab')
  <1>4. /\ Materialize(source) = old /\ e \in Seq(Entry) /\ length[source] \in Nat
        /\ Shaped(e, length[source]) /\ slab \in States /\ n \in Nat
        /\ n <= length[source] /\ BlocksIn(source) = BlocksOf(e)
    <2>1. n \in Nat /\ n <= length[source]
      BY <1>1 DEF TypeOK
    <2>2. BlocksIn(source) = BlocksOf(e)
      BY <1>1, LiveFacts DEF BlocksIn, e
    <2>3. QED
      BY <1>1, <2>1, <2>2, CacheOf DEF e
  <1>5. slab' \in States
    <2>1. PoolInv'
      BY ForkKeeps
    <2>2. QED
      BY <2>1 DEF PoolInv, TypeOK, States
  <1>6. Materialize(target)' = new /\ Materialize(target) = None
    <2>1. table'[target] = x /\ length'[target] = n
      BY <1>1, <1>2 DEF TypeOK
    <2>2. QED
      BY <1>1, <1>3, <2>1 DEF Materialize, Live, View
  <1>7. \A q \in Requests \ {target} : Materialize(q)' = Materialize(q)
    <2> SUFFICES ASSUME NEW q \in Requests \ {target} PROVE Materialize(q)' = Materialize(q)
      OBVIOUS
    <2>1. table'[q] = table[q] /\ length'[q] = length[q]
      BY <1>1, <1>2 DEF TypeOK
    <2>2. \A b \in BlocksIn(q) : slab'[b] = slab[b]
      <3> SUFFICES ASSUME NEW b \in BlocksIn(q) PROVE slab'[b] = slab[b]
        OBVIOUS
      <3>1. b \in Blocks /\ refs[b] \in Nat /\ refs[b] >= 1
        BY <1>1, Held
      <3>2. refs[b] # 0
        BY <3>1
      <3>3. QED
        BY <1>2, <3>1, <3>2
    <2>3. QED
      BY <1>1, <2>1, <2>2, CacheKept
  <1>8. /\ old \in Seq(Tokens \cup {Zero}) /\ Len(old) = length[source] /\ old # None
        /\ \A p \in 1..length[source] : old[p] = slab[e[EntryAt(p)].block][SlotAt(p)]
    BY <1>4, ViewFacts
  <1>9. /\ new \in Seq(Tokens \cup {Zero}) /\ Len(new) = n /\ new # None
        /\ \A p \in 1..n : new[p] = slab'[x[EntryAt(p)].block][SlotAt(p)]
    BY <1>3, <1>4, <1>5, ViewFacts
  <1>10. ASSUME NEW p \in 1..n
         PROVE  /\ p \in 1..length[source]
                /\ slab'[x[EntryAt(p)].block][SlotAt(p)] = slab[e[EntryAt(p)].block][SlotAt(p)]
    <2> DEFINE i == EntryAt(p)
               s == SlotAt(p)
    <2>1. i \in 1..Len(x) /\ s \in Slots /\ s <= x[i].tokens
      BY <1>3, <1>4, PositionsCovered, EntryFacts
    <2>2. p \in 1..length[source]
      BY <1>4
    <2>3. w \in Nat /\ (rest = 0 \/ rest > 0) /\ s \in Nat /\ s >= 1
      BY <1>3, <2>1, SizeFacts
    <2> HIDE DEF i, s
    <2>4. CASE i \in 1..w
      <3>1. i \in 1..Len(e) /\ x[i] = e[i]
        BY <1>3, <1>4, <2>4, EntryFacts
      <3>2. e[i].block \in BlocksIn(source)
        BY <1>4, <3>1, BlocksOfFacts
      <3>3. e[i].block \in Blocks /\ refs[e[i].block] \in Nat /\ refs[e[i].block] >= 1
        BY <1>1, <3>2, Held
      <3>4. refs[e[i].block] # 0
        BY <3>3
      <3>5. slab'[e[i].block] = slab[e[i].block]
        BY <1>2, <3>3, <3>4
      <3>6. QED
        BY <2>2, <3>1, <3>5 DEF i, s
    <2>5. CASE ~(i \in 1..w)
      <3>1. CASE rest = 0
        BY <1>3, <2>1, <2>5, <3>1
      <3>2. CASE rest > 0
        <4>1. Len(x) = w + 1 /\ x[w + 1].tokens = rest
          BY <1>3, <3>2
        <4>2. i = w + 1
          BY <2>1, <2>3, <2>5, <4>1
        <4>3. s \in 1..rest
          BY <1>3, <2>1, <2>3, <4>1, <4>2
        <4>4. slab'[x[w + 1].block][s] = slab[e[w + 1].block][s]
          BY <1>2, <3>2, <4>3
        <4>5. QED
          BY <2>2, <4>2, <4>4 DEF i, s
      <3>3. QED
        BY <2>3, <3>1, <3>2
    <2>6. QED
      BY <2>4, <2>5
  <1> HIDE DEF old, new
  <1>11. new = SubSeq(old, 1, n)
    <2>1. Len(new) <= Len(old) /\ Len(new) = n /\ \A p \in 1..Len(new) : new[p] = old[p]
      BY <1>4, <1>8, <1>9, <1>10
    <2>2. QED
      BY <1>8, <1>9, <2>1, StartOfView
  <1>12. n <= Len(old)
    BY <1>4, <1>8
  <1>13. QED
    BY <1>4, <1>6, <1>7, <1>8, <1>11, <1>12, OnlyThatCache, StoreOperations

\* An append gives the request its tokens and every other one what it had.
LEMMA AppendStores ==
    ASSUME TypeOK, TablesHold, BlocksHold, TypeOK', NEW r \in Live,
           NEW delta \in Seq(Tokens), Len(delta) \in Nat \ {0},
           NEW fresh, NEW g, NEW a, Appended(r, delta, fresh, g, a)
    PROVE  Store!Extend(r, delta)
  <1> DEFINE e == table[r]
             n == Len(delta)
             len == length[r]
  <1>1. /\ r \in Requests /\ e \in Seq(Entry) /\ e # None /\ DOMAIN e = 1..Len(e)
        /\ Len(e) \in Nat /\ len \in Nat /\ Shaped(e, len)
        /\ Materialize(r) = View(e, len, slab) /\ slab \in States /\ slab' \in States
        /\ BlocksIn(r) = BlocksOf(e) /\ n \in Nat /\ n >= 1
    BY LiveFacts, CacheOf, EntryFacts DEF BlocksIn, TypeOK, States
  <1>2. /\ g \in Seq(Entry) /\ a \in 1..Len(g) /\ Len(e) <= Len(g) /\ Shaped(g, len + n)
        /\ g # None /\ Len(g) \in Nat /\ DOMAIN g = 1..Len(g)
        /\ \A i \in 1..Len(g) : i < a => i <= Len(e) /\ g[i] = e[i]
        /\ \A i \in a..Len(g) : i <= Len(e) =>
             \/ SharedTail(e) /\ i = Len(e)
             \/ ~SharedTail(e) /\ g[i].block = e[i].block
    BY TableIsSome, EntryFacts DEF Appended, TableGrows
  <1>3. /\ table' = [table EXCEPT ![r] = g] /\ length' = [length EXCEPT ![r] = len + n]
        /\ \A b \in Blocks \ BlocksFrom(g, a) : slab'[b] = slab[b]
        /\ \A i \in a..Len(g) : \A s \in Slots :
              slab'[g[i].block][s] =
                    IF Start(i) + s - len \in 1..n THEN delta[Start(i) + s - len]
                    ELSE IF SharedTail(e) /\ i = Len(e) /\ s <= Last(e).tokens
                         THEN slab[Last(e).block][s]
                    ELSE slab[g[i].block][s]
    BY DEF Appended, ExtendSeen
  <1>b. DOMAIN table = Requests /\ DOMAIN length = Requests
    BY DEF TypeOK
  <1>4. \A q \in Requests \ {r} : Materialize(q)' = Materialize(q)
    <2> SUFFICES ASSUME NEW q \in Requests \ {r} PROVE Materialize(q)' = Materialize(q)
      OBVIOUS
    <2>1. table'[q] = table[q] /\ length'[q] = length[q]
      BY <1>b, <1>3
    <2>2. \A b \in BlocksIn(q) : slab'[b] = slab[b]
      BY ExtendElsewhere DEF Appended
    <2>3. QED
      BY <2>1, <2>2, CacheKept
  <1> DEFINE old == View(e, len, slab)
             new == View(g, len + n, slab')
  <1>5. Materialize(r)' = new
    <2>1. table'[r] = g /\ length'[r] = len + n
      <3>1. r \in Requests
        BY <1>1
      <3>2. QED
        BY <1>3, <1>b, <3>1
    <2>2. QED
      BY <1>1, <1>2, <2>1 DEF Materialize, Live, View
  <1>6. /\ old \in Seq(Tokens \cup {Zero}) /\ Len(old) = len /\ old # None
        /\ \A p \in 1..len : old[p] = slab[e[EntryAt(p)].block][SlotAt(p)]
    BY <1>1, ViewFacts
  <1>7. /\ new \in Seq(Tokens \cup {Zero}) /\ Len(new) = len + n /\ new # None
        /\ \A p \in 1..len + n : new[p] = slab'[g[EntryAt(p)].block][SlotAt(p)]
    <2> DEFINE t == len + n
    <2>1. t \in Nat /\ Shaped(g, t) /\ g \in Seq(Entry) /\ slab' \in States
      BY <1>1, <1>2
    <2> HIDE DEF t
    <2>2. /\ View(g, t, slab') \in Seq(Tokens \cup {Zero}) /\ Len(View(g, t, slab')) = t
          /\ View(g, t, slab') # None
          /\ \A p \in 1..t : View(g, t, slab')[p] = slab'[g[EntryAt(p)].block][SlotAt(p)]
      BY <2>1, ViewFacts
    <2>3. QED
      BY <2>2 DEF t
  <1>a. Materialize(r) = old
    BY <1>1
  <1> HIDE DEF e, n, len, old, new
  <1>8. ASSUME NEW p \in 1..len
        PROVE  slab'[g[EntryAt(p)].block][SlotAt(p)] = slab[e[EntryAt(p)].block][SlotAt(p)]
    <2> DEFINE i == EntryAt(p)
               s == SlotAt(p)
    <2>1. i \in 1..Len(e) /\ s \in Slots /\ s <= e[i].tokens /\ p = Start(i) + s
      BY <1>1, PositionsCovered
    <2>2. i \in 1..Len(g) /\ i <= Len(e)
      <3>1. Len(e) \in Nat /\ Len(g) \in Nat /\ Len(e) <= Len(g)
        <4>1. Len(e) <= Len(g) /\ Len(g) \in Nat
          BY <1>2
        <4>2. QED
          BY <1>1, <4>1
      <3>2. QED
        BY <2>1, <3>1
    <2> HIDE DEF i, s
    <2>3. CASE i < a
      <3>1. g[i] = e[i] /\ g[i].block \in Blocks
        BY <1>2, <2>2, <2>3, EntryFacts
      <3>2. g[i].block \notin BlocksFrom(g, a)
        <4> SUFFICES ASSUME NEW j \in a..Len(g), g[i].block = g[j].block PROVE FALSE
          BY DEF BlocksFrom
        <4>1. j \in 1..Len(g)
          BY <1>2
        <4>2. i = j
          BY <1>2, <2>2, <4>1 DEF Shaped
        <4>3. QED
          BY <1>2, <2>3, <4>2
      <3>3. slab'[g[i].block] = slab[g[i].block]
        BY <1>3, <3>1, <3>2
      <3>4. QED
        BY <3>1, <3>3 DEF i, s
    <2>4. CASE ~(i < a)
      <3>1. i \in a..Len(g)
        BY <1>2, <2>2, <2>4
      <3>2. ~(Start(i) + s - len \in 1..n)
        <4>1. p \in Nat /\ p <= len /\ len \in Nat
          BY <1>1
        <4>2. ~(p - len \in 1..n)
          BY <4>1
        <4>3. Start(i) + s - len = p - len
          <5>1. Start(i) \in Nat /\ s \in Nat
            BY <1>1, <2>1, EntriesEnd, SizeFacts
          <5>2. p = Start(i) + s
            BY <2>1
          <5>3. QED
            BY <4>1, <5>1, <5>2
        <4>4. QED
          BY <4>2, <4>3
      <3>3. slab'[g[i].block][s] = IF SharedTail(e) /\ i = Len(e) /\ s <= Last(e).tokens
                                   THEN slab[Last(e).block][s] ELSE slab[g[i].block][s]
        BY <1>3, <2>1, <3>1, <3>2
      <3>4. CASE SharedTail(e)
        <4>1. i = Len(e)
          BY <1>2, <2>2, <3>1, <3>4
        <4>2. Last(e) = e[i]
          BY <1>1, <2>1, <4>1, EntryFacts
        <4>3. slab'[g[i].block][s] = slab[e[i].block][s]
          BY <2>1, <3>3, <3>4, <4>1, <4>2
        <4>4. QED
          BY <4>3 DEF i, s
      <3>5. CASE ~SharedTail(e)
        <4>1. g[i].block = e[i].block
          BY <1>2, <2>2, <3>1, <3>5
        <4>2. slab'[g[i].block][s] = slab[e[i].block][s]
          BY <3>3, <3>5, <4>1
        <4>3. QED
          BY <4>2 DEF i, s
      <3>6. QED
        BY <3>4, <3>5
    <2>5. QED
      BY <2>3, <2>4
  <1>9. ASSUME NEW p \in 1..n
        PROVE  slab'[g[EntryAt(len + p)].block][SlotAt(len + p)] = delta[p]
    <2> DEFINE i == EntryAt(len + p)
               s == SlotAt(len + p)
    <2>0. PICK q : q = len + p
      OBVIOUS
    <2>a. q \in 1..len + n /\ len + n \in Nat /\ q \in Nat /\ p \in Nat
      BY <1>1, <2>0
    <2>1. /\ EntryAt(q) \in 1..Len(g) /\ SlotAt(q) \in Slots
          /\ SlotAt(q) <= g[EntryAt(q)].tokens /\ q = Start(EntryAt(q)) + SlotAt(q)
      BY <1>2, <2>a, PositionsCovered
    <2>2. i \in 1..Len(g) /\ s \in Slots /\ q = Start(i) + s
      BY <2>0, <2>1
    <2> HIDE DEF i, s
    <2>3. Start(i) \in Nat /\ s \in Nat
      BY <2>2, EntriesEnd, SizeFacts, <1>2
    <2>4. Start(i) + s - len = p
      BY <1>1, <2>0, <2>2, <2>3
    <2>5. ~(i < a)
      <3> SUFFICES ASSUME i < a PROVE FALSE
        OBVIOUS
      <3>1. i \in 1..Len(e)
        <4>1. i <= Len(e)
          BY <1>2, <2>2
        <4>a. Len(e) \in Nat
          BY <1>1
        <4>2. QED
          BY <1>2, <2>2, <4>1, <4>a
      <3>2. Start(i) + s <= len
        <4>1. g[i] = e[i]
          BY <1>2, <2>2
        <4>2. s <= e[i].tokens
          BY <2>0, <2>1, <4>1 DEF i, s
        <4>3. Start(i) + e[i].tokens <= len
          BY <1>1, <3>1, EntriesEnd
        <4>4. e[i].tokens \in Nat
          BY <1>1, <3>1, EntryFacts, SizeFacts
        <4>5. QED
          BY <1>1, <2>3, <4>2, <4>3, <4>4
      <3>3. QED
        BY <1>1, <2>a, <2>0, <2>2, <3>2
    <2>6. i \in a..Len(g)
      BY <1>2, <2>2, <2>5
    <2>7. slab'[g[i].block][s] = delta[Start(i) + s - len]
      BY <1>3, <2>2, <2>4, <2>6
    <2>8. QED
      BY <2>4, <2>7 DEF i, s
  <1>10. new = old \o delta
    <2>1. delta \in Seq(Tokens \cup {Zero}) /\ Len(delta) = n
      BY DEF n
    <2>2. Len(new) = Len(old) + Len(delta)
      BY <1>6, <1>7, <2>1
    <2>3. \A p \in 1..len : p \in 1..len + n
      BY <1>1
    <2>4. \A p \in 1..Len(old) : new[p] = old[p]
      BY <1>6, <1>7, <1>8, <2>3
    <2>5. \A p \in 1..n : len + p \in 1..len + n
      BY <1>1
    <2>6. \A p \in 1..Len(delta) : new[Len(old) + p] = delta[p]
      BY <1>6, <1>7, <1>9, <2>1, <2>5
    <2>7. old \in Seq(Tokens \cup {Zero}) /\ new \in Seq(Tokens \cup {Zero})
      BY <1>6, <1>7
    <2>8. QED
      BY <2>1, <2>2, <2>4, <2>6, <2>7, EndOfView
  <1>11. Caches' = [Caches EXCEPT ![r] = new]
    BY <1>1, <1>4, <1>5, OnlyThatCache
  <1>12. Caches[r] = old /\ old # None
    BY <1>1, <1>a, <1>6, StoreOperations
  <1>13. QED
    BY <1>10, <1>11, <1>12, StoreOperations

LEMMA CallsStore ==
    ASSUME PoolInv, [Next]_vars
    PROVE  CallsDoAsTheySay
  <1>1. TypeOK /\ TablesHold /\ BlocksHold /\ PoolInv' /\ TypeOK'
    BY PoolStep DEF PoolInv
  <1>2. ASSUME NEW r \in Requests
        PROVE  (Create(r) => Store!Create(r)) /\ (Release(r) => Store!Release(r))
    BY <1>2, CreateStores, ReleaseStores
  <1>3. ASSUME NEW r \in Requests, NEW delta \in Deltas, AppendDelta(r, delta)
        PROVE  Store!Extend(r, delta)
    <2>1. r \in Live /\ \E fresh, g, a : Appended(r, delta, fresh, g, a)
      BY <1>3, AppendKeeps
    <2>2. delta \in Seq(Tokens) /\ Len(delta) \in Nat \ {0}
      BY DeltaFacts
    <2>3. QED
      BY <1>1, <2>1, <2>2, AppendStores
  <1>4. ASSUME NEW s \in Requests, NEW t \in Requests, NEW n \in 0..length[s], Fork(s, t, n)
        PROVE  Store!Fork(s, t, n)
    BY <1>4, ForkStores
  <1>5. ASSUME NEW r \in Requests, NEW n \in 0..length[r], Truncate(r, n)
        PROVE  Store!Truncate(r, n)
    BY <1>5, TruncateStores
  <1>6. ASSUME NEW r \in Requests, NEW token \in Tokens, CommitOne(r, token)
        PROVE  Store!Extend(r, <<token>>)
    <2>1. r \in Live /\ \E fresh, g, a : Appended(r, <<token>>, fresh, g, a)
      BY <1>6, CommitOneKeeps
    <2>2. <<token>> \in Seq(Tokens) /\ Len(<<token>>) \in Nat \ {0}
      OBVIOUS
    <2>3. QED
      BY <1>1, <2>1, <2>2, AppendStores
  <1>7. QED
    BY <1>2, <1>3, <1>4, <1>5, <1>6 DEF CallsDoAsTheySay

\* Every call is a step of the store, or none of its business.
LEMMA StepStores ==
    ASSUME PoolInv, [Next]_vars
    PROVE  [Store!Next]_Caches
  <1>1. TypeOK /\ TablesHold /\ CallsDoAsTheySay
    BY CallsStore DEF PoolInv
  <1>2. ASSUME NEW r \in Requests, Create(r) \/ Release(r) PROVE Store!Next
    BY <1>1, <1>2 DEF CallsDoAsTheySay, Store!Next
  <1>3. ASSUME NEW r \in Requests, NEW delta \in Deltas, AppendDelta(r, delta) PROVE Store!Next
    BY <1>1, <1>3 DEF CallsDoAsTheySay, Store!Next
  <1>4. ASSUME NEW r \in Requests, r \in Live
        PROVE  Store!Live(r) /\ Caches[r] = Materialize(r) /\ Len(Caches[r]) = length[r]
    BY <1>1, <1>4, CacheOf, ViewFacts, StoreOperations
  <1>5. ASSUME NEW s \in Requests, NEW t \in Requests, NEW n \in 0..length[s], Fork(s, t, n)
        PROVE  Store!Next
    <2>1. s \in Live /\ Store!Fork(s, t, n)
      BY <1>1, <1>5 DEF CallsDoAsTheySay, Fork
    <2>2. Store!Live(s) /\ n \in 0..Len(Caches[s])
      BY <1>4, <2>1
    <2>3. QED
      BY <2>1, <2>2 DEF Store!Next, Caches
  <1>6. ASSUME NEW r \in Requests, NEW n \in 0..length[r], Truncate(r, n) PROVE Store!Next
    <2>1. r \in Live /\ Store!Truncate(r, n)
      BY <1>1, <1>6 DEF CallsDoAsTheySay, Truncate
    <2>2. Store!Live(r) /\ n \in 0..Len(Caches[r])
      BY <1>4, <2>1
    <2>3. QED
      BY <2>1, <2>2 DEF Store!Next, Caches
  <1>7. ASSUME NEW r \in Requests, NEW token \in Tokens, CommitOne(r, token) PROVE Store!Next
    <2>1. Store!Extend(r, <<token>>)
      BY <1>1, <1>7 DEF CallsDoAsTheySay
    <2>2. <<token>> \in Deltas
      <3>1. 1 \in 1..MaxDelta /\ <<token>> \in [1..1 -> Tokens]
        BY PoolAssumption
      <3>2. QED
        BY <3>1 DEF Deltas
    <2>3. QED
      BY <2>1, <2>2 DEF Store!Next
  <1>8. ASSUME (\E S \in SUBSET Requests : Reserve(S)) \/ Commit \/ EndBatch \/ UNCHANGED vars
        PROVE  UNCHANGED Caches
    <2>1. UNCHANGED <<table, length, slab>>
      BY <1>8 DEF Reserve, Commit, EndBatch, vars
    <2>2. \A r \in Requests : Materialize(r)' = Materialize(r)
      BY <1>1, <2>1, CacheKept
    <2>3. QED
      BY <2>2 DEF Caches
  <1>9. QED
    BY <1>2, <1>3, <1>5, <1>6, <1>7, <1>8 DEF Next

\* The cache a request reads through shared blocks, copies and stale contents is
\* its own: each call does to the cache of its request what its arguments say,
\* and nothing to another one.
THEOREM PoolImplementsStore == Spec => ImplementsStore
  <1>1. Init => Store!Init
    <2> SUFFICES ASSUME Init PROVE Store!Init
      OBVIOUS
    <2>1. \A r \in Requests : r \notin Live
      BY DEF Init, Live
    <2>2. QED
      BY <2>1 DEF Store!Init, Materialize
  <1>2. ASSUME PoolInv, [Next]_vars
        PROVE  [Store!Next]_[r \in Requests |-> Materialize(r)]
    BY <1>2, StepStores DEF Caches
  <1>3. ASSUME PoolInv, [Next]_vars
        PROVE  [CallsDoAsTheySay]_vars
    BY <1>3, CallsStore
  <1>4. QED
    BY <1>1, <1>2, <1>3, PoolInvariant, PTL DEF Spec, ImplementsStore, Store!Spec
=============================================================================
