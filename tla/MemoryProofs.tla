------------------------------ MODULE MemoryProofs ------------------------------
(***************************************************************************)
(* The free memory list never overlaps what is in use, and strays only     *)
(* where sizes are uneven or a process is killed twice, for every set of   *)
(* regions and of sizes.                                                   *)
(***************************************************************************)
EXTENDS Memory, TLAPS

Uses == {"heap", "stack", "leaked", "lost"}
Areas == [at : Nat, len : Nat \ {0}, use : Uses]

TypeOK ==
  /\ memlist \subseteq Blocks
  /\ held \subseteq Areas
  /\ strayed \in BOOLEAN
  /\ uneven \in BOOLEAN
  /\ twice \in BOOLEAN

InRegion(x) == \E r \in Regions : Within(x, r)
Even(x) == x.at % 8 = 0 /\ x.len % 8 = 0 /\ InRegion(x)

Odd == uneven \/ twice

\* As long as all sizes are multiples of 8, and no stack was given back under another
\* owner, everything begins at a multiple of 8.
AllEven ==
  ~Odd => /\ ~strayed
          /\ \A b \in memlist : Even(b)
          /\ \A h \in held : Even(h) /\ h.use # "lost"

\* The inductive invariant: that a stack is lost only after an uneven one is not
\* inductive without knowing where everything begins.
MemoryInv == TypeOK /\ MemoryApart /\ AllEven

-------------------------------------------------------------------------------
(* The rounding macros of mem.h *)

\* roundmb() and roundew() give the next multiple of 8 and of 4 (mem.h).
LEMMA RoundUp ==
  ASSUME NEW n \in Nat \ {0}
  PROVE  /\ roundmb(n) \in Nat \ {0} /\ roundmb(n) >= n /\ roundmb(n) % 8 = 0
         /\ roundew(n) \in Nat \ {0} /\ roundew(n) >= n /\ roundew(n) % 4 = 0
         /\ n % 8 = 0 => roundmb(n) = n /\ roundew(n) = n
  BY DEF roundmb, roundew

\* Addresses and lengths that are multiples of 8 stay so.
LEMMA EvenSums ==
  ASSUME NEW a \in Int, NEW b \in Int, a % 8 = 0, b % 8 = 0
  PROVE  (a + b) % 8 = 0 /\ (a - b) % 8 = 0
  OBVIOUS

-------------------------------------------------------------------------------
(* Cutting a block in two: getmem() and getstk() *)

\* What of a free block is given away and what stays free lies in the block.
LEMMA CutApart ==
  ASSUME MemoryInv, ~strayed,
         NEW b \in memlist, NEW a \in Areas, NEW rest \in SUBSET Blocks,
         a.at >= b.at, End(a) <= End(b),
         \A r \in rest : r.at >= b.at /\ End(r) <= End(b) /\ Apart(r, a),
         \A r, s \in rest : r = s,
         memlist' = (memlist \ {b}) \cup rest,
         held' = held \cup {a},
         strayed' \in BOOLEAN, uneven' \in BOOLEAN, twice' \in BOOLEAN
  PROVE  TypeOK' /\ MemoryApart'
<1>1. TypeOK'
  BY DEF MemoryInv, TypeOK
<1>2. ASSUME NEW c \in memlist', NEW d \in memlist', c # d PROVE Separate(c, d)
  <2>1. CASE c \in rest /\ d \in memlist \ {b}
    <3>1. Separate(b, d)
      BY <2>1 DEF MemoryInv, MemoryApart
    <3>. QED
      BY <2>1, <3>1 DEF Separate, End, MemoryInv, TypeOK, Blocks
  <2>2. CASE d \in rest /\ c \in memlist \ {b}
    <3>1. Separate(b, c)
      BY <2>2 DEF MemoryInv, MemoryApart
    <3>. QED
      BY <2>2, <3>1 DEF Separate, End, MemoryInv, TypeOK, Blocks
  <2>3. CASE c \in memlist \ {b} /\ d \in memlist \ {b}
    BY <1>2, <2>3 DEF MemoryInv, MemoryApart
  <2>. QED
    BY <1>2, <2>1, <2>2, <2>3
<1>3. ASSUME NEW c \in memlist', NEW h \in held' PROVE Apart(c, h)
  <2>1. CASE h \in held
    <3>1. \A d \in memlist : Apart(d, h)
      BY <2>1 DEF MemoryInv, MemoryApart
    <3>2. CASE c \in memlist
      BY <3>1, <3>2
    <3>3. CASE c \in rest
      BY <2>1, <3>1, <3>3 DEF Apart, End, MemoryInv, TypeOK, Blocks, Areas
    <3>. QED
      BY <3>2, <3>3
  <2>2. CASE h = a
    <3>1. CASE c \in rest
      BY <2>2, <3>1
    <3>2. CASE c \in memlist \ {b}
      <4>1. Separate(c, b)
        BY <3>2 DEF MemoryInv, MemoryApart
      <4>. QED
        BY <2>2, <3>2, <4>1 DEF Separate, Apart, End, MemoryInv, TypeOK, Blocks, Areas
    <3>. QED
      BY <3>1, <3>2
  <2>. QED
    BY <2>1, <2>2
<1>4. ASSUME NEW g \in held', NEW h \in held', g # h PROVE Apart(g, h)
  <2>1. CASE g \in held /\ h \in held
    BY <1>4, <2>1 DEF MemoryInv, MemoryApart
  <2>2. CASE g = a /\ h \in held
    <3>1. Apart(b, h)
      BY <2>2 DEF MemoryInv, MemoryApart
    <3>. QED
      BY <2>2, <3>1 DEF Apart, End, MemoryInv, TypeOK, Blocks, Areas
  <2>3. CASE h = a /\ g \in held
    <3>1. Apart(b, g)
      BY <2>3 DEF MemoryInv, MemoryApart
    <3>. QED
      BY <2>3, <3>1 DEF Apart, End, MemoryInv, TypeOK, Blocks, Areas
  <2>. QED
    BY <1>4, <2>1, <2>2, <2>3
<1>. QED
  BY <1>1, <1>2, <1>3, <1>4 DEF MemoryApart

-------------------------------------------------------------------------------
(* Giving a block back: freemem() *)

\* Where a merged block begins and ends.
LEMMA MergedEnds ==
  ASSUME TypeOK, NEW block \in Blocks
  PROVE  /\ Start(block) \in Nat /\ Start(block) <= block.at
         /\ Stop(block) \in Nat /\ Stop(block) >= End(block)
         /\ \/ Start(block) = block.at
            \/ \E x \in memlist : End(x) = block.at /\ Start(block) = x.at
         /\ \/ Stop(block) = End(block)
            \/ \E y \in memlist : y.at = End(block) /\ Stop(block) = End(y)
<1>1. CASE \E b \in memlist : End(b) = block.at
  <2>. DEFINE x == CHOOSE b \in memlist : End(b) = block.at
  <2>1. x \in memlist /\ End(x) = block.at
    BY <1>1
  <2>2. Start(block) = x.at
    BY <1>1 DEF Start
  <2>. HIDE DEF x
  <2>3. x \in Blocks
    BY <2>1 DEF TypeOK
  <2>. QED
    <3>1. Start(block) \in Nat /\ Start(block) <= block.at
      BY <2>1, <2>2, <2>3 DEF End, Blocks
    <3>2. CASE \E b \in memlist : b.at = End(block)
      <4>. DEFINE y == CHOOSE b \in memlist : b.at = End(block)
      <4>1. y \in memlist /\ y.at = End(block)
        BY <3>2
      <4>2. Stop(block) = End(y)
        BY <3>2 DEF Stop
      <4>. HIDE DEF y
      <4>. QED
        BY <2>1, <2>2, <3>1, <4>1, <4>2 DEF End, Blocks, TypeOK
    <3>3. CASE ~ \E b \in memlist : b.at = End(block)
      <4>1. Stop(block) = End(block)
        BY <3>3 DEF Stop
      <4>. QED
        BY <2>1, <2>2, <3>1, <4>1 DEF End, Blocks
    <3>. QED
      BY <3>2, <3>3
<1>2. CASE ~ \E b \in memlist : End(b) = block.at
  <2>1. Start(block) = block.at
    BY <1>2 DEF Start
  <2>2. CASE \E b \in memlist : b.at = End(block)
    <3>. DEFINE y == CHOOSE b \in memlist : b.at = End(block)
    <3>1. y \in memlist /\ y.at = End(block)
      BY <2>2
    <3>2. Stop(block) = End(y)
      BY <2>2 DEF Stop
    <3>. HIDE DEF y
    <3>. QED
      BY <2>1, <3>1, <3>2 DEF End, Blocks, TypeOK
  <2>3. CASE ~ \E b \in memlist : b.at = End(block)
    <3>1. Stop(block) = End(block)
      BY <2>3 DEF Stop
    <3>. QED
      BY <2>1, <3>1 DEF End, Blocks
  <2>. QED
    BY <2>2, <2>3
<1>. QED
  BY <1>1, <1>2

\* The list stays separate and clear of what is in use when a block is merged into it.
LEMMA MergeApart ==
  ASSUME MemoryInv, ~strayed,
         NEW block \in Blocks, PutBack(block), held' \subseteq held, twice' \in BOOLEAN
  PROVE  TypeOK' /\ MemoryApart'
<1>. DEFINE kept == {b \in memlist : End(b) # block.at /\ b.at # End(block)}
            whole == Block(Start(block), Stop(block) - Start(block))
<1>1. memlist' = kept \cup {whole} /\ ~Refused(block)
  BY DEF PutBack, Merged
<1>2. /\ Start(block) \in Nat /\ Start(block) <= block.at
      /\ Stop(block) \in Nat /\ Stop(block) >= End(block)
  BY MergedEnds DEF MemoryInv
<1>3. \/ Start(block) = block.at
      \/ \E x \in memlist : End(x) = block.at /\ Start(block) = x.at
  BY MergedEnds DEF MemoryInv
<1>4. \/ Stop(block) = End(block)
      \/ \E y \in memlist : y.at = End(block) /\ Stop(block) = End(y)
  BY MergedEnds DEF MemoryInv
<1>5. block.at \in Nat /\ block.len \in Nat \ {0} /\ End(block) = block.at + block.len
  BY DEF Blocks, End
<1>6. whole \in Blocks /\ whole.at = Start(block) /\ End(whole) = Stop(block)
  <2>1. ASSUME NEW i \in Nat, NEW j \in Nat, i < j
        PROVE  LET w == Block(i, j - i) IN w \in Blocks /\ w.at = i /\ End(w) = j
    BY <2>1 DEF Block, Blocks, End
  <2>2. Start(block) < Stop(block)
    BY <1>2, <1>5
  <2>. QED
    BY <1>2, <2>1, <2>2
<1>7. \A b \in memlist : b.at \in Nat /\ b.len \in Nat \ {0} /\ End(b) = b.at + b.len
  BY DEF MemoryInv, TypeOK, Blocks, End
<1>8. \A g \in held : g.at \in Nat /\ g.len \in Nat \ {0} /\ End(g) = g.at + g.len
  BY DEF MemoryInv, TypeOK, Areas, End
<1>9. TypeOK'
  <2>1. strayed' \in BOOLEAN /\ uneven' \in BOOLEAN
    BY DEF PutBack, MemoryInv, TypeOK
  <2>. QED
    BY <1>1, <1>6, <2>1 DEF MemoryInv, TypeOK
<1>10. \A c \in memlist : Apart(c, block)
  BY <1>1 DEF Refused
<1>. HIDE DEF whole
<1>11. ASSUME NEW c \in kept PROVE Separate(c, whole)
  <2>1. c \in memlist /\ End(c) # block.at /\ c.at # End(block)
    OBVIOUS
  <2>2. End(c) < block.at \/ End(block) < c.at
    BY <1>5, <1>7, <1>10, <2>1 DEF Apart
  <2>3. End(c) < Start(block) \/ End(block) < c.at
    <3>1. ASSUME NEW x \in memlist, End(x) = block.at, Start(block) = x.at
          PROVE  End(c) < Start(block) \/ End(block) < c.at
      <4>1. Separate(c, x)
        BY <2>1, <3>1 DEF MemoryInv, MemoryApart
      <4>. QED
        BY <1>5, <1>7, <2>1, <2>2, <3>1, <4>1 DEF Separate
    <3>. QED
      BY <1>3, <2>2, <3>1
  <2>4. End(c) < block.at \/ Stop(block) < c.at
    <3>1. ASSUME NEW y \in memlist, y.at = End(block), Stop(block) = End(y)
          PROVE  End(c) < block.at \/ Stop(block) < c.at
      <4>1. Separate(c, y)
        BY <2>1, <3>1 DEF MemoryInv, MemoryApart
      <4>. QED
        BY <1>5, <1>7, <2>1, <2>2, <3>1, <4>1 DEF Separate
    <3>. QED
      BY <1>4, <2>2, <3>1
  <2>. QED
    BY <1>2, <1>5, <1>6, <1>7, <2>1, <2>3, <2>4 DEF Separate
<1>12. ASSUME NEW g \in held', ~strayed' PROVE Apart(whole, g)
  <2>1. g \in held /\ Apart(g, block)
    BY <1>1, <1>12 DEF PutBack
  <2>2. \A b \in memlist : Apart(b, g)
    BY <2>1 DEF MemoryInv, MemoryApart
  <2>3. End(g) <= Start(block) \/ End(block) <= g.at
    BY <1>3, <1>5, <1>7, <1>8, <2>1, <2>2 DEF Apart
  <2>4. End(g) <= block.at \/ Stop(block) <= g.at
    BY <1>4, <1>5, <1>7, <1>8, <2>1, <2>2 DEF Apart
  <2>. QED
    BY <1>2, <1>5, <1>6, <1>8, <2>1, <2>3, <2>4 DEF Apart
<1>13. \A c, d \in memlist' : c # d => Separate(c, d)
  <2>1. \A c, d \in kept : c # d => Separate(c, d)
    BY DEF MemoryInv, MemoryApart
  <2>2. \A c \in kept : Separate(whole, c)
    BY <1>11 DEF Separate
  <2>. QED
    BY <1>1, <1>11, <2>1, <2>2
<1>14. ~strayed' => \A c \in memlist', g \in held' : Apart(c, g)
  BY <1>1, <1>12 DEF MemoryInv, MemoryApart
<1>15. ~strayed' => \A f, g \in held' : f # g => Apart(f, g)
  BY <1>1 DEF MemoryInv, MemoryApart
<1>. QED
  BY <1>9, <1>13, <1>14, <1>15 DEF MemoryApart

-------------------------------------------------------------------------------
(* The steps *)

\* sysinit() leaves the regions free, apart and in whole blocks.
LEMMA MemoryInitially ==
  ASSUME MemoryInit
  PROVE  MemoryInv
<1>1. TypeOK
  BY RegionsAssumption DEF MemoryInit, TypeOK
<1>2. MemoryApart
  BY RegionsAssumption DEF MemoryInit, MemoryApart
<1>3. AllEven
  <2>1. ASSUME NEW r \in Regions, r.len % 8 = 0 PROVE Even(r)
    <3>1. r.at % 8 = 0 /\ r.at \in Nat /\ r.len \in Nat
      BY RegionsAssumption DEF Blocks
    <3>. QED
      BY <2>1, <3>1 DEF Even, InRegion, Within, End
  <2>. QED
    BY <2>1 DEF MemoryInit, AllEven, Odd
<1>. QED
  BY <1>1, <1>2, <1>3 DEF MemoryInv

\* A block that stays free keeps its header to itself when its length is a multiple of 8.
LEMMA EvenRestKeeps ==
  ASSUME NEW rest \in SUBSET Blocks, NEW areas \in SUBSET Areas,
         \A r \in rest : r.len % 8 = 0,
         \A r \in rest, h \in areas : Apart(r, h)
  PROVE  ~Spills(rest, areas)
<1>1. ASSUME NEW r \in rest, NEW h \in areas PROVE Apart(Block(r.at, 8), h)
  <2>1. r.at \in Nat /\ r.len \in Nat /\ r.len >= 8 /\ h.at \in Nat /\ h.len \in Nat
    BY DEF Blocks, Areas
  <2>2. Block(r.at, 8).at = r.at /\ End(Block(r.at, 8)) = r.at + 8
    BY DEF Block, End
  <2>3. End(r) <= h.at \/ End(h) <= r.at
    BY DEF Apart
  <2>. QED
    BY <2>1, <2>2, <2>3 DEF Apart, End
<1>. QED
  BY <1>1 DEF Spills

\* What getmem() and getstk() have in common.
LEMMA CutKeepsInv ==
  ASSUME MemoryInv, ~strayed,
         NEW b \in memlist, NEW a \in Areas, NEW rest \in SUBSET Blocks,
         a.at >= b.at, End(a) <= End(b), a.use # "lost",
         \A r \in rest : r.at >= b.at /\ End(r) <= End(b) /\ Apart(r, a),
         \A r, s \in rest : r = s,
         memlist' = (memlist \ {b}) \cup rest,
         held' = held \cup {a},
         strayed' = Spills(rest, held'),
         uneven' \in BOOLEAN, UNCHANGED twice,
         ~uneven' => /\ ~uneven
                     /\ b.at % 8 = 0 /\ b.len % 8 = 0 =>
                          /\ a.at % 8 = 0 /\ a.len % 8 = 0
                          /\ \A r \in rest : r.at % 8 = 0 /\ r.len % 8 = 0
  PROVE  MemoryInv'
<1>1. strayed' \in BOOLEAN /\ twice' \in BOOLEAN
  BY DEF Spills, MemoryInv, TypeOK
<1>2. TypeOK' /\ MemoryApart'
  BY <1>1, CutApart
<1>3. ASSUME ~Odd' PROVE ~strayed' /\ (\A c \in memlist' : Even(c))
                         /\ \A h \in held' : Even(h) /\ h.use # "lost"
  <2>1. ~uneven' /\ ~Odd /\ Even(b)
    BY <1>3 DEF Odd, MemoryInv, AllEven
  <2>2. a.at % 8 = 0 /\ a.len % 8 = 0 /\ \A r \in rest : r.at % 8 = 0 /\ r.len % 8 = 0
    BY <2>1 DEF Even
  <2>3. PICK region \in Regions : Within(b, region)
    BY <2>1 DEF Even, InRegion
  <2>4. region.at \in Nat /\ region.len \in Nat /\ b.at \in Nat /\ b.len \in Nat
    BY RegionsAssumption DEF Blocks, MemoryInv, TypeOK
  <2>5. Even(a)
    <3>1. Within(a, region)
      BY <2>3, <2>4 DEF Within, End, Areas
    <3>. QED
      BY <2>2, <3>1 DEF Even, InRegion
  <2>6. ASSUME NEW r \in rest PROVE Even(r)
    <3>1. Within(r, region)
      BY <2>3, <2>4 DEF Within, End, Blocks
    <3>. QED
      BY <2>2, <3>1 DEF Even, InRegion
  <2>7. ~strayed'
    <3>1. held' \in SUBSET Areas
      BY DEF MemoryInv, TypeOK
    <3>2. \A r \in rest, h \in held' : Apart(r, h)
      <4>1. ASSUME NEW r \in rest, NEW h \in held PROVE Apart(r, h)
        <5>1. Apart(b, h)
          BY DEF MemoryInv, MemoryApart
        <5>. QED
          BY <2>4, <5>1 DEF Apart, End, Blocks, Areas, MemoryInv, TypeOK
      <4>. QED
        BY <4>1
    <3>. QED
      BY <2>2, <3>1, <3>2, EvenRestKeeps
  <2>8. \A c \in memlist : Even(c)
    BY <2>1 DEF MemoryInv, AllEven
  <2>9. \A h \in held : Even(h) /\ h.use # "lost"
    BY <2>1 DEF MemoryInv, AllEven
  <2>. QED
    BY <2>5, <2>6, <2>7, <2>8, <2>9
<1>. QED
  BY <1>2, <1>3 DEF MemoryInv, AllEven, Even, InRegion, Within

\* What getmem() and getstk() note of an area they give away.
LEMMA AreaFields ==
  ASSUME NEW at \in Nat, NEW len \in Nat \ {0}, NEW use \in Uses
  PROVE  /\ Area(at, len, use) \in Areas
         /\ Area(at, len, use).at = at /\ Area(at, len, use).len = len
         /\ Area(at, len, use).use = use /\ End(Area(at, len, use)) = at + len
  BY DEF Area, Areas, End

\* getmem() takes the first block that is long enough, or the front of it.
LEMMA GetmemKeepsInv ==
  ASSUME MemoryInv, ~strayed, NEW n \in Nat \ {0}, NEW use \in {"heap"}, Getmem(n, use)
  PROVE  MemoryInv'
<1>. DEFINE size == roundmb(n)
<1>1. size \in Nat \ {0} /\ size % 8 = 0
  BY RoundUp
<1>. HIDE DEF size
<1>2. PICK b \in memlist :
        /\ b.len >= size
        /\ held' = held \cup {Area(b.at, size, use)}
        /\ memlist' = (memlist \ {b}) \cup Rest(b.at + size, b.len - size)
        /\ strayed' = Spills(Rest(b.at + size, b.len - size), held')
        /\ uneven' = uneven /\ UNCHANGED twice
  BY DEF Getmem, FirstFit, size
<1>. DEFINE a == Area(b.at, size, use)
            rest == Rest(b.at + size, b.len - size)
<1>3. b.at \in Nat /\ b.len \in Nat
  BY DEF MemoryInv, TypeOK, Blocks
<1>4. a \in Areas /\ a.at = b.at /\ a.len = size /\ a.use # "lost" /\ End(a) = b.at + size
  <2>1. use \in Uses /\ use # "lost"
    BY DEF Uses
  <2>2. a \in Areas /\ a.at = b.at /\ a.len = size /\ a.use = use /\ End(a) = b.at + size
    <3>1. ASSUME NEW i \in Nat, NEW j \in Nat \ {0}
          PROVE  /\ Area(i, j, use) \in Areas /\ Area(i, j, use).at = i
                 /\ Area(i, j, use).len = j /\ Area(i, j, use).use = use
                 /\ End(Area(i, j, use)) = i + j
      BY <2>1, AreaFields
    <3>. QED
      BY <1>1, <1>3, <3>1
  <2>. QED
    BY <2>1, <2>2
<1>5. \A r \in rest : /\ r \in Blocks /\ r.at = b.at + size /\ r.len = b.len - size
                      /\ End(r) = End(b)
  BY <1>1, <1>2, <1>3 DEF Rest, Block, Blocks, End
<1>6. \A r, s \in rest : r = s
  BY DEF Rest
<1>7. uneven' \in BOOLEAN
  BY <1>2 DEF MemoryInv, TypeOK
<1>8. End(a) <= End(b)
  BY <1>1, <1>2, <1>3, <1>4 DEF End
<1>9. \A r \in rest : r.at >= b.at /\ End(r) <= End(b) /\ Apart(r, a)
  <2>1. End(b) \in Nat
    BY <1>3 DEF End
  <2>. QED
    BY <1>1, <1>3, <1>4, <1>5, <2>1 DEF Apart
<1>10. b.at % 8 = 0 /\ b.len % 8 = 0 =>
         /\ a.at % 8 = 0 /\ a.len % 8 = 0
         /\ \A r \in rest : r.at % 8 = 0 /\ r.len % 8 = 0
  <2>1. ASSUME b.at % 8 = 0, b.len % 8 = 0
        PROVE  (b.at + size) % 8 = 0 /\ (b.len - size) % 8 = 0
    <3>1. size \in Int /\ size % 8 = 0 /\ b.at \in Int /\ b.len \in Int
      BY <1>1, <1>3
    <3>. QED
      BY <2>1, <3>1, EvenSums, Zenon
  <2>. QED
    BY <1>1, <1>4, <1>5, <2>1
<1>. HIDE DEF a, rest
<1>11. rest \in SUBSET Blocks /\ a.at >= b.at
  BY <1>3, <1>4, <1>5
<1>12. /\ memlist' = (memlist \ {b}) \cup rest /\ held' = held \cup {a}
       /\ strayed' = Spills(rest, held') /\ (~uneven' => ~uneven) /\ UNCHANGED twice
  BY <1>2 DEF a, rest
<1>. QED
  BY <1>3, <1>4, <1>6, <1>7, <1>8, <1>9, <1>10, <1>11, <1>12, CutKeepsInv

\* getstk() takes the end of the last block that is long enough.
LEMMA GetstkKeepsInv ==
  ASSUME MemoryInv, ~strayed, NEW n \in Nat \ {0},
         NEW use \in {"stack", "leaked"}, Getstk(n, use)
  PROVE  MemoryInv'
<1>. DEFINE size == roundew(n)
<1>1. size \in Nat \ {0}
  BY RoundUp
<1>. HIDE DEF size
<1>2. PICK b \in memlist :
        /\ b.len >= size
        /\ held' = held \cup {Area(End(b) - size, size, use)}
        /\ memlist' = (memlist \ {b}) \cup Rest(b.at, b.len - size)
        /\ strayed' = Spills(Rest(b.at, b.len - size), held')
        /\ uneven' = (uneven \/ size % 8 # 0) /\ UNCHANGED twice
  BY DEF Getstk, LastFit, size
<1>. DEFINE a == Area(End(b) - size, size, use)
            rest == Rest(b.at, b.len - size)
<1>3. b.at \in Nat /\ b.len \in Nat
  BY DEF MemoryInv, TypeOK, Blocks
<1>4. /\ a \in Areas /\ a.at = b.at + b.len - size /\ a.len = size
      /\ a.use # "lost" /\ End(a) = End(b)
  <2>1. End(b) = b.at + b.len /\ End(b) - size \in Nat
    BY <1>1, <1>2, <1>3 DEF End
  <2>2. use \in Uses /\ use # "lost"
    <3>1. CASE use = "stack"
      BY <3>1 DEF Uses
    <3>2. CASE use = "leaked"
      BY <3>2 DEF Uses
    <3>. QED
      BY <3>1, <3>2
  <2>3. a \in Areas /\ a.at = End(b) - size /\ a.len = size /\ a.use = use
        /\ End(a) = (End(b) - size) + size
    BY <1>1, <2>1, <2>2, AreaFields
  <2>. QED
    BY <1>1, <1>3, <2>1, <2>2, <2>3
<1>5. \A r \in rest : /\ r \in Blocks /\ r.at = b.at /\ r.len = b.len - size
                      /\ End(r) = a.at
  BY <1>1, <1>2, <1>3, <1>4 DEF Rest, Block, Blocks, End
<1>6. \A r, s \in rest : r = s
  BY DEF Rest
<1>7. uneven' \in BOOLEAN /\ (~uneven' => ~uneven /\ size % 8 = 0)
  BY <1>2 DEF MemoryInv, TypeOK
<1>8. a.at >= b.at /\ a.at <= End(b) /\ End(b) \in Nat /\ a.at \in Nat
  BY <1>1, <1>2, <1>3, <1>4 DEF End
<1>9. \A r \in rest : r.at >= b.at /\ End(r) <= End(b) /\ Apart(r, a)
  BY <1>3, <1>5, <1>8 DEF Apart
<1>10. size % 8 = 0 /\ b.at % 8 = 0 /\ b.len % 8 = 0 =>
         /\ a.at % 8 = 0 /\ a.len % 8 = 0
         /\ \A r \in rest : r.at % 8 = 0 /\ r.len % 8 = 0
  <2>1. ASSUME size % 8 = 0, b.at % 8 = 0, b.len % 8 = 0
        PROVE  (b.len - size) % 8 = 0 /\ (b.at + (b.len - size)) % 8 = 0
    <3>1. size \in Int /\ b.at \in Int /\ b.len \in Int /\ b.len - size \in Int
      BY <1>1, <1>3
    <3>2. (b.len - size) % 8 = 0
      BY <2>1, <3>1, EvenSums, Zenon
    <3>. QED
      BY <2>1, <3>1, <3>2, EvenSums, Zenon
  <2>2. a.at = b.at + (b.len - size)
    BY <1>1, <1>3, <1>4
  <2>. QED
    BY <1>4, <1>5, <2>1, <2>2
<1>. HIDE DEF a, rest
<1>11. rest \in SUBSET Blocks /\ End(a) <= End(b)
  BY <1>4, <1>5, <1>8
<1>12. /\ memlist' = (memlist \ {b}) \cup rest /\ held' = held \cup {a}
       /\ strayed' = Spills(rest, held') /\ UNCHANGED twice
  BY <1>2 DEF a, rest
<1>. QED
  BY <1>3, <1>4, <1>6, <1>7, <1>8, <1>9, <1>10, <1>11, <1>12, CutKeepsInv

\* While all is even, freemem() takes back whatever is in use.
LEMMA NeverRefused ==
  ASSUME MemoryInv, ~Odd, NEW h \in held
  PROVE  ~Refused(Block(h.at, h.len))
<1>1. h.at \in Nat /\ h.len \in Nat
  BY DEF MemoryInv, TypeOK, Areas
<1>2. PICK r \in Regions : Within(h, r)
  BY DEF MemoryInv, AllEven, Even, InRegion
<1>3. r.at \in Nat /\ r.at <= h.at
  BY <1>1, <1>2, RegionsAssumption DEF Within, Blocks
<1>4. \A b \in memlist : Apart(b, h)
  BY DEF MemoryInv, MemoryApart, AllEven
<1>5. \A b \in memlist : Apart(b, Block(h.at, h.len))
  BY <1>4 DEF Apart, End, Block
<1>6. ~ (Block(h.at, h.len).at < r.at)
  BY <1>1, <1>3 DEF Block
<1>. QED
  BY <1>5, <1>6 DEF Refused

\* freemem() accepts a block: the list takes it back.
LEMMA GiveBackKeepsInv ==
  ASSUME MemoryInv, ~strayed, NEW h \in held, NEW block \in Blocks,
         GiveBack(h, block), ~Odd => block = Block(h.at, h.len)
  PROVE  MemoryInv'
<1>1. TypeOK' /\ MemoryApart'
  <2>1. PutBack(block) /\ held' \subseteq held /\ twice' \in BOOLEAN
    BY DEF GiveBack, MemoryInv, TypeOK
  <2>. QED
    BY <2>1, MergeApart
<1>2. ASSUME ~Odd' PROVE ~strayed' /\ (\A c \in memlist' : Even(c))
                         /\ \A g \in held' : Even(g) /\ g.use # "lost"
  <2>1. ~Odd /\ block = Block(h.at, h.len)
    BY <1>2 DEF GiveBack, PutBack, Odd
  <2>2. (\A c \in memlist : Even(c)) /\ \A g \in held : Even(g) /\ g.use # "lost"
    BY <2>1 DEF MemoryInv, AllEven
  <2>3. /\ block.at \in Nat /\ block.len \in Nat \ {0} /\ End(block) = block.at + block.len
        /\ block.at = h.at /\ block.len = h.len /\ End(block) = End(h)
    BY <2>1 DEF Blocks, Block, End
  <2>4. PICK region \in Regions : Within(block, region)
    BY <2>2, <2>3 DEF Even, InRegion, Within
  <2>5. block.at % 8 = 0 /\ End(block) % 8 = 0
    <3>1. block.at % 8 = 0 /\ block.len % 8 = 0
      BY <2>2, <2>3 DEF Even
    <3>2. block.at \in Int /\ block.len \in Int
      BY <2>3
    <3>3. (block.at + block.len) % 8 = 0
      BY <3>1, <3>2, EvenSums, Zenon
    <3>. QED
      BY <2>3, <3>1, <3>3
  <2>6. ~strayed'
    <3>1. \A g \in held \ {h} : Apart(g, block)
      BY <2>3 DEF MemoryInv, MemoryApart, Apart
    <3>. QED
      BY <2>4, <3>1 DEF GiveBack, PutBack
  <2>7. \A r \in Regions : r.at \in Nat /\ r.len \in Nat \ {0} /\ End(r) = r.at + r.len
    BY RegionsAssumption DEF Blocks, End
  <2>8. \A x \in memlist : /\ x.at \in Nat /\ x.len \in Nat \ {0} /\ End(x) = x.at + x.len
                           /\ x.at % 8 = 0 /\ End(x) % 8 = 0
    <3>1. ASSUME NEW x \in memlist
          PROVE  x.at \in Nat /\ x.len \in Nat \ {0} /\ End(x) = x.at + x.len
      BY DEF MemoryInv, TypeOK, Blocks, End
    <3>2. ASSUME NEW x \in memlist PROVE x.at % 8 = 0 /\ End(x) % 8 = 0
      <4>1. x.at % 8 = 0 /\ x.len % 8 = 0
        BY <2>2 DEF Even
      <4>2. x.at \in Int /\ x.len \in Int
        BY <3>1
      <4>3. (x.at + x.len) % 8 = 0
        BY <4>1, <4>2, EvenSums, Zenon
      <4>. QED
        BY <3>1, <4>1, <4>3
    <3>. QED
      BY <3>1, <3>2
  <2>9. ASSUME NEW x \in memlist, End(x) = block.at \/ x.at = End(block)
        PROVE  Within(x, region)
    <3>1. PICK r \in Regions : Within(x, r)
      BY <2>2 DEF Even, InRegion
    <3>2. r # region => Separate(r, region)
      BY RegionsAssumption
    <3>3. r = region
      BY <2>3, <2>4, <2>7, <2>8, <2>9, <3>1, <3>2 DEF Separate, Within
    <3>. QED
      BY <3>1, <3>3
  <2>10. Start(block) \in Nat /\ Start(block) % 8 = 0 /\ region.at <= Start(block)
    <3>1. CASE Start(block) = block.at
      BY <2>3, <2>4, <2>5, <3>1 DEF Within
    <3>2. ASSUME NEW x \in memlist, End(x) = block.at, Start(block) = x.at
          PROVE  Start(block) \in Nat /\ Start(block) % 8 = 0 /\ region.at <= Start(block)
      BY <2>8, <2>9, <3>2 DEF Within
    <3>. QED
      BY <3>1, <3>2, MergedEnds DEF MemoryInv
  <2>11. Stop(block) \in Nat /\ Stop(block) % 8 = 0 /\ Stop(block) <= End(region)
    <3>1. CASE Stop(block) = End(block)
      BY <2>3, <2>4, <2>5, <3>1 DEF Within
    <3>2. ASSUME NEW y \in memlist, y.at = End(block), Stop(block) = End(y)
          PROVE  Stop(block) \in Nat /\ Stop(block) % 8 = 0 /\ Stop(block) <= End(region)
      BY <2>8, <2>9, <3>2 DEF Within
    <3>. QED
      BY <3>1, <3>2, MergedEnds DEF MemoryInv
  <2>12. Even(Block(Start(block), Stop(block) - Start(block)))
    <3>1. ASSUME NEW i \in Nat, NEW j \in Nat, i % 8 = 0, j % 8 = 0,
                 region.at <= i, j <= End(region)
          PROVE  Even(Block(i, j - i))
      <4>1. (j - i) % 8 = 0
        BY <3>1, EvenSums
      <4>2. Block(i, j - i).at = i /\ Block(i, j - i).len = j - i
            /\ End(Block(i, j - i)) = j
        BY DEF Block, End
      <4>. QED
        BY <3>1, <4>1, <4>2 DEF Even, InRegion, Within
    <3>. QED
      BY <2>10, <2>11, <3>1
  <2>. QED
    BY <2>2, <2>6, <2>12 DEF GiveBack, PutBack, Merged
<1>. QED
  BY <1>1, <1>2 DEF MemoryInv, AllEven, Even, InRegion, Within

\* freemem() refuses a block: its memory is lost, and something was uneven.
LEMMA LoseKeepsInv ==
  ASSUME MemoryInv, ~strayed, Odd, NEW h \in held, Lose(h)
  PROVE  MemoryInv'
<1>. DEFINE lost == [h EXCEPT !.use = "lost"]
<1>1. held' = (held \ {h}) \cup {lost} /\ memlist' = memlist /\ ~strayed' /\ Odd'
  BY DEF Lose, Odd
<1>2. lost \in Areas /\ lost.at = h.at /\ lost.len = h.len /\ End(lost) = End(h)
  <2>1. h \in [at : Nat, len : Nat \ {0}, use : Uses]
    BY DEF MemoryInv, TypeOK, Areas
  <2>2. lost \in Areas
    <3>1. lost = [at |-> h.at, len |-> h.len, use |-> "lost"]
      BY <2>1
    <3>. QED
      BY <2>1, <3>1 DEF Areas, Uses
  <2>3. lost.at = h.at /\ lost.len = h.len
    BY <2>1
  <2>. QED
    BY <2>2, <2>3 DEF End
<1>. HIDE DEF lost
<1>3. TypeOK'
  BY <1>1, <1>2 DEF Lose, MemoryInv, TypeOK
<1>4. \A x : Apart(x, h) => Apart(x, lost) /\ Apart(lost, x)
  BY <1>2 DEF Apart
<1>5. MemoryApart'
  BY <1>1, <1>4 DEF MemoryInv, MemoryApart
<1>. QED
  BY <1>1, <1>3, <1>5 DEF MemoryInv, AllEven

\* freemem(), accepting or refusing.
LEMMA FreememKeepsInv ==
  ASSUME MemoryInv, ~strayed, NEW h \in held, Freemem(h)
  PROVE  MemoryInv'
<1>. DEFINE block == Block(h.at, roundmb(h.len))
<1>1. h.at \in Nat /\ h.len \in Nat \ {0}
  BY DEF MemoryInv, TypeOK, Areas
<1>2. block \in Blocks
  BY <1>1, RoundUp DEF Block, Blocks
<1>3. ~Odd => block = Block(h.at, h.len)
  BY <1>1, RoundUp DEF MemoryInv, AllEven, Even
<1>4. CASE GiveBack(h, block)
  BY <1>2, <1>3, <1>4, GiveBackKeepsInv
<1>5. CASE Refused(block) /\ Lose(h)
  <2>1. Odd
    BY <1>3, <1>5, NeverRefused
  <2>. QED
    BY <1>5, <2>1, LoseKeepsInv
<1>. QED
  BY <1>4, <1>5 DEF Freemem

\* freestk() gives back from the rounded length below the top of the stack.
LEMMA FreestkKeepsInv ==
  ASSUME MemoryInv, ~strayed, NEW h \in held, Freestk(h)
  PROVE  MemoryInv'
<1>. DEFINE block == StackBlock(h)
<1>1. h.at \in Nat /\ h.len \in Nat \ {0} /\ End(h) = h.at + h.len
  BY DEF MemoryInv, TypeOK, Areas, End
<1>2. roundmb(h.len) \in Nat \ {0} /\ (h.len % 8 = 0 => roundmb(h.len) = h.len)
  BY <1>1, RoundUp
<1>3. ~Odd => block = Block(h.at, h.len)
  <2>1. ~Odd => roundmb(h.len) = h.len
    BY <1>2 DEF MemoryInv, AllEven, Even
  <2>2. ~Odd => End(h) - roundmb(h.len) = h.at
    BY <1>1, <1>2, <2>1
  <2>. QED
    BY <2>1, <2>2 DEF StackBlock
<1>4. CASE GiveBack(h, block)
  <2>1. PICK r \in Regions : ~ (block.at < r.at)
    BY <1>4 DEF GiveBack, PutBack, Refused
  <2>2. block.at = End(h) - roundmb(h.len) /\ block.len = roundmb(h.len)
    BY DEF StackBlock, Block
  <2>3. End(h) - roundmb(h.len) \in Nat
    BY <1>1, <1>2, <2>1, <2>2, RegionsAssumption DEF Blocks
  <2>4. block \in Blocks
    BY <1>2, <2>3 DEF StackBlock, Block, Blocks
  <2>. QED
    BY <1>3, <1>4, <2>4, GiveBackKeepsInv
<1>5. CASE Refused(block) /\ Lose(h)
  <2>1. Odd
    BY <1>3, <1>5, NeverRefused
  <2>. QED
    BY <1>5, <2>1, LoseKeepsInv
<1>. QED
  BY <1>4, <1>5 DEF Freestk

\* A stack is put on the list again: from now on everything is excused, but the list
\* itself stays in order.
LEMMA FreestkAgainKeepsInv ==
  ASSUME MemoryInv, ~strayed, NEW h \in Areas, FreestkAgain(h)
  PROVE  MemoryInv'
<1>. DEFINE block == StackBlock(h)
<1>1. twice' = TRUE /\ held' = held /\ PutBack(block)
  BY DEF FreestkAgain
<1>2. h.at \in Nat /\ h.len \in Nat \ {0} /\ End(h) = h.at + h.len
  BY DEF Areas, End
<1>3. roundmb(h.len) \in Nat \ {0}
  BY <1>2, RoundUp
<1>4. block.at = End(h) - roundmb(h.len) /\ block.len = roundmb(h.len)
  BY DEF StackBlock, Block
<1>5. PICK r \in Regions : ~ (block.at < r.at)
  BY <1>1 DEF PutBack, Refused
<1>6. End(h) - roundmb(h.len) \in Nat
  BY <1>2, <1>3, <1>4, <1>5, RegionsAssumption DEF Blocks
<1>7. block \in Blocks
  BY <1>3, <1>6 DEF StackBlock, Block, Blocks
<1>. HIDE DEF block
<1>8. TypeOK' /\ MemoryApart'
  BY <1>1, <1>7, MergeApart
<1>. QED
  BY <1>1, <1>8 DEF MemoryInv, AllEven, Odd

\* Every operation of the free memory list keeps the inductive invariant.
LEMMA MemoryKeeps ==
  ASSUME MemoryInv, [MemoryNext]_memory
  PROVE  MemoryInv'
<1>1. CASE UNCHANGED memory
  BY <1>1 DEF memory, MemoryInv, TypeOK, MemoryApart, AllEven, Odd, Even, InRegion, Within
<1>2. ASSUME ~strayed, NEW n \in Sizes, Getmem(n, "heap") PROVE MemoryInv'
  <2>1. n \in Nat \ {0}
    BY SizesAssumption
  <2>2. "heap" \in {"heap"}
    OBVIOUS
  <2>. QED
    BY <1>2, <2>1, <2>2, GetmemKeepsInv
<1>3. ASSUME ~strayed, NEW n \in StackSizes, NEW use \in {"stack", "leaked"},
             Getstk(n, use)
      PROVE  MemoryInv'
  <2>1. n \in Nat \ {0}
    BY SizesAssumption
  <2>. QED
    BY <1>3, <2>1, GetstkKeepsInv
<1>4. ASSUME ~strayed, NEW h \in held, Freemem(h) PROVE MemoryInv'
  BY <1>4, FreememKeepsInv
<1>5. ASSUME ~strayed, NEW h \in held, Freestk(h) PROVE MemoryInv'
  BY <1>5, FreestkKeepsInv
<1>6. ASSUME ~strayed, NEW r \in Regions, NEW n \in StackSizes, NEW at \in r.at..End(r),
             FreestkAgain(Area(at, roundew(n), "stack"))
      PROVE  MemoryInv'
  <2>1. at \in Nat /\ roundew(n) \in Nat \ {0} /\ "stack" \in Uses
    BY RegionsAssumption, SizesAssumption, RoundUp DEF Blocks, End, Uses
  <2>2. Area(at, roundew(n), "stack") \in Areas
    BY <2>1, AreaFields
  <2>. QED
    BY <1>6, <2>2, FreestkAgainKeepsInv
<1>. QED
  BY <1>1, <1>2, <1>3, <1>4, <1>5, <1>6 DEF MemoryNext

-------------------------------------------------------------------------------
(* Where free memory lies *)

\* Free blocks are of the memory that was found, until memory strays.
FreeInRegion == ~strayed => \A b \in memlist : InRegion(b)

\* The rest of a block is where the block was.
LEMMA RestInRegion ==
  ASSUME TypeOK, NEW b \in memlist, InRegion(b), NEW at \in Nat, NEW len \in Nat,
         at >= b.at, at + len <= End(b), NEW x \in Rest(at, len)
  PROVE  InRegion(x)
<1>1. PICK r \in Regions : Within(b, r)
  BY DEF InRegion
<1>2. x.at = at /\ End(x) = at + len
  BY DEF Rest, Block, End
<1>3. r.at \in Nat /\ r.len \in Nat /\ b.at \in Nat /\ b.len \in Nat
  BY RegionsAssumption DEF Blocks, TypeOK
<1>4. Within(x, r)
  BY <1>1, <1>2, <1>3 DEF Within, End
<1>. QED
  BY <1>4 DEF InRegion

\* Blocks that touch are of one region.
LEMMA TouchInRegion ==
  ASSUME NEW a \in Blocks, NEW b \in Blocks, End(a) = b.at,
         NEW r \in Regions, NEW s \in Regions, Within(a, r), Within(b, s)
  PROVE  r = s
<1>1. /\ a.at \in Nat /\ a.len \in Nat /\ a.len # 0 /\ b.at \in Nat /\ b.len \in Nat /\ b.len # 0
      /\ r.at \in Nat /\ r.len \in Nat /\ s.at \in Nat /\ s.len \in Nat
  BY RegionsAssumption DEF Blocks
<1>2. r # s => Separate(r, s)
  BY RegionsAssumption
<1>. QED
  BY <1>1, <1>2 DEF Separate, Within, End

\* A block put on the list merges with blocks of its region only.
LEMMA MergedInRegion ==
  ASSUME TypeOK, FreeInRegion, ~strayed, NEW block \in Blocks, PutBack(block), ~strayed'
  PROVE  \A b \in memlist' : InRegion(b)
<1>1. PICK r \in Regions : Within(block, r)
  <2>. DEFINE outside == \A r \in Regions : ~Within(block, r)
              inUse == \E g \in held' : ~Apart(g, block)
  <2>1. strayed' = (inUse \/ outside)
    BY DEF PutBack
  <2>. HIDE DEF inUse, outside
  <2>2. ~outside
    BY <2>1
  <2>. QED
    BY <2>2 DEF outside
<1>2. \A x \in memlist : x \in Blocks /\ InRegion(x)
  BY DEF TypeOK, FreeInRegion
<1>3. \A x \in memlist : End(x) = block.at \/ x.at = End(block) => Within(x, r)
  <2>1. ASSUME NEW x \in memlist, End(x) = block.at PROVE Within(x, r)
    BY <1>1, <1>2, <2>1, TouchInRegion DEF InRegion
  <2>2. ASSUME NEW x \in memlist, End(block) = x.at PROVE Within(x, r)
    BY <1>1, <1>2, <2>2, TouchInRegion DEF InRegion
  <2>. QED
    BY <2>1, <2>2
<1>4. block.at \in Nat /\ block.len \in Nat /\ End(block) = block.at + block.len
  BY DEF Blocks, End
<1>5. r.at <= Start(block)
  BY <1>1, <1>3, MergedEnds DEF Within
<1>6. Stop(block) <= End(r)
  BY <1>1, <1>3, MergedEnds DEF Within
<1>. DEFINE merged == Block(Start(block), Stop(block) - Start(block))
<1>7. merged.at = Start(block) /\ End(merged) = Stop(block)
  BY MergedEnds DEF Block, End
<1>8. InRegion(merged)
  BY <1>5, <1>6, <1>7 DEF InRegion, Within
<1>. QED
  BY <1>2, <1>8 DEF PutBack, Merged

\* No operation changes that.
LEMMA FreeInRegionKeeps ==
  ASSUME MemoryInv, FreeInRegion, [MemoryNext]_memory
  PROVE  FreeInRegion'
<1>. SUFFICES ASSUME ~strayed' PROVE \A b \in memlist' : InRegion(b)
  BY DEF FreeInRegion, InRegion, Within
<1>0. TypeOK
  BY DEF MemoryInv
<1>1. CASE UNCHANGED memory
  BY <1>1 DEF memory, FreeInRegion
<1>. SUFFICES ASSUME MemoryNext PROVE \A b \in memlist' : InRegion(b)
  BY <1>1
<1>2. ~strayed /\ \A b \in memlist : InRegion(b) /\ b.at \in Nat /\ b.len \in Nat
  BY <1>0 DEF MemoryNext, FreeInRegion, TypeOK, Blocks
<1>3. ASSUME NEW n \in Sizes, Getmem(n, "heap") PROVE \A b \in memlist' : InRegion(b)
  <2>1. roundmb(n) \in Nat
    BY SizesAssumption, RoundUp
  <2>. DEFINE size == roundmb(n)
  <2>2. PICK b \in memlist : /\ b.len >= size
                             /\ memlist' = (memlist \ {b}) \cup Rest(b.at + size, b.len - size)
    BY <1>3 DEF Getmem, FirstFit
  <2>. HIDE DEF size
  <2>3. \A x \in Rest(b.at + size, b.len - size) : InRegion(x)
    <3>. DEFINE at == b.at + size  len == b.len - size
    <3>1. size \in Nat
      BY <2>1 DEF size
    <3>2. at \in Nat /\ len \in Nat /\ at >= b.at /\ at + len <= End(b) /\ InRegion(b)
      BY <1>2, <2>2, <3>1 DEF End
    <3>. HIDE DEF at, len
    <3>. QED
      BY <1>0, <3>2, RestInRegion DEF at, len
  <2>. QED
    BY <1>2, <2>2, <2>3
<1>4. ASSUME NEW n \in StackSizes, NEW use, Getstk(n, use) PROVE \A b \in memlist' : InRegion(b)
  <2>1. roundew(n) \in Nat
    BY SizesAssumption, RoundUp
  <2>. DEFINE size == roundew(n)
  <2>2. PICK b \in memlist : /\ b.len >= size
                             /\ memlist' = (memlist \ {b}) \cup Rest(b.at, b.len - size)
    BY <1>4 DEF Getstk, LastFit
  <2>. HIDE DEF size
  <2>3. \A x \in Rest(b.at, b.len - size) : InRegion(x)
    <3>. DEFINE at == b.at  len == b.len - size
    <3>1. size \in Nat
      BY <2>1 DEF size
    <3>2. at \in Nat /\ len \in Nat /\ at >= b.at /\ at + len <= End(b) /\ InRegion(b)
      BY <1>2, <2>2, <3>1 DEF End
    <3>. HIDE DEF at, len
    <3>. QED
      BY <1>0, <3>2, RestInRegion DEF at, len
  <2>. QED
    BY <1>2, <2>2, <2>3
<1>5. ASSUME NEW at \in Int, NEW len \in Nat \ {0}, PutBack(Block(at, len))
      PROVE  \A b \in memlist' : InRegion(b)
  <2>. DEFINE block == Block(at, len)
  <2>1. block.at = at /\ block.len = len
    BY DEF Block
  <2>2. PICK r \in Regions : ~ (block.at < r.at)
    BY <1>5 DEF PutBack, Refused
  <2>3. block \in Blocks
    BY <2>1, <2>2, RegionsAssumption DEF Block, Blocks
  <2>. HIDE DEF block
  <2>. QED
    BY <1>0, <1>2, <1>5, <2>3, MergedInRegion DEF block
<1>6. ASSUME NEW h \in Areas, NEW freed \in {"whole", "top"},
             PutBack(IF freed = "whole" THEN Block(h.at, roundmb(h.len)) ELSE StackBlock(h))
      PROVE  \A b \in memlist' : InRegion(b)
  <2>1. h.at \in Nat /\ h.len \in Nat \ {0} /\ End(h) \in Nat /\ roundmb(h.len) \in Nat \ {0}
    BY RoundUp DEF Areas, End
  <2>2. CASE freed = "whole"
    BY <1>5, <1>6, <2>1, <2>2
  <2>3. CASE freed # "whole"
    <3>1. End(h) - roundmb(h.len) \in Int
      BY <2>1
    <3>. QED
      BY <1>5, <1>6, <2>1, <2>3, <3>1 DEF StackBlock
  <2>. QED
    BY <2>2, <2>3
<1>7. ASSUME NEW h \in held, Freemem(h) \/ Freestk(h) PROVE \A b \in memlist' : InRegion(b)
  <2>1. h \in Areas
    BY <1>0 DEF TypeOK
  <2>2. CASE Lose(h)
    BY <1>2, <2>2 DEF Lose
  <2>3. CASE PutBack(Block(h.at, roundmb(h.len)))
    BY <1>6, <2>1, <2>3
  <2>4. CASE PutBack(StackBlock(h))
    <3>1. "top" \in {"whole", "top"} /\ "top" # "whole"
      OBVIOUS
    <3>. QED
      BY <1>6, <2>1, <2>4, <3>1
  <2>. QED
    BY <1>7, <2>2, <2>3, <2>4 DEF Freemem, Freestk, GiveBack
<1>8. ASSUME NEW r \in Regions, NEW n \in StackSizes, NEW at \in r.at..End(r),
             FreestkAgain(Area(at, roundew(n), "stack"))
      PROVE  \A b \in memlist' : InRegion(b)
  <2>1. at \in Nat /\ roundew(n) \in Nat \ {0} /\ "stack" \in Uses
    BY RegionsAssumption, SizesAssumption, RoundUp DEF Blocks, End, Uses
  <2>2. Area(at, roundew(n), "stack") \in Areas
    BY <2>1, AreaFields
  <2>3. PutBack(StackBlock(Area(at, roundew(n), "stack")))
    BY <1>8 DEF FreestkAgain
  <2>4. "top" \in {"whole", "top"} /\ "top" # "whole"
    OBVIOUS
  <2>. QED
    BY <1>6, <2>2, <2>3, <2>4
<1>. QED
  BY <1>3, <1>4, <1>7, <1>8 DEF MemoryNext

-------------------------------------------------------------------------------
\* The inductive invariant holds in every behaviour of the free memory list.
THEOREM MemoryInductive == MemorySpec => []MemoryInv
<1>1. MemoryInit => MemoryInv
  BY MemoryInitially
<1>2. MemoryInv /\ [MemoryNext]_memory => MemoryInv'
  BY MemoryKeeps
<1>. QED
  BY <1>1, <1>2, PTL DEF MemorySpec

\* Free blocks never touch, and no byte is free and in use, or in use twice, whatever
\* regions there are and whatever sizes are asked for (freemem(), getmem(), getstk()).
THEOREM MemoryAlwaysApart == MemorySpec => []MemoryApart
<1>1. MemoryInv => MemoryApart
  BY DEF MemoryInv
<1>. QED
  BY <1>1, MemoryInductive, PTL

\* Where every region and every stack is a multiple of 8 bytes long, freestk() gives
\* back exactly what getstk() gave, is never refused, and no header leaves its block,
\* unless a stack was given back under another owner (kill() of a dead process).
THEOREM StraysAlwaysExplained == MemorySpec => []StraysExplained
<1>1. MemoryInv => StraysExplained
  BY DEF MemoryInv, AllEven, Odd, StraysExplained
<1>. QED
  BY <1>1, MemoryInductive, PTL
===============================================================================
