------------------------------ MODULE PagingProofs ------------------------------
(***************************************************************************)
(* Demand paging, for any number of processes, frames, pages and backing   *)
(* stores: the frame table, the page tables and the replacement queues     *)
(* tell the same story, a store is not given up under those who map it,    *)
(* and a process finds in its pages what was last written to them.         *)
(*                                                                         *)
(* The operations of Paging.tla work on a record of the tables.  Sound()   *)
(* below says of such a record what every one of them keeps; the           *)
(* invariants that TLC checks follow from it.                              *)
(***************************************************************************)
EXTENDS Paging, ListProofs

\* What such a record has, and what its tables hold.
Fields == {"policy", "frame", "content", "fifo", "index", "pages", "pd", "pt", "dirty", "bsm",
           "store", "currpid", "alive", "strayed", "doubtful"}
FrameEntry == [type : {"UNMAPPED", "DIR", "TBL", "PAGE"}, pid : Procs \cup {NULLPROC},
               vpno : VPages \cup {NONE}, sc : BOOLEAN]
StoreEntry == [mapped : BOOLEAN, private : BOOLEAN, npages : (1..NPBS) \cup {NONE},
               total : Int, vpno : [Procs -> VPages \cup {NONE}]]

\* The records that the operations work on.
IsRecord(M) == M = [x \in Fields |-> M[x]]

\* Types of the tables.
Typed(M) ==
  /\ IsRecord(M)
  /\ M.policy \in {"SC", "FIFO"}
  /\ M.frame \in [Frames -> FrameEntry]
  /\ M.content = [f \in Frames |-> M.content[f]]
  /\ M.fifo \in Seq(Frames) /\ M.index \in Frames \cup {NONE} /\ M.pages \in Int
  /\ M.pd \in [Procs -> [Tables -> Frames \cup {NONE}]]
  /\ M.pt \in [Procs -> [VPages -> Frames \cup {NONE}]]
  /\ M.dirty \in [Procs -> SUBSET VPages]
  /\ M.bsm \in [Stores -> StoreEntry]
  /\ M.store = [k \in StorePages |-> M.store[k]]
  /\ M.currpid \in Procs \cup {NULLPROC} /\ M.alive \in SUBSET Procs

\* Every frame is free, or a directory or page of a live process, or a page table, which
\* may be one that kill() left behind; and the page tables lead to the pages.
Framed(M) ==
  /\ \A f \in Frames :
       LET fr == M.frame[f]
       IN  /\ fr.type = "UNMAPPED" => fr = Unmapped
           /\ fr.type = "DIR" => fr = Owned("DIR", fr.pid) /\ fr.pid \in M.alive
           /\ fr.type = "TBL" => fr = Owned("TBL", fr.pid)
           /\ fr.type = "PAGE" => /\ fr.pid \in M.alive /\ fr.vpno \in VPages
                                  /\ M.pt[fr.pid][fr.vpno] = f
  /\ \A p \in Procs, v \in VPages : M.pt[p][v] # NONE =>
       /\ p \in M.alive /\ M.pd[p][v \div NPTE] # NONE
       /\ IsPage(M, M.pt[p][v]) /\ M.frame[M.pt[p][v]].pid = p /\ M.frame[M.pt[p][v]].vpno = v

\* Every live process has one directory, and its page tables are frames of its own.
Directed(M) ==
  /\ \A p \in M.alive : \E f \in Frames : \A g \in Frames :
       M.frame[g] = Owned("DIR", p) <=> g = f
  /\ \A p \in M.alive, t \in Tables : M.pd[p][t] # NONE =>
       /\ M.frame[M.pd[p][t]] = Owned("TBL", p)
       /\ \A u \in Tables \ {t} : M.pd[p][u] # M.pd[p][t]

\* The queue of the first policy holds the frames with pages; that of the second
\* counts them, and points somewhere as long as there are any.
Queued(M) ==
  /\ HoldsIn(Frames, M.fifo, {f \in Frames : IsPage(M, f)})
  /\ M.pages = Len(M.fifo)
  /\ M.index = NONE <=> M.fifo = <<>>

\* Those who map store s.
Users(M, s) == {p \in Procs : M.bsm[s].vpno[p] # NONE}

\* Who maps a store is alive and counted; a store has a length while it is mapped, and one
\* that is private is not free.
Stored(M) ==
  /\ IsFiniteSet(M.alive)
  /\ \A s \in Stores :
       /\ Users(M, s) \subseteq M.alive
       /\ Cardinality(Users(M, s)) <= M.bsm[s].total
       /\ M.bsm[s].npages = NONE <=> M.bsm[s].total = 0
       /\ M.bsm[s].private => M.bsm[s].mapped

\* No process maps two stores at a page.
Apart(M) ==
  \A p \in Procs, v \in VPages, s, t \in Stores : Covers(M, p, s, v) /\ Covers(M, p, t, v) => s = t

\* Frame f holds page k, and what is in it goes back to the store, or can be read as it
\* is by its process: now, or when that runs again.
Counts(M, f, k) ==
  /\ IsPage(M, f) /\ Home(M, f) = k
  /\ IsDirty(M, f) \/ M.frame[f].pid = M.currpid \/ M.bsm[k[1]].private

\* Frame f holds page k, and the store need not.
Ahead(M, f, k) ==
  /\ IsPage(M, f) /\ Home(M, f) = k /\ IsDirty(M, f)
  /\ M.frame[f].pid = M.currpid \/ M.bsm[k[1]].private

\* What was last written to page k is in its store or in a frame ahead of that, and in
\* every frame that counts; a private store has one user.
FreshPage(M, k) ==
  /\ M.store[k] # k => \E f \in Frames : Ahead(M, f, k)
  /\ \A f \in Frames : Counts(M, f, k) => M.content[f] = k
  /\ M.bsm[k[1]].private => \A p, q \in Users(M, k[1]) : p = q

\* No page is lost but those of D.
Fresh(M, D) == \A k \in StorePages \ D : FreshPage(M, k)

\* What every operation keeps of the tables.
Sound(M, D) ==
  /\ Typed(M) /\ Framed(M) /\ Directed(M) /\ Queued(M)
  /\ Stored(M) /\ Apart(M) /\ Fresh(M, D)

\* The inductive invariant: it holds before and after every step.
PagingInv ==
  Sound(Memory, disputed) /\ currpid \in alive \cup {NULLPROC} /\ strayed \in BOOLEAN

-------------------------------------------------------------------------------
(***************************************************************************)
(* The tables, and bsm_lookup().                                           *)
(***************************************************************************)
LEMMA Sizes ==
  /\ NFRAMES \in Nat /\ NFRAMES >= 1 /\ NBS \in Nat /\ NPBS \in Nat /\ NPBS >= 1
  /\ NVP \in Nat /\ NPTE \in Nat /\ NPTE >= 1
  /\ NULLPROC \notin Procs
  /\ NONE \notin Frames /\ NONE \notin VPages /\ NONE \notin 1..NPBS
BY SizesAssumption, ProcsAssumption DEF Frames, VPages, NONE

\* What the table of the backing stores says of one of them.
LEMMA StoreFields ==
  ASSUME NEW M, Typed(M), NEW s \in Stores
  PROVE  /\ M.bsm[s] \in StoreEntry
         /\ M.bsm[s].vpno \in [Procs -> VPages \cup {NONE}]
         /\ M.bsm[s].npages \in (1..NPBS) \cup {NONE} /\ M.bsm[s].total \in Int
         /\ M.bsm[s].private \in BOOLEAN /\ M.bsm[s].mapped \in BOOLEAN
BY DEF Typed, StoreEntry

\* What the frame table says of a frame.
LEMMA FrameFields ==
  ASSUME NEW M, Typed(M), NEW f \in Frames
  PROVE  /\ M.frame[f] \in FrameEntry
         /\ M.frame[f].pid \in Procs \cup {NULLPROC} /\ M.frame[f].vpno \in VPages \cup {NONE}
BY DEF Typed, FrameEntry

\* The first store that covers a page is one that does.
LEMMA FirstStore ==
  ASSUME NEW M, NEW p, NEW v, StoresOf(M, p, v) # {}
  PROVE  /\ Min(StoresOf(M, p, v)) \in Stores
         /\ Covers(M, p, Min(StoresOf(M, p, v)), v)
<1>1. StoresOf(M, p, v) \in SUBSET Nat
  BY Sizes DEF StoresOf, Stores
<1>2. Min(StoresOf(M, p, v)) \in StoresOf(M, p, v)
  BY <1>1, MinIsLeast
<1>. QED
  BY <1>2 DEF StoresOf

\* Every page of a store is in one.
LEMMA StorePageFacts ==
  \A k \in StorePages : k # <<>> /\ k[1] \in Stores
BY DEF StorePages

\* A page that the process maps is found in the store, at its distance from the first.
LEMMA LookupFinds ==
  ASSUME NEW M, Typed(M), Apart(M), NEW p \in Procs, NEW v \in VPages,
         NEW s \in Stores, Covers(M, p, s, v)
  PROVE  /\ Lookup(M, p, v) = <<s, v - M.bsm[s].vpno[p]>>
         /\ Lookup(M, p, v) \in StorePages
<1>1. StoresOf(M, p, v) # {}
  BY DEF StoresOf
<1>2. Min(StoresOf(M, p, v)) = s
  BY <1>1, FirstStore DEF Apart
<1>3. M.bsm[s].vpno[p] \in VPages \cup {NONE} /\ M.bsm[s].npages \in (1..NPBS) \cup {NONE}
  BY StoreFields
<1>4. v - M.bsm[s].vpno[p] \in 0..NPBS - 1
  BY <1>3, Sizes DEF Covers, VPages, NONE
<1>5. Lookup(M, p, v) = <<s, v - M.bsm[s].vpno[p]>>
  BY <1>1, <1>2 DEF Lookup
<1>. QED
  BY <1>4, <1>5 DEF StorePages

\* What bsm_lookup() finds is a page of a store that the process maps.
LEMMA LookupIs ==
  ASSUME NEW M, Typed(M), Apart(M), NEW p \in Procs, NEW v \in VPages,
         Lookup(M, p, v) # <<>>
  PROVE  \E s \in Stores : /\ Covers(M, p, s, v) /\ p \in Users(M, s)
                           /\ Lookup(M, p, v) = <<s, v - M.bsm[s].vpno[p]>>
                           /\ Lookup(M, p, v) \in StorePages
                           /\ Lookup(M, p, v)[1] = s
<1>1. StoresOf(M, p, v) # {}
  BY DEF Lookup
<1>2. PICK s \in Stores : Covers(M, p, s, v)
  BY <1>1 DEF StoresOf
<1>3. Lookup(M, p, v) = <<s, v - M.bsm[s].vpno[p]>> /\ Lookup(M, p, v) \in StorePages
  BY <1>2, LookupFinds
<1>4. p \in Users(M, s)
  BY <1>2 DEF Covers, Users
<1>. QED
  BY <1>2, <1>3, <1>4

\* A process sees a page of a store at one place only.
LEMMA LookupOnce ==
  ASSUME NEW M, Typed(M), Apart(M), NEW p \in Procs, NEW v \in VPages, NEW w \in VPages,
         Lookup(M, p, v) # <<>>, Lookup(M, p, w) = Lookup(M, p, v)
  PROVE  v = w
<1>1. PICK s \in Stores : Lookup(M, p, v) = <<s, v - M.bsm[s].vpno[p]>>
  BY LookupIs
<1>2. PICK t \in Stores : Lookup(M, p, w) = <<t, w - M.bsm[t].vpno[p]>>
  BY LookupIs
<1>3. s = t /\ v - M.bsm[s].vpno[p] = w - M.bsm[s].vpno[p]
  BY <1>1, <1>2
<1>4. v \in Int /\ w \in Int /\ M.bsm[s].vpno[p] \in Int
  BY StoreFields, Sizes DEF VPages, NONE
<1>. QED
  BY <1>3, <1>4

\* Where a frame is kept depends on its page and on the mappings only.
LEMMA HomeCarries ==
  ASSUME NEW M, NEW N, NEW f, N.bsm = M.bsm,
         N.frame[f].pid = M.frame[f].pid, N.frame[f].vpno = M.frame[f].vpno
  PROVE  Home(N, f) = Home(M, f)
BY DEF Home, Lookup, StoresOf, Covers

\* What the mappings are depends on the table of the stores, and on who is alive.
LEMMA MappingsCarry ==
  ASSUME NEW M, NEW N, N.bsm = M.bsm, N.alive = M.alive
  PROVE  /\ Stored(M) => Stored(N)
         /\ Apart(M) => Apart(N)
         /\ \A s : Users(N, s) = Users(M, s)
         /\ \A p, v : Lookup(N, p, v) = Lookup(M, p, v)
<1>1. \A p, s, v : Covers(N, p, s, v) <=> Covers(M, p, s, v)
  BY DEF Covers
<1>2. \A s : Users(N, s) = Users(M, s)
  BY DEF Users
<1>3. \A p, v : StoresOf(N, p, v) = StoresOf(M, p, v)
  BY <1>1 DEF StoresOf
<1>4. \A p, v : Lookup(N, p, v) = Lookup(M, p, v)
  BY <1>3 DEF Lookup
<1>5. Stored(M) => Stored(N)
  BY <1>2 DEF Stored
<1>6. Apart(M) => Apart(N)
  BY <1>1 DEF Apart
<1>. QED
  BY <1>2, <1>4, <1>5, <1>6

\* The pages of a process are in frames of their own.
LEMMA PageFacts ==
  ASSUME NEW M, Typed(M), Framed(M), NEW f \in Frames, IsPage(M, f)
  PROVE  /\ M.frame[f].pid \in M.alive /\ M.frame[f].pid \in Procs
         /\ M.frame[f].vpno \in VPages
         /\ M.pt[M.frame[f].pid][M.frame[f].vpno] = f
         /\ Home(M, f) = Lookup(M, M.frame[f].pid, M.frame[f].vpno)
BY DEF Typed, Framed, IsPage, Home

\* A page of a store is in no more than one frame of a process.
LEMMA HomeOnce ==
  ASSUME NEW M, Typed(M), Framed(M), Apart(M),
         NEW f \in Frames, NEW g \in Frames, IsPage(M, f), IsPage(M, g),
         M.frame[f].pid = M.frame[g].pid, Home(M, f) # <<>>, Home(M, f) = Home(M, g)
  PROVE  f = g
<1>1. M.frame[f].vpno = M.frame[g].vpno
  BY PageFacts, LookupOnce
<1>. QED
  BY <1>1, PageFacts

-------------------------------------------------------------------------------
(***************************************************************************)
(* free_frm().                                                             *)
(***************************************************************************)
\* The source says no more.
Strays(M) == M.strayed = TRUE

\* Nobody touches what he knows nothing of: the fields that stay.
SameWorld(N, M) ==
  /\ N.policy = M.policy /\ N.pd = M.pd /\ N.dirty = M.dirty /\ N.bsm = M.bsm
  /\ N.currpid = M.currpid /\ N.alive = M.alive

\* N is M with the page taken out of frame f.
Freed(N, M, f) ==
  /\ IsRecord(N) /\ SameWorld(N, M) /\ ~M.strayed
  /\ N.frame = [M.frame EXCEPT ![f] = Unmapped]
  /\ N.content = [M.content EXCEPT ![f] = OLD]
  /\ N.fifo = RemoveFirst(M.fifo, f)
  /\ N.pages = M.pages - 1
  /\ N.index = IF M.pages = 1 THEN NONE ELSE M.index
  /\ N.pt = [M.pt EXCEPT ![M.frame[f].pid][M.frame[f].vpno] = NONE]
  /\ IsDirty(M, f) => Home(M, f) # <<>>
  /\ N.store = IF IsDirty(M, f) THEN [M.store EXCEPT ![Home(M, f)] = M.content[f]]
                                ELSE M.store

\* That is what free_frm() does to a page, if the source says what it does.
LEMMA FreeFrameFields ==
  ASSUME NEW M, Typed(M), NEW f \in Frames, IsPage(M, f),
         NEW N, N = FreeFrame(M, f), ~N.strayed
  PROVE  Freed(N, M, f)
<1>1. M = [x \in Fields |-> M[x]]
  BY DEF Typed, IsRecord
<1>2. ~(IsDirty(M, f) /\ Home(M, f) = <<>>)
  BY <1>1 DEF FreeFrame, IsPage, Fields
<1>. PICK home, stale, d : home = Home(M, f) /\ stale = IsDirty(M, f)
                           /\ d = (IF stale THEN [M.store EXCEPT ![home] = M.content[f]] ELSE M.store)
  OBVIOUS
<1>3. N = [M EXCEPT !.store = d,
                    !.pt[M.frame[f].pid][M.frame[f].vpno] = NONE,
                    !.fifo = RemoveFirst(@, f),
                    !.pages = @ - 1,
                    !.index = IF M.pages = 1 THEN NONE ELSE @,
                    !.frame[f] = Unmapped,
                    !.content[f] = OLD,
                    !.doubtful = TRUE]
  BY <1>1, <1>2 DEF FreeFrame, IsPage, Fields
<1>4. N = [x \in Fields |-> N[x]]
  BY <1>1, <1>3 DEF Fields
<1>5. SameWorld(N, M) /\ ~M.strayed /\ N.store = d /\ N.fifo = RemoveFirst(M.fifo, f)
  BY <1>1, <1>3 DEF Fields, SameWorld
<1>6. /\ N.frame = [M.frame EXCEPT ![f] = Unmapped]
      /\ N.content = [M.content EXCEPT ![f] = OLD]
      /\ N.pages = M.pages - 1
      /\ N.index = IF M.pages = 1 THEN NONE ELSE M.index
      /\ N.pt = [M.pt EXCEPT ![M.frame[f].pid][M.frame[f].vpno] = NONE]
  BY <1>1, <1>3 DEF Fields
<1>. QED
  BY <1>2, <1>4, <1>5, <1>6 DEF IsRecord, Freed

\* An entry of a page table that is not cleared stays.
LEMMA FreedEntries ==
  ASSUME NEW M, NEW N, NEW f, Typed(M), Freed(N, M, f),
         NEW p \in Procs, NEW v \in VPages, N.pt[p][v] # NONE
  PROVE  N.pt[p][v] = M.pt[p][v]
<1>. PICK q, w : q = M.frame[f].pid /\ w = M.frame[f].vpno
  OBVIOUS
<1>1. M.pt \in [Procs -> [VPages -> Frames \cup {NONE}]] /\ N.pt = [M.pt EXCEPT ![q][w] = NONE]
  BY DEF Typed, Freed
<1>2. N.pt[p] = IF p = q THEN [M.pt[p] EXCEPT ![w] = NONE] ELSE M.pt[p]
  BY <1>1
<1>3. M.pt[p] \in [VPages -> Frames \cup {NONE}]
  BY <1>1
<1>. QED
  BY <1>2, <1>3

\* Entries of the frame table.
LEMMA UnmappedFacts ==
  /\ Unmapped \in FrameEntry /\ Unmapped.type = "UNMAPPED"
  /\ \A type, p : /\ Owned(type, p).type = type /\ Owned(type, p).pid = p
                  /\ Owned(type, p).vpno = NONE /\ Owned(type, p).sc = FALSE
  /\ \A type \in {"DIR", "TBL"}, p \in Procs : Owned(type, p) \in FrameEntry
BY DEF Unmapped, Owned, FrameEntry

\* A page is taken away, if it was one, without a trace of it: what was in it alone is
\* in the store.
LEMMA FreeFrameKeeps ==
  ASSUME NEW M, NEW D, Sound(M, D), NEW f \in Frames, IsPage(M, f),
         NEW N, N = FreeFrame(M, f), ~N.strayed
  PROVE  Sound(N, D)
<1>. PICK p, v : p = M.frame[f].pid /\ v = M.frame[f].vpno
  OBVIOUS
<1>0. Typed(M) /\ Framed(M) /\ Directed(M) /\ Queued(M) /\ Stored(M) /\ Apart(M) /\ Fresh(M, D)
  BY DEF Sound
<1>1. /\ p \in M.alive /\ p \in Procs /\ v \in VPages /\ M.pt[p][v] = f
      /\ Home(M, f) = Lookup(M, p, v)
  BY <1>0, PageFacts
<1>2. /\ IsRecord(N) /\ SameWorld(N, M)
      /\ N.frame = [M.frame EXCEPT ![f] = Unmapped]
      /\ N.content = [M.content EXCEPT ![f] = OLD]
      /\ N.fifo = RemoveFirst(M.fifo, f)
      /\ N.pages = M.pages - 1
      /\ N.index = IF M.pages = 1 THEN NONE ELSE M.index
      /\ N.pt = [M.pt EXCEPT ![p][v] = NONE]
      /\ IsDirty(M, f) => Home(M, f) # <<>>
      /\ N.store = IF IsDirty(M, f) THEN [M.store EXCEPT ![Home(M, f)] = M.content[f]]
                                    ELSE M.store
  <2>1. Freed(N, M, f)
    BY <1>0, FreeFrameFields
  <2>. QED
    BY <2>1 DEF Freed
<1>3. /\ N.frame[f] = Unmapped /\ ~IsPage(N, f)
      /\ \A g \in Frames : g # f => N.frame[g] = M.frame[g] /\ (IsPage(N, g) <=> IsPage(M, g))
  BY <1>0, <1>2, UnmappedFacts DEF Typed, IsPage
<1>4. /\ N.pt \in [Procs -> [VPages -> Frames \cup {NONE}]]
      /\ \A q \in Procs, w \in VPages :
           N.pt[q][w] = IF q = p /\ w = v THEN NONE ELSE M.pt[q][w]
  <2>1. M.pt \in [Procs -> [VPages -> Frames \cup {NONE}]]
    BY <1>0 DEF Typed
  <2>2. N.pt = [M.pt EXCEPT ![p][v] = NONE]
    BY <1>2
  <2>3. \A q \in Procs : M.pt[q] \in [VPages -> Frames \cup {NONE}]
    BY <2>1
  <2>4. \A q \in Procs : N.pt[q] = IF q = p THEN [M.pt[q] EXCEPT ![v] = NONE] ELSE M.pt[q]
    BY <2>1, <2>2
  <2>5. N.pt = [q \in Procs |-> N.pt[q]]
    BY <2>1, <2>2
  <2>6. ASSUME NEW q \in Procs
        PROVE  /\ N.pt[q] \in [VPages -> Frames \cup {NONE}]
               /\ \A w \in VPages : N.pt[q][w] = IF q = p /\ w = v THEN NONE ELSE M.pt[q][w]
    BY ZenonT(30), <2>3, <2>4
  <2>. QED
    BY <2>5, <2>6
<1>5. Queued(N) /\ N.fifo \in Seq(Frames) /\ N.pages \in Int
  <2>. PICK S : S = {g \in Frames : IsPage(M, g)}
    OBVIOUS
  <2>1. S \ {f} = {g \in Frames : IsPage(N, g)} /\ f \in S
    BY <1>3
  <2>2. N.fifo \in Seq(Frames) /\ HoldsIn(Frames, N.fifo, S \ {f})
    <3>1. M.fifo \in Seq(Frames) /\ HoldsIn(Frames, M.fifo, S)
      BY <1>0 DEF Queued, Typed
    <3>2. RemoveFirst(M.fifo, f) \in Seq(Frames) /\ HoldsIn(Frames, RemoveFirst(M.fifo, f), S \ {f})
      BY <3>1, RemoveFirstHoldsIn
    <3>. QED
      BY <1>2, <3>2
  <2>3. Contains(M.fifo, f)
    BY <1>0, <2>1 DEF Queued, HoldsIn
  <2>4. Len(N.fifo) = Len(M.fifo) - 1
    BY <1>0, <1>2, <2>3, RemoveFirstLength DEF Typed
  <2>5. N.pages = Len(N.fifo) /\ M.pages = Len(M.fifo) /\ M.fifo # <<>> /\ M.pages \in Int
    BY <1>0, <1>2, <2>3, <2>4 DEF Queued, Typed, Contains
  <2>6. N.index = NONE <=> N.fifo = <<>>
    <3>1. N.fifo = <<>> <=> Len(N.fifo) = 0
      BY <2>2
    <3>2. M.index # NONE
      BY <1>0, <2>5 DEF Queued
    <3>3. N.index = NONE <=> M.pages = 1
      BY <1>2, <3>2
    <3>4. Len(N.fifo) = M.pages - 1
      BY <2>4, <2>5
    <3>. QED
      BY <2>5, <3>1, <3>3, <3>4
  <2>7. HoldsIn(Frames, N.fifo, {g \in Frames : IsPage(N, g)})
    BY <2>1, <2>2, Zenon
  <2>8. N.pages \in Int
    BY <2>5
  <2>. QED
    BY <2>2, <2>5, <2>6, <2>7, <2>8 DEF Queued
<1>6. Typed(N)
  <2>1. N.frame \in [Frames -> FrameEntry]
    <3>1. M.frame \in [Frames -> FrameEntry] /\ Unmapped \in FrameEntry
      BY <1>0, UnmappedFacts DEF Typed
    <3>. QED
      BY <1>2, <3>1
  <2>2. N.content = [g \in Frames |-> N.content[g]] /\ N.store = [k \in StorePages |-> N.store[k]]
    BY <1>0, <1>2 DEF Typed
  <2>3. N.index \in Frames \cup {NONE}
    BY <1>0, <1>2 DEF Typed
  <2>. QED
    BY <1>0, <1>2, <1>4, <1>5, <2>1, <2>2, <2>3 DEF Typed, SameWorld
<1>7. Stored(N) /\ Apart(N) /\ (\A s : Users(N, s) = Users(M, s))
  BY <1>0, <1>2, MappingsCarry DEF SameWorld
<1>8. Framed(N)
  <2>1. ASSUME NEW g \in Frames, g # f, IsPage(M, g)
        PROVE  N.pt[M.frame[g].pid][M.frame[g].vpno] = g
    <3>1. /\ M.frame[g].pid \in Procs /\ M.frame[g].vpno \in VPages
          /\ M.pt[M.frame[g].pid][M.frame[g].vpno] = g
      BY <1>0, <2>1, PageFacts
    <3>. QED
      BY <1>1, <1>4, <2>1, <3>1
  <2>2. ASSUME NEW g \in Frames
        PROVE  LET fr == N.frame[g]
               IN  /\ fr.type = "UNMAPPED" => fr = Unmapped
                   /\ fr.type = "DIR" => fr = Owned("DIR", fr.pid) /\ fr.pid \in N.alive
                   /\ fr.type = "TBL" => fr = Owned("TBL", fr.pid)
                   /\ fr.type = "PAGE" => /\ fr.pid \in N.alive /\ fr.vpno \in VPages
                                          /\ N.pt[fr.pid][fr.vpno] = g
    <3>1. CASE g = f
      BY <1>3, <3>1, UnmappedFacts
    <3>2. CASE g # f
      <4>1. N.frame[g] = M.frame[g] /\ N.alive = M.alive
        BY <1>2, <1>3, <3>2 DEF SameWorld
      <4>2. LET fr == M.frame[g]
            IN  /\ fr.type = "UNMAPPED" => fr = Unmapped
                /\ fr.type = "DIR" => fr = Owned("DIR", fr.pid) /\ fr.pid \in M.alive
                /\ fr.type = "TBL" => fr = Owned("TBL", fr.pid)
                /\ fr.type = "PAGE" => fr.pid \in M.alive /\ fr.vpno \in VPages
        BY <1>0 DEF Framed
      <4>3. M.frame[g].type = "PAGE" => N.pt[M.frame[g].pid][M.frame[g].vpno] = g
        BY <2>1, <3>2 DEF IsPage
      <4>. QED
        BY <4>1, <4>2, <4>3
    <3>. QED
      BY <3>1, <3>2
  <2>3. ASSUME NEW q \in Procs, NEW w \in VPages, N.pt[q][w] # NONE
        PROVE  /\ q \in N.alive /\ N.pd[q][w \div NPTE] # NONE
               /\ IsPage(N, N.pt[q][w]) /\ N.frame[N.pt[q][w]].pid = q
               /\ N.frame[N.pt[q][w]].vpno = w
    <3>1. N.pt[q][w] = M.pt[q][w] /\ ~(q = p /\ w = v) /\ M.pt[q][w] \in Frames
      BY <1>0, <1>4, <2>3 DEF Typed
    <3>2. /\ q \in M.alive /\ M.pd[q][w \div NPTE] # NONE
          /\ IsPage(M, M.pt[q][w]) /\ M.frame[M.pt[q][w]].pid = q
          /\ M.frame[M.pt[q][w]].vpno = w
      BY <1>0, <2>3, <3>1 DEF Framed
    <3>3. M.pt[q][w] # f
      BY <3>1, <3>2
    <3>. QED
      BY <1>2, <1>3, <3>1, <3>2, <3>3 DEF SameWorld
  <2>. QED
    BY <2>2, <2>3 DEF Framed
<1>9. Directed(N)
  <2>1. \A g \in Frames : \A q : /\ N.frame[g] = Owned("DIR", q) <=> M.frame[g] = Owned("DIR", q)
                                 /\ M.frame[g] = Owned("TBL", q) => N.frame[g] = Owned("TBL", q)
    BY <1>3, UnmappedFacts DEF IsPage
  <2>2. \A q \in M.alive, t \in Tables : M.pd[q][t] # NONE => M.pd[q][t] \in Frames
    BY <1>0 DEF Typed
  <2>. QED
    BY <1>0, <1>2, <2>1, <2>2 DEF Directed, SameWorld
<1>10. ASSUME NEW k \in StorePages \ D PROVE FreshPage(N, k)
  <2>0. FreshPage(M, k)
    BY <1>0 DEF Fresh
  <2>1. \A g \in Frames : g # f => Home(N, g) = Home(M, g) /\ (IsDirty(N, g) <=> IsDirty(M, g))
    <3>1. N.bsm = M.bsm /\ N.dirty = M.dirty
      BY <1>2 DEF SameWorld
    <3>2. ASSUME NEW g \in Frames, g # f
          PROVE  Home(N, g) = Home(M, g) /\ (IsDirty(N, g) <=> IsDirty(M, g))
      <4>1. N.frame[g] = M.frame[g]
        BY <1>3, <3>2
      <4>2. Home(N, g) = Home(M, g)
        BY <3>1, <4>1, HomeCarries
      <4>. QED
        BY <3>1, <4>1, <4>2 DEF IsDirty
    <3>. QED
      BY <3>2
  <2>2. \A g \in Frames : g # f => /\ Counts(N, g, k) <=> Counts(M, g, k)
                                   /\ Ahead(N, g, k) <=> Ahead(M, g, k)
    BY <1>2, <1>3, <2>1 DEF Counts, Ahead, SameWorld
  <2>3. \A g \in Frames : Counts(N, g, k) => N.content[g] = k
    <3>1. \A g \in Frames : g # f => N.content[g] = M.content[g]
      BY <1>0, <1>2 DEF Typed
    <3>2. ~Counts(N, f, k)
      BY <1>3 DEF Counts
    <3>. QED
      BY <2>0, <2>2, <3>1, <3>2 DEF FreshPage
  <2>4. ASSUME N.store[k] # k PROVE \E g \in Frames : Ahead(N, g, k)
    <3>1. CASE IsDirty(M, f) /\ Home(M, f) = k
      <4>1. M.content[f] = k
        BY <2>0, <3>1 DEF FreshPage, Counts
      <4>2. N.store[k] = k
        BY <1>0, <1>2, <3>1, <4>1 DEF Typed
      <4>. QED
        BY <2>4, <4>2
    <3>2. CASE ~(IsDirty(M, f) /\ Home(M, f) = k)
      <4>1. N.store[k] = M.store[k]
        BY <1>0, <1>2, <3>2 DEF Typed
      <4>2. PICK g \in Frames : Ahead(M, g, k)
        BY <2>0, <2>4, <4>1 DEF FreshPage
      <4>3. g # f
        BY <3>2, <4>2 DEF Ahead
      <4>. QED
        BY <2>2, <4>2, <4>3
    <3>. QED
      BY <3>1, <3>2
  <2>. QED
    BY <1>2, <1>7, <2>0, <2>3, <2>4 DEF FreshPage, SameWorld
<1>. QED
  BY <1>5, <1>6, <1>7, <1>8, <1>9, <1>10 DEF Sound, Fresh

-------------------------------------------------------------------------------
(***************************************************************************)
(* The loops of the kernel: over the frames, over the stores of a process  *)
(* that dies, and over those of a heap.                                    *)
(***************************************************************************)
\* What a loop does with number n: its kind is "free", "unmap" or "heap".
Round(loop, M, n) ==
  CASE loop.kind = "free" -> IF n - 1 \in loop.frames THEN FreeFrame(M, n - 1) ELSE M
    [] loop.kind = "unmap" -> UnmapStore(M, loop.p, n - 1)
    [] OTHER -> WithHeapStore(M, loop.p, loop.h, n)

\* f[n] is what becomes of the tables in the first n rounds.
Rounds(f, loop, M, last) ==
  /\ f = [n \in 0..last |-> f[n]]
  /\ f[0] = M
  /\ \A n \in 1..last : f[n] = Round(loop, f[n - 1], n)

\* Every loop can be carried through.
LEMMA RoundsExist ==
  ASSUME NEW loop, NEW M, NEW last \in Nat
  PROVE  \E f : Rounds(f, loop, M, last)
<1>. DEFINE Upto(m) == \E f : Rounds(f, loop, M, m)
<1>1. Upto(0)
  <2>. DEFINE f == [i \in 0..0 |-> M]
  <2>1. f = [i \in 0..0 |-> f[i]] /\ f[0] = M
        /\ \A i \in 1..0 : f[i] = Round(loop, f[i - 1], i)
    OBVIOUS
  <2>. HIDE DEF f
  <2>. QED
    BY <2>1 DEF Rounds
<1>2. ASSUME NEW m \in 1..last, Upto(m - 1) PROVE Upto(m)
  <2>1. PICK f : Rounds(f, loop, M, m - 1)
    BY <1>2
  <2>2. PICK end : end = Round(loop, f[m - 1], m)
    OBVIOUS
  <2>. DEFINE g == [i \in 0..m |-> IF i = m THEN end ELSE f[i]]
  <2>3. g = [i \in 0..m |-> g[i]] /\ g[0] = M
    BY <2>1 DEF Rounds
  <2>4. ASSUME NEW i \in 1..m PROVE g[i] = Round(loop, g[i - 1], i)
    <3>1. g[i - 1] = f[i - 1]
      OBVIOUS
    <3>2. CASE i = m
      BY <2>2, <3>1, <3>2
    <3>3. CASE i # m
      <4>1. i \in 1..m - 1 /\ g[i] = f[i]
        BY <3>3
      <4>. QED
        BY <2>1, <3>1, <4>1 DEF Rounds
    <3>. QED
      BY <3>2, <3>3
  <2>. HIDE DEF g
  <2>. QED
    BY <2>3, <2>4 DEF Rounds
<1>. HIDE DEF Upto
<1>3. PICK S : S = {m \in 0..last : Upto(m)}
  OBVIOUS
<1>4. 0 \in S /\ \A m \in 1..last : m - 1 \in S => m \in S
  BY <1>1, <1>2, <1>3
<1>5. last \in S
  BY <1>4, UpToTheLast
<1>. QED
  BY <1>3, <1>5 DEF Upto

\* The loops of the model are such loops.
LEMMA FreeFramesRounds ==
  ASSUME NEW M, NEW S
  PROVE  \E f : /\ Rounds(f, [kind |-> "free", frames |-> S], M, NFRAMES)
                /\ FreeFrames(M, S) = f[NFRAMES]
<1>0. PICK last \in Nat : last = NFRAMES
  BY Sizes
<1>. DEFINE loop == [kind |-> "free", frames |-> S]
            upto == CHOOSE g : g = [n \in 0..last |->
                      IF n = 0 THEN M
                      ELSE IF n - 1 \in S THEN FreeFrame(g[n - 1], n - 1) ELSE g[n - 1]]
<1>1. PICK f : Rounds(f, loop, M, last)
  BY RoundsExist
<1>2. \A g, n : Round(loop, g, n) = IF n - 1 \in S THEN FreeFrame(g, n - 1) ELSE g
  BY DEF Round
<1>. HIDE DEF loop
<1>3. f = [n \in 0..last |->
             IF n = 0 THEN M ELSE IF n - 1 \in S THEN FreeFrame(f[n - 1], n - 1) ELSE f[n - 1]]
  <2>1. f = [n \in 0..last |-> f[n]] /\ f[0] = M
    BY <1>1 DEF Rounds
  <2>2. ASSUME NEW n \in 0..last, n # 0
        PROVE  f[n] = IF n - 1 \in S THEN FreeFrame(f[n - 1], n - 1) ELSE f[n - 1]
    <3>0. n \in 1..last
      BY <2>2
    <3>1. f[n] = Round(loop, f[n - 1], n)
      BY <1>1, <3>0 DEF Rounds
    <3>. QED
      BY <1>2, <3>1
  <2>. QED
    BY <2>1, <2>2
<1>4. upto = [n \in 0..last |->
                IF n = 0 THEN M
                ELSE IF n - 1 \in S THEN FreeFrame(upto[n - 1], n - 1) ELSE upto[n - 1]]
  BY <1>3
<1>5. FreeFrames(M, S) = upto[last]
  BY <1>0 DEF FreeFrames
<1>. HIDE DEF upto
<1>6. Rounds(upto, loop, M, last)
  BY <1>0, <1>2, <1>4 DEF Rounds
<1>. QED
  BY <1>0, <1>5, <1>6 DEF loop

\* The loop of kill() over the backing stores is one.
LEMMA UnmapStoresRounds ==
  ASSUME NEW M, NEW p
  PROVE  \E f : /\ Rounds(f, [kind |-> "unmap", p |-> p], M, NBS)
                /\ UnmapStores(M, p) = f[NBS]
<1>0. PICK last \in Nat : last = NBS
  BY Sizes
<1>. DEFINE loop == [kind |-> "unmap", p |-> p]
            upto == CHOOSE g : g = [n \in 0..last |->
                      IF n = 0 THEN M ELSE UnmapStore(g[n - 1], p, n - 1)]
<1>1. PICK f : Rounds(f, loop, M, last)
  BY RoundsExist
<1>2. \A g, n : Round(loop, g, n) = UnmapStore(g, p, n - 1)
  BY DEF Round
<1>. HIDE DEF loop
<1>3. f = [n \in 0..last |-> IF n = 0 THEN M ELSE UnmapStore(f[n - 1], p, n - 1)]
  <2>1. f = [n \in 0..last |-> f[n]] /\ f[0] = M
    BY <1>1 DEF Rounds
  <2>2. ASSUME NEW n \in 0..last, n # 0
        PROVE  f[n] = UnmapStore(f[n - 1], p, n - 1)
    <3>0. n \in 1..last
      BY <2>2
    <3>1. f[n] = Round(loop, f[n - 1], n)
      BY <1>1, <3>0 DEF Rounds
    <3>. QED
      BY <1>2, <3>1
  <2>. QED
    BY <2>1, <2>2
<1>4. upto = [n \in 0..last |-> IF n = 0 THEN M ELSE UnmapStore(upto[n - 1], p, n - 1)]
  BY <1>3
<1>5. UnmapStores(M, p) = upto[last]
  BY <1>0 DEF UnmapStores
<1>. HIDE DEF upto
<1>6. Rounds(upto, loop, M, last)
  BY <1>0, <1>2, <1>4 DEF Rounds
<1>. QED
  BY <1>0, <1>5, <1>6 DEF loop

\* The loop of vcreate() over the stores of the heap is one.
LEMMA WithHeapRounds ==
  ASSUME NEW M, NEW p, NEW h, HeapStores(h) \in Nat
  PROVE  \E f : /\ Rounds(f, [kind |-> "heap", p |-> p, h |-> h], M, HeapStores(h))
                /\ WithHeap(M, p, h) = f[HeapStores(h)]
<1>. DEFINE loop == [kind |-> "heap", p |-> p, h |-> h]
            last == HeapStores(h)
            upto == CHOOSE g : g = [n \in 0..last |->
                      IF n = 0 THEN M ELSE WithHeapStore(g[n - 1], p, h, n)]
<1>. HIDE DEF last
<1>0. last \in Nat
  BY DEF last
<1>1. PICK f : Rounds(f, loop, M, last)
  BY <1>0, RoundsExist
<1>2. \A g, n : Round(loop, g, n) = WithHeapStore(g, p, h, n)
  BY DEF Round
<1>. HIDE DEF loop
<1>3. f = [n \in 0..last |-> IF n = 0 THEN M ELSE WithHeapStore(f[n - 1], p, h, n)]
  BY <1>0, <1>1, <1>2 DEF Rounds
<1>4. upto = [n \in 0..last |-> IF n = 0 THEN M ELSE WithHeapStore(upto[n - 1], p, h, n)]
  BY <1>3
<1>5. WithHeap(M, p, h) = upto[last]
  BY DEF WithHeap, last
<1>. HIDE DEF upto
<1>6. Rounds(upto, loop, M, last)
  BY <1>0, <1>2, <1>4 DEF Rounds
<1>. QED
  BY <1>5, <1>6 DEF loop, last

\* Once the source says no more, it does not begin again.
LEMMA FreeFrameStrays ==
  ASSUME NEW M, IsRecord(M), NEW f
  PROVE  /\ IsRecord(FreeFrame(M, f))
         /\ M.strayed = TRUE => FreeFrame(M, f).strayed = TRUE
BY ZenonT(30) DEF FreeFrame, Fields, IsRecord

\* All pages of a process are taken away, and nobody else's.
LEMMA FreeFramesKeep ==
  ASSUME NEW M, NEW D, Sound(M, D), NEW p \in Procs,
         NEW N, N = FreeFrames(M, PagesOf(M, p)), N.strayed # TRUE
  PROVE  /\ Sound(N, D) /\ SameWorld(N, M) /\ M.strayed # TRUE
         /\ PagesOf(N, p) = {}
<1>. PICK S : S = PagesOf(M, p)
  OBVIOUS
<1>0. Typed(M) /\ NFRAMES \in Nat /\ S \subseteq Frames
  BY Sizes DEF Sound, PagesOf
<1>1. PICK f : /\ Rounds(f, [kind |-> "free", frames |-> S], M, NFRAMES)
               /\ N = f[NFRAMES]
  BY FreeFramesRounds
<1>2. /\ f[0] = M
      /\ \A n \in 1..NFRAMES :
           f[n] = IF n - 1 \in S THEN FreeFrame(f[n - 1], n - 1) ELSE f[n - 1]
  BY <1>1 DEF Rounds, Round
<1>. DEFINE Lost(m) == IsRecord(f[m]) /\ f[m].strayed = TRUE
            Good(m) == /\ Sound(f[m], D) /\ SameWorld(f[m], M)
                       /\ f[m].strayed # TRUE /\ M.strayed # TRUE
                       /\ \A g \in Frames : f[m].frame[g] =
                            IF g < m /\ g \in S THEN Unmapped ELSE M.frame[g]
<1>3. Lost(0) \/ Good(0)
  <2>1. ASSUME NEW g \in Frames PROVE ~(g < 0)
    BY <1>0 DEF Frames
  <2>2. CASE M.strayed = TRUE
    BY <1>0, <1>2, <2>2 DEF Typed
  <2>3. CASE M.strayed # TRUE
    BY <1>2, <2>1, <2>3 DEF SameWorld
  <2>. QED
    BY <2>2, <2>3
<1>4. ASSUME NEW m \in 1..NFRAMES, Lost(m - 1) \/ Good(m - 1) PROVE Lost(m) \/ Good(m)
  <2>. PICK g \in Frames : g = m - 1
    BY <1>0 DEF Frames
  <2>0. f[m] = IF g \in S THEN FreeFrame(f[g], g) ELSE f[g]
    BY <1>2
  <2>1. \A x \in Frames : x < m <=> x < g \/ x = g
    BY <2>0 DEF Frames
  <2>2. CASE Lost(g)
    <3>1. PICK A : A = f[g] /\ IsRecord(A) /\ A.strayed = TRUE
      BY <2>2
    <3>2. CASE g \in S
      <4>1. PICK B : B = f[m] /\ B = FreeFrame(A, g)
        BY <2>0, <3>1, <3>2
      <4>2. IsRecord(B) /\ B.strayed = TRUE
        BY <3>1, <4>1, FreeFrameStrays
      <4>. QED
        BY <4>1, <4>2
    <3>3. CASE g \notin S
      BY <2>0, <2>2, <3>3
    <3>. QED
      BY <3>2, <3>3
  <2>3. CASE Good(g) /\ g \notin S
    <3>1. f[m] = f[g]
      BY <2>0, <2>3
    <3>2. \A x \in Frames : x < m /\ x \in S <=> x < g /\ x \in S
      BY <2>1, <2>3
    <3>. QED
      BY <2>3, <3>1, <3>2
  <2>4. CASE Good(g) /\ g \in S
    <3>1. PICK A, B : A = f[g] /\ B = f[m] /\ B = FreeFrame(A, g)
      BY <2>0, <2>4
    <3>2. /\ Sound(A, D) /\ Typed(A) /\ SameWorld(A, M) /\ M.strayed # TRUE
          /\ \A x \in Frames : A.frame[x] = IF x < g /\ x \in S THEN Unmapped ELSE M.frame[x]
      BY <2>4, <3>1 DEF Sound
    <3>3. A.frame[g] = M.frame[g]
      BY <2>0, <3>2 DEF Frames
    <3>4. IsPage(A, g)
      BY <2>4, <3>3 DEF IsPage, PagesOf
    <3>5. CASE B.strayed
      <4>1. IsRecord(B) /\ B.strayed = TRUE
        BY <3>1, <3>2, <3>5 DEF FreeFrame, Fields, Typed, IsRecord
      <4>. QED
        BY <3>1, <4>1
    <3>6. CASE ~B.strayed
      <4>1. Sound(B, D)
        BY <2>0, <3>1, <3>2, <3>4, <3>6, FreeFrameKeeps
      <4>2. SameWorld(B, A) /\ \A x \in Frames : B.frame[x] = IF x = g THEN Unmapped ELSE A.frame[x]
        <5>1. Typed(A) /\ B = FreeFrame(A, g) /\ ~B.strayed
          BY <3>1, <3>2, <3>6
        <5>2. Freed(B, A, g)
          BY <3>4, <5>1, FreeFrameFields
        <5>. QED
          BY <5>1, <5>2 DEF Freed, Typed
      <4>3. SameWorld(B, M)
        BY <3>2, <4>2 DEF SameWorld
      <4>4. \A x \in Frames : B.frame[x] = IF x < m /\ x \in S THEN Unmapped ELSE M.frame[x]
        BY <2>0, <2>1, <2>4, <3>2, <4>2 DEF Typed
      <4>5. Good(m)
        BY <3>1, <3>2, <3>6, <4>1, <4>3, <4>4
      <4>. QED
        BY <4>5
    <3>. QED
      BY <3>5, <3>6
  <2>. QED
    BY <1>4, <2>2, <2>3, <2>4
<1>5. Lost(NFRAMES) \/ Good(NFRAMES)
  <2>. HIDE DEF Lost, Good
  <2>1. PICK F : F = {m \in 0..NFRAMES : Lost(m) \/ Good(m)}
    OBVIOUS
  <2>2. 0 \in F /\ \A m \in 1..NFRAMES : m - 1 \in F => m \in F
    BY <1>0, <1>3, <1>4, <2>1
  <2>3. NFRAMES \in F
    BY <1>0, <2>2, UpToTheLast
  <2>. QED
    BY <2>1, <2>3
<1>6. Good(NFRAMES)
  BY <1>1, <1>5
<1>7. \A g \in Frames : ~(IsPage(N, g) /\ N.frame[g].pid = p)
  <2>1. \A g \in Frames : g < NFRAMES
    BY <1>0 DEF Frames
  <2>2. \A g \in Frames : N.frame[g] = IF g \in S THEN Unmapped ELSE M.frame[g]
    BY <1>1, <1>6, <2>1
  <2>. QED
    BY <2>2, UnmappedFacts DEF IsPage, PagesOf
<1>. QED
  BY <1>1, <1>6, <1>7 DEF PagesOf, IsPage

-------------------------------------------------------------------------------
(***************************************************************************)
(* Replacement.                                                            *)
(***************************************************************************)
\* N is M when pages have lost their second chance and sc_index has moved.
Touched(N, M) ==
  /\ IsRecord(N) /\ SameWorld(N, M) /\ ~M.strayed /\ ~N.strayed
  /\ N.content = M.content /\ N.fifo = M.fifo /\ N.pages = M.pages
  /\ N.pt = M.pt /\ N.store = M.store
  /\ M.index # NONE /\ N.index \in Frames
  /\ N.frame \in [Frames -> FrameEntry]
  /\ \A f \in Frames :
       /\ ~IsPage(M, f) => N.frame[f] = M.frame[f]
       /\ N.frame[f].type = M.frame[f].type
       /\ N.frame[f].pid = M.frame[f].pid /\ N.frame[f].vpno = M.frame[f].vpno

\* Nothing else depends on what second chance touches.
LEMMA TouchedKeeps ==
  ASSUME NEW M, NEW D, Sound(M, D), NEW N, Touched(N, M)
  PROVE  Sound(N, D)
<1>0. Typed(M) /\ Framed(M) /\ Directed(M) /\ Queued(M) /\ Stored(M) /\ Apart(M) /\ Fresh(M, D)
  BY DEF Sound
<1>1. /\ N.policy = M.policy /\ N.pd = M.pd /\ N.dirty = M.dirty /\ N.bsm = M.bsm
      /\ N.currpid = M.currpid /\ N.alive = M.alive
      /\ N.content = M.content /\ N.fifo = M.fifo /\ N.pages = M.pages
      /\ N.pt = M.pt /\ N.store = M.store /\ M.index # NONE /\ N.index \in Frames
  BY DEF Touched, SameWorld
<1>2. ASSUME NEW f \in Frames
      PROVE  /\ IsPage(N, f) <=> IsPage(M, f)
             /\ ~IsPage(M, f) => N.frame[f] = M.frame[f]
             /\ N.frame[f].type = M.frame[f].type
             /\ N.frame[f].pid = M.frame[f].pid /\ N.frame[f].vpno = M.frame[f].vpno
             /\ Home(N, f) = Home(M, f) /\ (IsDirty(N, f) <=> IsDirty(M, f))
  <2>1. /\ ~IsPage(M, f) => N.frame[f] = M.frame[f]
        /\ N.frame[f].type = M.frame[f].type
        /\ N.frame[f].pid = M.frame[f].pid /\ N.frame[f].vpno = M.frame[f].vpno
    BY DEF Touched
  <2>2. Home(N, f) = Home(M, f)
    BY <1>1, <2>1, HomeCarries
  <2>. QED
    BY <1>1, <2>1, <2>2 DEF IsPage, IsDirty
<1>3. Typed(N)
  <2>1. IsRecord(N) /\ N.frame \in [Frames -> FrameEntry]
    BY DEF Touched
  <2>. QED
    BY <1>0, <1>1, <2>1 DEF Typed
<1>4. Stored(N) /\ Apart(N) /\ (\A s : Users(N, s) = Users(M, s))
  BY <1>0, <1>1, MappingsCarry
<1>5. Framed(N)
  <2>1. ASSUME NEW f \in Frames
        PROVE  LET fr == N.frame[f]
               IN  /\ fr.type = "UNMAPPED" => fr = Unmapped
                   /\ fr.type = "DIR" => fr = Owned("DIR", fr.pid) /\ fr.pid \in N.alive
                   /\ fr.type = "TBL" => fr = Owned("TBL", fr.pid)
                   /\ fr.type = "PAGE" => /\ fr.pid \in N.alive /\ fr.vpno \in VPages
                                          /\ N.pt[fr.pid][fr.vpno] = f
    BY <1>0, <1>1, <1>2 DEF Framed, IsPage
  <2>2. ASSUME NEW q \in Procs, NEW w \in VPages, N.pt[q][w] # NONE
        PROVE  /\ q \in N.alive /\ N.pd[q][w \div NPTE] # NONE
               /\ IsPage(N, N.pt[q][w]) /\ N.frame[N.pt[q][w]].pid = q
               /\ N.frame[N.pt[q][w]].vpno = w
    <3>1. M.pt[q][w] \in Frames
      BY <1>0, <1>1, <2>2 DEF Typed
    <3>2. /\ q \in M.alive /\ M.pd[q][w \div NPTE] # NONE
          /\ IsPage(M, M.pt[q][w]) /\ M.frame[M.pt[q][w]].pid = q
          /\ M.frame[M.pt[q][w]].vpno = w
      BY <1>0, <1>1, <2>2 DEF Framed
    <3>. QED
      BY <1>1, <1>2, <3>1, <3>2
  <2>. QED
    BY <2>1, <2>2 DEF Framed
<1>6. Directed(N)
  <2>1. \A g \in Frames : \A q : /\ N.frame[g] = Owned("DIR", q) <=> M.frame[g] = Owned("DIR", q)
                                 /\ M.frame[g] = Owned("TBL", q) => N.frame[g] = Owned("TBL", q)
    BY <1>2, UnmappedFacts DEF IsPage
  <2>2. \A q \in M.alive, t \in Tables : M.pd[q][t] # NONE => M.pd[q][t] \in Frames
    BY <1>0 DEF Typed
  <2>. QED
    BY <1>0, <1>1, <2>1, <2>2 DEF Directed
<1>7. Queued(N)
  <2>1. {f \in Frames : IsPage(N, f)} = {f \in Frames : IsPage(M, f)}
    BY <1>2
  <2>2. HoldsIn(Frames, N.fifo, {f \in Frames : IsPage(N, f)})
    BY <1>0, <1>1, <2>1 DEF Queued
  <2>3. M.fifo # <<>> /\ N.index # NONE
    BY <1>0, <1>1, Sizes DEF Queued
  <2>. QED
    BY <1>0, <1>1, <2>2, <2>3 DEF Queued
<1>8. ASSUME NEW k \in StorePages \ D PROVE FreshPage(N, k)
  <2>1. \A f \in Frames : /\ Counts(N, f, k) <=> Counts(M, f, k)
                          /\ Ahead(N, f, k) <=> Ahead(M, f, k)
    BY <1>1, <1>2 DEF Counts, Ahead
  <2>2. FreshPage(M, k)
    BY <1>0 DEF Fresh
  <2>. QED
    BY <1>1, <1>4, <2>1, <2>2 DEF FreshPage
<1>. QED
  BY <1>3, <1>4, <1>5, <1>6, <1>7, <1>8 DEF Sound, Fresh

\* Counting on round the frame table leads to a frame.
LEMMA AfterIsFrame ==
  ASSUME NEW f \in Int, NEW k \in Int
  PROVE  After(f, k) \in Frames
BY Sizes DEF After, Frames

\* update_sc_index() moves sc_index to a frame.
LEMMA UpdateScIndexMoves ==
  ASSUME NEW M, IsRecord(M), M.index \in Frames
  PROVE  \E i \in Frames : UpdateScIndex(M) = [M EXCEPT !.index = i]
<1>. PICK later : later = {k \in 1..NFRAMES - 1 : IsPage(M, After(M.index, k))}
  OBVIOUS
<1>1. CASE later = {}
  <2>1. M = [M EXCEPT !.index = M.index]
    BY DEF IsRecord, Fields
  <2>. QED
    BY <1>1, <2>1 DEF UpdateScIndex
<1>2. CASE later # {}
  <2>1. Min(later) \in later
    BY <1>2, Sizes, MinIsLeast
  <2>2. After(M.index, Min(later)) \in Frames
    <3>1. M.index \in Int /\ Min(later) \in Int
      BY <2>1, Sizes DEF Frames
    <3>. QED
      BY <3>1, AfterIsFrame
  <2>3. UpdateScIndex(M) = [M EXCEPT !.index = After(M.index, Min(later))]
    BY <1>2 DEF UpdateScIndex
  <2>. QED
    BY <2>2, <2>3
<1>. QED
  BY <1>1, <1>2

\* The second chance takes it from pages, and changes nothing else of them.
LEMMA SecondChanceTouches ==
  ASSUME NEW M, NEW D, Sound(M, D), ~M.strayed, M.fifo # <<>>
  PROVE  SecondChance(M).f \in Frames /\ Touched(SecondChance(M).M, M)
<1>. DEFINE taken == {k \in 0..NFRAMES - 1 :
                        IsPage(M, After(M.index, k)) /\ ~M.frame[After(M.index, k)].sc}
            last == IF taken = {} THEN NFRAMES ELSE Min(taken)
            passed == {After(M.index, k) : k \in 0..last - 1}
            frames == [f \in Frames |-> IF f \in passed /\ IsPage(M, f)
                                        THEN [M.frame[f] EXCEPT !.sc = FALSE] ELSE M.frame[f]]
            cleared == [M EXCEPT !.frame = frames]
            victim == IF taken = {} THEN M.index ELSE After(M.index, last)
<1>0. Typed(M) /\ Queued(M) /\ IsRecord(M) /\ M.index \in Frames /\ M.index \in Int
  BY Sizes DEF Sound, Typed, Queued, Frames
<1>1. SecondChance(M).f = victim /\ SecondChance(M).M = UpdateScIndex(cleared)
  <2>1. cleared = [M EXCEPT !.frame = [f \in Frames |->
               IF f \in passed /\ IsPage(M, f) THEN [@[f] EXCEPT !.sc = FALSE] ELSE @[f]]]
    BY <1>0 DEF IsRecord, Fields
  <2>. QED
    BY <2>1 DEF SecondChance
<1>2. victim \in Frames
  <2>1. CASE taken # {}
    <3>1. taken \in SUBSET Nat
      OBVIOUS
    <3>2. Min(taken) \in taken
      BY <2>1, <3>1, MinIsLeast
    <3>. QED
      BY <1>0, <2>1, <3>2, AfterIsFrame
  <2>. QED
    BY <1>0, <2>1
<1>3. /\ frames \in [Frames -> FrameEntry]
      /\ \A f \in Frames :
           /\ ~IsPage(M, f) => frames[f] = M.frame[f]
           /\ frames[f].type = M.frame[f].type
           /\ frames[f].pid = M.frame[f].pid /\ frames[f].vpno = M.frame[f].vpno
  <2>. HIDE DEF passed
  <2>1. ASSUME NEW f \in Frames
        PROVE  /\ frames[f] \in FrameEntry
               /\ ~IsPage(M, f) => frames[f] = M.frame[f]
               /\ frames[f].type = M.frame[f].type
               /\ frames[f].pid = M.frame[f].pid /\ frames[f].vpno = M.frame[f].vpno
    <3>1. M.frame[f] \in FrameEntry
      BY <1>0, FrameFields
    <3>2. /\ [M.frame[f] EXCEPT !.sc = FALSE] \in FrameEntry
          /\ [M.frame[f] EXCEPT !.sc = FALSE].type = M.frame[f].type
          /\ [M.frame[f] EXCEPT !.sc = FALSE].pid = M.frame[f].pid
          /\ [M.frame[f] EXCEPT !.sc = FALSE].vpno = M.frame[f].vpno
      BY <3>1 DEF FrameEntry
    <3>3. frames[f] = IF f \in passed /\ IsPage(M, f)
                      THEN [M.frame[f] EXCEPT !.sc = FALSE] ELSE M.frame[f]
      OBVIOUS
    <3>. QED
      BY <3>1, <3>2, <3>3
  <2>. QED
    BY <2>1
<1>. HIDE DEF frames
<1>4. IsRecord(cleared) /\ cleared.index = M.index
  BY <1>0 DEF IsRecord, Fields
<1>5. PICK i \in Frames : UpdateScIndex(cleared) = [cleared EXCEPT !.index = i]
  BY <1>0, <1>4, UpdateScIndexMoves
<1>6. PICK N : N = [M EXCEPT !.frame = frames, !.index = i]
  OBVIOUS
<1>7. SecondChance(M).M = N
  BY <1>0, <1>1, <1>5, <1>6 DEF IsRecord, Fields
<1>8. /\ IsRecord(N) /\ SameWorld(N, M) /\ ~N.strayed
      /\ N.content = M.content /\ N.fifo = M.fifo /\ N.pages = M.pages
      /\ N.pt = M.pt /\ N.store = M.store /\ N.index = i /\ N.frame = frames
  BY <1>0, <1>6 DEF IsRecord, Fields, SameWorld
<1>9. Touched(N, M)
  BY <1>0, <1>3, <1>8, Sizes DEF Touched
<1>. QED
  BY <1>1, <1>2, <1>7, <1>9

\* The frame to be replaced, if the source says which: the others stay as they are.
LEMMA GetPageToReplaceFinds ==
  ASSUME NEW M, NEW D, Sound(M, D), ~M.strayed,
         NEW V, V = GetPageToReplace(M), ~V.M.strayed
  PROVE  V.f \in Frames /\ Sound(V.M, D) /\ SameWorld(V.M, M) /\ V.M.pt = M.pt
<1>0. Typed(M)
  BY DEF Sound
<1>1. M.fifo # <<>>
  BY <1>0 DEF GetPageToReplace, Stray, Typed, IsRecord, Fields
<1>2. CASE M.policy = "FIFO"
  <2>1. V = [f |-> Head(M.fifo), M |-> M]
    BY <1>1, <1>2 DEF GetPageToReplace
  <2>2. Head(M.fifo) \in Frames
    BY <1>0, <1>1 DEF Typed
  <2>. QED
    BY <2>1, <2>2 DEF SameWorld
<1>3. CASE M.policy # "FIFO"
  <2>1. V = SecondChance(M)
    BY <1>1, <1>3 DEF GetPageToReplace
  <2>2. V.f \in Frames /\ Touched(V.M, M)
    BY <1>1, <2>1, SecondChanceTouches
  <2>. QED
    BY <2>2, TouchedKeeps DEF Touched
<1>. QED
  BY <1>2, <1>3

\* get_frm(): a frame that is free, or that the page has been taken out of.
LEMMA GetFrameFinds ==
  ASSUME NEW M, NEW D, Sound(M, D), NEW G, G = GetFrame(M), ~G.M.strayed
  PROVE  /\ G.f \in Frames /\ G.M.frame[G.f] = Unmapped
         /\ Sound(G.M, D) /\ SameWorld(G.M, M) /\ ~M.strayed
         /\ \A p \in Procs, v \in VPages : G.M.pt[p][v] # NONE => G.M.pt[p][v] = M.pt[p][v]
<1>. DEFINE free == {f \in Frames : M.frame[f].type = "UNMAPPED"}
<1>0. Typed(M) /\ Framed(M) /\ IsRecord(M) /\ Stray(M).M.strayed
  BY DEF Sound, Typed, Stray, IsRecord, Fields
<1>1. ~M.strayed
  BY DEF GetFrame, Stray, Sound, Typed, IsRecord, Fields
<1>2. CASE free # {}
  <2>1. G = [f |-> Min(free), M |-> M]
    BY <1>1, <1>2 DEF GetFrame
  <2>2. free \in SUBSET Nat
    BY Sizes DEF Frames
  <2>3. Min(free) \in free
    BY <1>2, <2>2, MinIsLeast
  <2>4. Min(free) \in Frames /\ M.frame[Min(free)] = Unmapped
    BY <1>0, <2>3 DEF Framed
  <2>. QED
    BY <1>1, <2>1, <2>4 DEF SameWorld
<1>3. CASE free = {}
  <2>. PICK V : V = GetPageToReplace(M)
    OBVIOUS
  <2>1. CASE V.M.strayed
    <3>1. G = V
      BY <1>1, <1>3, <2>1 DEF GetFrame
    <3>. QED
      BY <2>1, <3>1
  <2>2. CASE ~V.M.strayed
    <3>1. V.f \in Frames /\ Sound(V.M, D) /\ SameWorld(V.M, M) /\ V.M.pt = M.pt
      BY <1>1, <2>2, GetPageToReplaceFinds
    <3>2. CASE ~IsPage(V.M, V.f)
      <4>1. G = Stray(M)
        BY <1>1, <1>3, <2>2, <3>2 DEF GetFrame
      <4>. QED
        BY <1>0, <4>1
    <3>3. CASE IsPage(V.M, V.f)
      <4>. PICK A, f, N : A = V.M /\ f = V.f /\ N = FreeFrame(A, f)
        OBVIOUS
      <4>1. G = [f |-> f, M |-> N]
        BY <1>1, <1>3, <2>2, <3>3 DEF GetFrame
      <4>2. Sound(N, D) /\ Freed(N, A, f) /\ Typed(A)
        BY <3>1, <3>3, <4>1, FreeFrameKeeps, FreeFrameFields DEF Sound
      <4>3. N.frame[f] = Unmapped /\ SameWorld(N, M)
        BY <3>1, <4>2 DEF Freed, Typed, SameWorld
      <4>4. ASSUME NEW p \in Procs, NEW v \in VPages, N.pt[p][v] # NONE
            PROVE  N.pt[p][v] = M.pt[p][v]
        <5>4. N.pt[p][v] = A.pt[p][v]
          BY <4>2, <4>4, FreedEntries
        <5>. QED
          BY <3>1, <5>4
      <4>. QED
        BY <1>1, <3>1, <4>1, <4>2, <4>3, <4>4
    <3>. QED
      BY <3>2, <3>3
  <2>. QED
    BY <2>1, <2>2
<1>. QED
  BY <1>2, <1>3

-------------------------------------------------------------------------------
(***************************************************************************)
(* Frames for directories and page tables, and the page fault.             *)
(***************************************************************************)
\* Whether what was last written is kept depends on the frames with pages only.
LEMMA FreshCarries ==
  ASSUME NEW M, NEW N, NEW D, Fresh(M, D),
         N.bsm = M.bsm, N.currpid = M.currpid, N.store = M.store,
         \A f \in Frames : IsPage(N, f) <=> IsPage(M, f),
         \A f \in Frames : IsPage(M, f) =>
           /\ N.frame[f].pid = M.frame[f].pid /\ N.frame[f].vpno = M.frame[f].vpno
           /\ N.content[f] = M.content[f] /\ (IsDirty(N, f) <=> IsDirty(M, f))
  PROVE  Fresh(N, D)
<1>1. ASSUME NEW k \in StorePages \ D PROVE FreshPage(N, k)
  <2>1. FreshPage(M, k)
    BY DEF Fresh
  <2>2. ASSUME NEW f \in Frames
        PROVE  /\ Counts(N, f, k) <=> Counts(M, f, k)
               /\ Ahead(N, f, k) <=> Ahead(M, f, k)
               /\ Counts(M, f, k) => N.content[f] = M.content[f]
    <3>1. CASE IsPage(M, f)
      <4>1. Home(N, f) = Home(M, f)
        BY <3>1, HomeCarries
      <4>. QED
        BY <3>1, <4>1 DEF Counts, Ahead
    <3>2. CASE ~IsPage(M, f)
      BY <3>2 DEF Counts, Ahead
    <3>. QED
      BY <3>1, <3>2
  <2>3. Users(N, k[1]) = Users(M, k[1])
    BY DEF Users
  <2>. QED
    BY <2>1, <2>2, <2>3 DEF FreshPage
<1>. QED
  BY <1>1 DEF Fresh

\* The page tables that lead to pages are in the directory.
LEMMA TableOfPage ==
  ASSUME NEW v \in VPages
  PROVE  v \div NPTE \in Tables
BY DEF Tables

\* N is X with frame f made a page table for page v of process p.
Tabled(N, X, p, v, f) ==
  /\ IsRecord(N) /\ N.policy = X.policy /\ N.bsm = X.bsm /\ N.currpid = X.currpid
  /\ N.alive = X.alive /\ N.strayed = X.strayed
  /\ N.content = X.content /\ N.fifo = X.fifo /\ N.index = X.index /\ N.pages = X.pages
  /\ N.store = X.store
  /\ N.frame = [X.frame EXCEPT ![f] = Owned("TBL", p)]
  /\ N.pd = [X.pd EXCEPT ![p] = [@ EXCEPT ![v \div NPTE] = f]]
  /\ N.pt = [X.pt EXCEPT ![p] = [w \in VPages |-> IF w \div NPTE = v \div NPTE THEN NONE ELSE @[w]]]
  /\ N.dirty = [X.dirty EXCEPT ![p] = {w \in @ : ~(w \div NPTE = v \div NPTE)}]

\* A new page table is nobody else's, and has no pages yet.
LEMMA TabledKeeps ==
  ASSUME NEW X, NEW D, Sound(X, D), NEW p \in X.alive, NEW v \in VPages,
         X.pd[p][v \div NPTE] = NONE, NEW f \in Frames, X.frame[f] = Unmapped,
         NEW N, Tabled(N, X, p, v, f)
  PROVE  Sound(N, D) /\ N.pt = X.pt /\ N.pd[p][v \div NPTE] # NONE
<1>. PICK t \in Tables : t = v \div NPTE
  BY TableOfPage
<1>0. Typed(X) /\ Framed(X) /\ Directed(X) /\ Queued(X) /\ Stored(X) /\ Apart(X) /\ Fresh(X, D)
  BY DEF Sound
<1>1. /\ IsRecord(N) /\ N.policy = X.policy /\ N.bsm = X.bsm /\ N.currpid = X.currpid
      /\ N.alive = X.alive
      /\ N.content = X.content /\ N.fifo = X.fifo /\ N.index = X.index /\ N.pages = X.pages
      /\ N.store = X.store
      /\ N.frame = [X.frame EXCEPT ![f] = Owned("TBL", p)]
      /\ N.pd = [X.pd EXCEPT ![p] = [@ EXCEPT ![t] = f]]
      /\ N.pt = [X.pt EXCEPT ![p] = [w \in VPages |-> IF w \div NPTE = t THEN NONE ELSE @[w]]]
      /\ N.dirty = [X.dirty EXCEPT ![p] = {w \in @ : ~(w \div NPTE = t)}]
  BY DEF Tabled
<1>2. p \in Procs /\ p \in X.alive
  BY <1>0 DEF Typed
<1>3. \A w \in VPages : X.pt[p][w] # NONE => w \div NPTE # t
  BY <1>0, <1>2 DEF Framed
<1>4. N.pt = X.pt
  <2>1. X.pt \in [Procs -> [VPages -> Frames \cup {NONE}]]
    BY <1>0 DEF Typed
  <2>2. X.pt[p] = [w \in VPages |-> IF w \div NPTE = t THEN NONE ELSE X.pt[p][w]]
    <3>1. X.pt[p] = [w \in VPages |-> X.pt[p][w]]
      BY <1>2, <2>1
    <3>. QED
      BY <1>3, <3>1
  <2>3. N.pt = [X.pt EXCEPT ![p] = X.pt[p]]
    BY <1>1, <2>2
  <2>. QED
    BY <2>1, <2>3
<1>5. /\ N.dirty \in [Procs -> SUBSET VPages]
      /\ \A q \in Procs, w \in VPages : X.pt[q][w] # NONE => (w \in N.dirty[q] <=> w \in X.dirty[q])
  <2>1. X.dirty \in [Procs -> SUBSET VPages]
    BY <1>0 DEF Typed
  <2>2. N.dirty = [X.dirty EXCEPT ![p] = {w \in X.dirty[p] : ~(w \div NPTE = t)}]
    BY <1>1
  <2>3. X.dirty[p] \in SUBSET VPages
    BY <1>2, <2>1
  <2>4. \A q \in Procs : N.dirty[q] = IF q = p THEN {w \in X.dirty[p] : ~(w \div NPTE = t)} ELSE X.dirty[q]
    BY <1>2, <2>1, <2>2
  <2>5. {w \in X.dirty[p] : ~(w \div NPTE = t)} \in SUBSET VPages
    BY <2>3
  <2>6. N.dirty \in [Procs -> SUBSET VPages]
    BY <2>1, <2>2, <2>5
  <2>. QED
    BY <1>3, <2>4, <2>6
<1>6. /\ N.frame \in [Frames -> FrameEntry] /\ N.frame[f] = Owned("TBL", p)
      /\ \A g \in Frames : g # f => N.frame[g] = X.frame[g]
      /\ \A g \in Frames : IsPage(N, g) <=> IsPage(X, g)
      /\ ~IsPage(X, f)
  <2>1. X.frame \in [Frames -> FrameEntry] /\ Owned("TBL", p) \in FrameEntry
    BY <1>0, <1>2, UnmappedFacts DEF Typed
  <2>2. N.frame \in [Frames -> FrameEntry] /\ N.frame[f] = Owned("TBL", p)
        /\ \A g \in Frames : g # f => N.frame[g] = X.frame[g]
    BY <1>1, <2>1
  <2>. QED
    BY <2>2, UnmappedFacts DEF IsPage
<1>7. /\ N.pd \in [Procs -> [Tables -> Frames \cup {NONE}]]
      /\ \A q \in Procs, u \in Tables : N.pd[q][u] = IF q = p /\ u = t THEN f ELSE X.pd[q][u]
  <2>1. X.pd \in [Procs -> [Tables -> Frames \cup {NONE}]]
    BY <1>0 DEF Typed
  <2>2. N.pd = [X.pd EXCEPT ![p] = [X.pd[p] EXCEPT ![t] = f]]
    BY <1>1
  <2>3. X.pd[p] \in [Tables -> Frames \cup {NONE}]
    BY <1>2, <2>1
  <2>4. [X.pd[p] EXCEPT ![t] = f] \in [Tables -> Frames \cup {NONE}]
    BY <2>3
  <2>5. \A q \in Procs : N.pd[q] = IF q = p THEN [X.pd[p] EXCEPT ![t] = f] ELSE X.pd[q]
    BY <2>1, <2>2
  <2>6. N.pd \in [Procs -> [Tables -> Frames \cup {NONE}]]
    BY <2>1, <2>2, <2>4
  <2>7. \A u \in Tables : [X.pd[p] EXCEPT ![t] = f][u] = IF u = t THEN f ELSE X.pd[p][u]
    BY <2>3
  <2>. QED
    BY <2>5, <2>6, <2>7
<1>8. Typed(N)
  BY <1>0, <1>1, <1>4, <1>5, <1>6, <1>7 DEF Typed
<1>9. Stored(N) /\ Apart(N)
  BY <1>0, <1>1, MappingsCarry
<1>10. Framed(N)
  <2>1. ASSUME NEW g \in Frames
        PROVE  LET fr == N.frame[g]
               IN  /\ fr.type = "UNMAPPED" => fr = Unmapped
                   /\ fr.type = "DIR" => fr = Owned("DIR", fr.pid) /\ fr.pid \in N.alive
                   /\ fr.type = "TBL" => fr = Owned("TBL", fr.pid)
                   /\ fr.type = "PAGE" => /\ fr.pid \in N.alive /\ fr.vpno \in VPages
                                          /\ N.pt[fr.pid][fr.vpno] = g
    <3>1. CASE g = f
      BY <1>6, <3>1, UnmappedFacts
    <3>2. CASE g # f
      <4>1. N.frame[g] = X.frame[g]
        BY <1>6, <3>2
      <4>. QED
        BY <1>0, <1>1, <1>4, <4>1 DEF Framed
    <3>. QED
      BY <3>1, <3>2
  <2>2. ASSUME NEW q \in Procs, NEW w \in VPages, N.pt[q][w] # NONE
        PROVE  /\ q \in N.alive /\ N.pd[q][w \div NPTE] # NONE
               /\ IsPage(N, N.pt[q][w]) /\ N.frame[N.pt[q][w]].pid = q
               /\ N.frame[N.pt[q][w]].vpno = w
    <3>1. N.pt[q][w] = X.pt[q][w] /\ X.pt[q][w] \in Frames
      BY <1>0, <1>4, <2>2 DEF Typed
    <3>2. /\ q \in X.alive /\ X.pd[q][w \div NPTE] # NONE
          /\ IsPage(X, X.pt[q][w]) /\ X.frame[X.pt[q][w]].pid = q
          /\ X.frame[X.pt[q][w]].vpno = w
      BY <1>0, <2>2, <3>1 DEF Framed
    <3>3. X.pt[q][w] # f
      BY <1>6, <3>2
    <3>4. N.pd[q][w \div NPTE] # NONE
      BY <1>7, <3>2, TableOfPage, Sizes
    <3>. QED
      BY <1>1, <1>6, <3>1, <3>2, <3>3, <3>4
  <2>. QED
    BY <2>1, <2>2 DEF Framed
<1>11. Directed(N)
  <2>1. \A g \in Frames : \A q : /\ N.frame[g] = Owned("DIR", q) <=> X.frame[g] = Owned("DIR", q)
                                 /\ X.frame[g] = Owned("TBL", q) => N.frame[g] = Owned("TBL", q) /\ g # f
    BY <1>6, UnmappedFacts
  <2>2. \A q \in X.alive, u \in Tables : X.pd[q][u] # NONE =>
          X.pd[q][u] \in Frames /\ N.frame[X.pd[q][u]] = Owned("TBL", q) /\ X.pd[q][u] # f
    <3>1. \A q \in X.alive, u \in Tables : X.pd[q][u] # NONE =>
            X.pd[q][u] \in Frames /\ X.frame[X.pd[q][u]] = Owned("TBL", q)
      BY <1>0 DEF Typed, Directed
    <3>. QED
      BY <2>1, <3>1
  <2>3. \A q \in N.alive : \E g \in Frames : \A h \in Frames :
          N.frame[h] = Owned("DIR", q) <=> h = g
    BY <1>0, <1>1, <2>1 DEF Directed
  <2>4. ASSUME NEW q \in N.alive, NEW u \in Tables, N.pd[q][u] # NONE
        PROVE  /\ N.frame[N.pd[q][u]] = Owned("TBL", q)
               /\ \A x \in Tables \ {u} : N.pd[q][x] # N.pd[q][u]
    <3>0. q \in Procs /\ q \in X.alive
      BY <1>0, <1>1 DEF Typed
    <3>1. \A x \in Tables : N.pd[q][x] = IF q = p /\ x = t THEN f ELSE X.pd[q][x]
      BY <1>7, <3>0
    <3>2. \A x \in Tables : X.pd[q][x] # NONE =>
            N.frame[X.pd[q][x]] = Owned("TBL", q) /\ X.pd[q][x] # f
      BY <2>2, <3>0
    <3>3. \A x, y \in Tables : X.pd[q][x] # NONE /\ y # x => X.pd[q][y] # X.pd[q][x]
      BY <1>0, <3>0 DEF Directed
    <3>. QED
      BY <1>6, <2>4, <3>1, <3>2, <3>3, Sizes
  <2>. QED
    BY <2>3, <2>4 DEF Directed
<1>12. Queued(N)
  <2>1. {g \in Frames : IsPage(N, g)} = {g \in Frames : IsPage(X, g)}
    BY <1>6
  <2>. QED
    BY <1>0, <1>1, <2>1 DEF Queued
<1>13. Fresh(N, D)
  <2>1. ASSUME NEW g \in Frames, IsPage(X, g)
        PROVE  /\ N.frame[g].pid = X.frame[g].pid /\ N.frame[g].vpno = X.frame[g].vpno
               /\ N.content[g] = X.content[g] /\ (IsDirty(N, g) <=> IsDirty(X, g))
    <3>1. N.frame[g] = X.frame[g]
      BY <1>6, <2>1
    <3>2. /\ X.frame[g].pid \in Procs /\ X.frame[g].vpno \in VPages
          /\ X.pt[X.frame[g].pid][X.frame[g].vpno] = g
      BY <1>0, <2>1, PageFacts
    <3>3. X.pt[X.frame[g].pid][X.frame[g].vpno] # NONE
      BY <3>2, Sizes
    <3>. QED
      BY <1>1, <1>5, <3>1, <3>2, <3>3 DEF IsDirty
  <2>. QED
    BY <1>0, <1>1, <1>6, <2>1, FreshCarries
<1>14. N.pd[p][t] # NONE
  BY <1>2, <1>7, Sizes
<1>. QED
  BY <1>4, <1>8, <1>9, <1>10, <1>11, <1>12, <1>13, <1>14 DEF Sound

\* Whether or not the source says more, get_frm() works on the tables.
LEMMA GetFrameRecord ==
  ASSUME NEW M, NEW D, Sound(M, D)
  PROVE  IsRecord(GetFrame(M).M) /\ GetFrame(M) = [f |-> GetFrame(M).f, M |-> GetFrame(M).M]
<1>. PICK V, G : V = GetPageToReplace(M) /\ G = GetFrame(M)
  OBVIOUS
<1>0. Typed(M) /\ IsRecord(M)
  BY DEF Sound, Typed
<1>1. IsRecord(Stray(M).M) /\ Stray(M) = [f |-> Stray(M).f, M |-> Stray(M).M]
  BY <1>0 DEF Stray, IsRecord, Fields
<1>2. CASE M.strayed
  BY <1>1, <1>2 DEF GetFrame
<1>3. CASE ~M.strayed
  <2>1. IsRecord(V.M) /\ V = [f |-> V.f, M |-> V.M]
    <3>1. CASE M.fifo = <<>>
      BY <1>1, <3>1 DEF GetPageToReplace
    <3>2. CASE M.fifo # <<>> /\ M.policy = "FIFO"
      BY <1>0, <3>2 DEF GetPageToReplace
    <3>3. CASE M.fifo # <<>> /\ M.policy # "FIFO"
      <4>1. V = SecondChance(M)
        BY <3>3 DEF GetPageToReplace
      <4>2. IsRecord(V.M)
        BY <1>3, <3>3, <4>1, SecondChanceTouches DEF Touched
      <4>3. V = [f |-> V.f, M |-> V.M]
        BY <4>1 DEF SecondChance
      <4>. QED
        BY <4>2, <4>3
    <3>. QED
      BY <3>1, <3>2, <3>3
  <2>2. \/ G = Stray(M)
        \/ \E f : G = [f |-> f, M |-> M]
        \/ G = V
        \/ \E f : G = [f |-> f, M |-> FreeFrame(V.M, f)]
    BY DEF GetFrame
  <2>3. \A f : IsRecord(FreeFrame(V.M, f))
    BY <2>1, FreeFrameStrays
  <2>. QED
    BY <1>0, <1>1, <2>1, <2>2, <2>3
<1>. QED
  BY <1>2, <1>3

\* A page table, if one has to be made, takes no more than a page from anybody.
LEMMA WithPageTableKeeps ==
  ASSUME NEW M, NEW D, Sound(M, D), NEW p \in M.alive, NEW v \in VPages,
         NEW N, N = WithPageTable(M, p, v)
  PROVE  /\ IsRecord(N)
         /\ ~N.strayed =>
              /\ Sound(N, D) /\ N.pd[p][v \div NPTE] # NONE
              /\ N.policy = M.policy /\ N.bsm = M.bsm /\ N.currpid = M.currpid /\ N.alive = M.alive
              /\ \A q \in Procs, w \in VPages : N.pt[q][w] # NONE => N.pt[q][w] = M.pt[q][w]
<1>1. CASE M.pd[p][v \div NPTE] # NONE
  BY <1>1 DEF WithPageTable, Sound, Typed
<1>2. CASE M.pd[p][v \div NPTE] = NONE
  <2>. PICK G, f, X : G = GetFrame(M) /\ f = G.f /\ X = G.M
    OBVIOUS
  <2>. PICK Y : Y = [X EXCEPT !.frame[f] = Owned("TBL", p)]
    OBVIOUS
  <2>0. IsRecord(X) /\ G = [f |-> f, M |-> X]
    BY GetFrameRecord
  <2>1. Allocate(M, p, "TBL").f = f /\ Allocate(M, p, "TBL").M = Y
    BY <2>0 DEF Allocate
  <2>2. N = [Y EXCEPT !.pd[p][v \div NPTE] = f,
               !.pt[p] = [w \in VPages |-> IF w \div NPTE = v \div NPTE THEN NONE ELSE @[w]],
               !.dirty[p] = {w \in @ : ~(w \div NPTE = v \div NPTE)}]
    BY <1>2, <2>1 DEF WithPageTable
  <2>3. Tabled(N, X, p, v, f)
    <3>1. /\ IsRecord(Y) /\ Y.frame = [X.frame EXCEPT ![f] = Owned("TBL", p)]
          /\ \A x \in Fields \ {"frame"} : Y[x] = X[x]
      BY <2>0 DEF IsRecord, Fields
    <3>2. /\ IsRecord(N) /\ \A x \in Fields \ {"pd", "pt", "dirty"} : N[x] = Y[x]
      BY <2>2, <3>1 DEF IsRecord, Fields
    <3>3. N.pd = [Y.pd EXCEPT ![p] = [@ EXCEPT ![v \div NPTE] = f]]
      BY <2>2, <3>1 DEF IsRecord, Fields
    <3>4. N.pt = [Y.pt EXCEPT ![p] =
                    [w \in VPages |-> IF w \div NPTE = v \div NPTE THEN NONE ELSE @[w]]]
      BY <2>2, <3>1 DEF IsRecord, Fields
    <3>5. N.dirty = [Y.dirty EXCEPT ![p] = {w \in @ : ~(w \div NPTE = v \div NPTE)}]
      BY <2>2, <3>1 DEF IsRecord, Fields
    <3>6. /\ N.policy = X.policy /\ N.bsm = X.bsm /\ N.currpid = X.currpid
          /\ N.alive = X.alive /\ N.strayed = X.strayed
          /\ N.content = X.content /\ N.fifo = X.fifo /\ N.index = X.index
          /\ N.pages = X.pages /\ N.store = X.store /\ N.frame = Y.frame
          /\ Y.pd = X.pd /\ Y.pt = X.pt /\ Y.dirty = X.dirty
      BY <3>1, <3>2 DEF Fields
    <3>. QED
      BY <3>1, <3>2, <3>3, <3>4, <3>5, <3>6 DEF Tabled
  <2>. SUFFICES ASSUME ~N.strayed
                PROVE  /\ Sound(N, D) /\ N.pd[p][v \div NPTE] # NONE
                       /\ N.policy = M.policy /\ N.bsm = M.bsm
                       /\ N.currpid = M.currpid /\ N.alive = M.alive
                       /\ \A q \in Procs, w \in VPages :
                            N.pt[q][w] # NONE => N.pt[q][w] = M.pt[q][w]
    BY <2>3 DEF Tabled
  <2>4. ~X.strayed
    BY <2>3 DEF Tabled
  <2>5. /\ f \in Frames /\ X.frame[f] = Unmapped
        /\ Sound(X, D) /\ SameWorld(X, M)
        /\ \A q \in Procs, w \in VPages : X.pt[q][w] # NONE => X.pt[q][w] = M.pt[q][w]
    BY <2>4, GetFrameFinds
  <2>6. p \in X.alive /\ X.pd[p][v \div NPTE] = NONE
    BY <1>2, <2>5 DEF SameWorld
  <2>7. Sound(N, D) /\ N.pt = X.pt /\ N.pd[p][v \div NPTE] # NONE
    BY <2>3, <2>5, <2>6, TabledKeeps
  <2>8. /\ N.policy = M.policy /\ N.bsm = M.bsm /\ N.currpid = M.currpid /\ N.alive = M.alive
    BY <2>3, <2>5 DEF Tabled, SameWorld
  <2>. QED
    BY <2>5, <2>7, <2>8
<1>. QED
  BY <1>1, <1>2

\* N is M with page v of process p read into frame f.
Loaded(N, M, p, v, f) ==
  /\ IsRecord(N) /\ SameWorld(N, M) /\ N.store = M.store /\ N.strayed = M.strayed
  /\ N.frame = [M.frame EXCEPT ![f] = [type |-> "PAGE", pid |-> p, vpno |-> v, sc |-> TRUE]]
  /\ N.content = [M.content EXCEPT ![f] = M.store[Lookup(M, p, v)]]
  /\ N.pages = M.pages + 1
  /\ N.index = IF M.pages = 0 THEN f ELSE M.index
  /\ N.fifo = Append(M.fifo, f)
  /\ N.pt = [M.pt EXCEPT ![p] = [@ EXCEPT ![v] = f]]

\* That is what the end of pfint() does.
LEMMA LoadLoads ==
  ASSUME NEW M, IsRecord(M), NEW p, NEW v, NEW f
  PROVE  Loaded(Load(M, p, v, f), M, p, v, f)
<1>. PICK N, c : N = Load(M, p, v, f) /\ c = M.store[Lookup(M, p, v)]
  OBVIOUS
<1>1. N = [M EXCEPT !.frame[f] = [type |-> "PAGE", pid |-> p, vpno |-> v, sc |-> TRUE],
                    !.content[f] = c, !.pages = @ + 1,
                    !.index = IF M.pages = 0 THEN f ELSE @,
                    !.fifo = Append(@, f), !.pt[p][v] = f]
  BY DEF Load
<1>2. IsRecord(N)
  BY <1>1 DEF IsRecord, Fields
<1>3. SameWorld(N, M) /\ N.store = M.store /\ N.strayed = M.strayed
  BY <1>1 DEF IsRecord, Fields, SameWorld
<1>4. /\ N.frame = [M.frame EXCEPT ![f] = [type |-> "PAGE", pid |-> p, vpno |-> v, sc |-> TRUE]]
      /\ N.content = [M.content EXCEPT ![f] = c]
  BY <1>1 DEF IsRecord, Fields
<1>5. /\ N.pages = M.pages + 1 /\ N.fifo = Append(M.fifo, f)
      /\ N.index = IF M.pages = 0 THEN f ELSE M.index
  BY <1>1 DEF IsRecord, Fields
<1>6. N.pt = [M.pt EXCEPT ![p] = [@ EXCEPT ![v] = f]]
  BY <1>1 DEF IsRecord, Fields
<1>. QED
  BY <1>2, <1>3, <1>4, <1>5, <1>6 DEF Loaded

\* A page that the running process maps, and does not have, is read from its store,
\* which has what was last written to it.
LEMMA LoadKeeps ==
  ASSUME NEW M, NEW D, Sound(M, D), NEW p \in M.alive, p = M.currpid, NEW v \in VPages,
         M.pt[p][v] = NONE, M.pd[p][v \div NPTE] # NONE, Lookup(M, p, v) # <<>>,
         NEW f \in Frames, M.frame[f] = Unmapped, NEW N, Loaded(N, M, p, v, f)
  PROVE  Sound(N, D)
<1>0. Typed(M) /\ Framed(M) /\ Directed(M) /\ Queued(M) /\ Stored(M) /\ Apart(M) /\ Fresh(M, D)
  BY DEF Sound
<1>. PICK new, at : /\ new = [type |-> "PAGE", pid |-> p, vpno |-> v, sc |-> TRUE]
                    /\ at = Lookup(M, p, v)
  OBVIOUS
<1>1. /\ IsRecord(N) /\ N.policy = M.policy /\ N.pd = M.pd /\ N.dirty = M.dirty
      /\ N.bsm = M.bsm /\ N.currpid = M.currpid /\ N.alive = M.alive /\ N.store = M.store
      /\ N.frame = [M.frame EXCEPT ![f] = new]
      /\ N.content = [M.content EXCEPT ![f] = M.store[at]]
      /\ N.pages = M.pages + 1
      /\ N.index = IF M.pages = 0 THEN f ELSE M.index
      /\ N.fifo = Append(M.fifo, f)
      /\ N.pt = [M.pt EXCEPT ![p] = [@ EXCEPT ![v] = f]]
  BY DEF Loaded, SameWorld
<1>2. p \in Procs /\ p \in M.alive
  BY <1>0 DEF Typed
<1>3. /\ new \in FrameEntry /\ new.type = "PAGE" /\ new.pid = p /\ new.vpno = v
  BY <1>2 DEF FrameEntry
<1>4. /\ N.frame \in [Frames -> FrameEntry] /\ N.frame[f] = new
      /\ \A g \in Frames : g # f => N.frame[g] = M.frame[g] /\ (IsPage(N, g) <=> IsPage(M, g))
      /\ IsPage(N, f) /\ ~IsPage(M, f)
  <2>1. M.frame \in [Frames -> FrameEntry]
    BY <1>0 DEF Typed
  <2>2. N.frame \in [Frames -> FrameEntry] /\ N.frame[f] = new
        /\ \A g \in Frames : g # f => N.frame[g] = M.frame[g]
    BY <1>1, <1>3, <2>1
  <2>. QED
    BY <1>3, <2>2, UnmappedFacts DEF IsPage
<1>5. /\ N.content = [g \in Frames |-> N.content[g]] /\ N.content[f] = M.store[at]
      /\ \A g \in Frames : g # f => N.content[g] = M.content[g]
  BY <1>0, <1>1 DEF Typed
<1>6. /\ N.pt \in [Procs -> [VPages -> Frames \cup {NONE}]]
      /\ \A q \in Procs, w \in VPages : N.pt[q][w] = IF q = p /\ w = v THEN f ELSE M.pt[q][w]
  <2>1. M.pt \in [Procs -> [VPages -> Frames \cup {NONE}]]
    BY <1>0 DEF Typed
  <2>2. N.pt = [M.pt EXCEPT ![p] = [M.pt[p] EXCEPT ![v] = f]]
    BY <1>1
  <2>3. M.pt[p] \in [VPages -> Frames \cup {NONE}]
    BY <1>2, <2>1
  <2>4. [M.pt[p] EXCEPT ![v] = f] \in [VPages -> Frames \cup {NONE}]
    BY <2>3
  <2>5. \A q \in Procs : N.pt[q] = IF q = p THEN [M.pt[p] EXCEPT ![v] = f] ELSE M.pt[q]
    BY <2>1, <2>2
  <2>6. N.pt \in [Procs -> [VPages -> Frames \cup {NONE}]]
    BY <2>1, <2>2, <2>4
  <2>7. \A u \in VPages : [M.pt[p] EXCEPT ![v] = f][u] = IF u = v THEN f ELSE M.pt[p][u]
    BY <2>3
  <2>. QED
    BY <2>5, <2>6, <2>7
<1>7. Queued(N) /\ N.fifo \in Seq(Frames) /\ N.pages \in Int /\ N.index \in Frames \cup {NONE}
  <2>. PICK S : S = {g \in Frames : IsPage(M, g)}
    OBVIOUS
  <2>1. S \cup {f} = {g \in Frames : IsPage(N, g)} /\ f \notin S
    BY <1>4
  <2>2. M.fifo \in Seq(Frames) /\ HoldsIn(Frames, M.fifo, S) /\ M.pages = Len(M.fifo)
        /\ M.index \in Frames \cup {NONE} /\ (M.index = NONE <=> M.fifo = <<>>)
    BY <1>0 DEF Queued, Typed
  <2>3. Append(M.fifo, f) \in Seq(Frames) /\ HoldsIn(Frames, Append(M.fifo, f), S \cup {f})
    BY <2>1, <2>2, AppendHoldsIn
  <2>4. HoldsIn(Frames, N.fifo, {g \in Frames : IsPage(N, g)})
    BY <1>1, <2>1, <2>3, Zenon
  <2>5. Len(N.fifo) = Len(M.fifo) + 1 /\ N.fifo # <<>> /\ N.fifo \in Seq(Frames)
    BY <1>1, <2>2, <2>3
  <2>6. N.index \in Frames
    <3>1. M.pages = 0 <=> M.fifo = <<>>
      BY <2>2
    <3>. QED
      BY <1>1, <2>2, <3>1
  <2>7. N.pages = Len(N.fifo) /\ N.pages \in Int
    BY <1>1, <2>2, <2>5
  <2>. QED
    BY <2>4, <2>5, <2>6, <2>7, Sizes DEF Queued
<1>8. Typed(N)
  BY <1>0, <1>1, <1>4, <1>5, <1>6, <1>7 DEF Typed
<1>9. Stored(N) /\ Apart(N) /\ (\A s : Users(N, s) = Users(M, s))
  BY <1>0, <1>1, MappingsCarry
<1>10. Framed(N)
  <2>1. ASSUME NEW g \in Frames
        PROVE  LET fr == N.frame[g]
               IN  /\ fr.type = "UNMAPPED" => fr = Unmapped
                   /\ fr.type = "DIR" => fr = Owned("DIR", fr.pid) /\ fr.pid \in N.alive
                   /\ fr.type = "TBL" => fr = Owned("TBL", fr.pid)
                   /\ fr.type = "PAGE" => /\ fr.pid \in N.alive /\ fr.vpno \in VPages
                                          /\ N.pt[fr.pid][fr.vpno] = g
    <3>1. CASE g = f
      BY <1>1, <1>2, <1>3, <1>4, <1>6, <3>1
    <3>2. CASE g # f
      <4>1. N.frame[g] = M.frame[g]
        BY <1>4, <3>2
      <4>2. ASSUME IsPage(M, g)
            PROVE  /\ M.frame[g].pid \in M.alive /\ M.frame[g].vpno \in VPages
                   /\ N.pt[M.frame[g].pid][M.frame[g].vpno] = g
        <5>1. /\ M.frame[g].pid \in M.alive /\ M.frame[g].pid \in Procs
              /\ M.frame[g].vpno \in VPages
              /\ M.pt[M.frame[g].pid][M.frame[g].vpno] = g
          BY <1>0, <4>2, PageFacts
        <5>2. ~(M.frame[g].pid = p /\ M.frame[g].vpno = v)
          BY <5>1, Sizes
        <5>. QED
          BY <1>6, <5>1, <5>2
      <4>. QED
        BY <1>0, <1>1, <4>1, <4>2 DEF Framed, IsPage
    <3>. QED
      BY <3>1, <3>2
  <2>2. ASSUME NEW q \in Procs, NEW w \in VPages, N.pt[q][w] # NONE
        PROVE  /\ q \in N.alive /\ N.pd[q][w \div NPTE] # NONE
               /\ IsPage(N, N.pt[q][w]) /\ N.frame[N.pt[q][w]].pid = q
               /\ N.frame[N.pt[q][w]].vpno = w
    <3>1. CASE q = p /\ w = v
      BY <1>1, <1>2, <1>3, <1>4, <1>6, <3>1
    <3>2. CASE ~(q = p /\ w = v)
      <4>1. N.pt[q][w] = M.pt[q][w] /\ M.pt[q][w] \in Frames
        BY <1>0, <1>6, <2>2, <3>2 DEF Typed
      <4>2. /\ q \in M.alive /\ M.pd[q][w \div NPTE] # NONE
            /\ IsPage(M, M.pt[q][w]) /\ M.frame[M.pt[q][w]].pid = q
            /\ M.frame[M.pt[q][w]].vpno = w
        BY <1>0, <2>2, <4>1 DEF Framed
      <4>3. M.pt[q][w] # f
        BY <1>4, <4>2
      <4>. QED
        BY <1>1, <1>4, <4>1, <4>2, <4>3
    <3>. QED
      BY <3>1, <3>2
  <2>. QED
    BY <2>1, <2>2 DEF Framed
<1>11. Directed(N)
  <2>1. \A g \in Frames : \A q : /\ N.frame[g] = Owned("DIR", q) <=> M.frame[g] = Owned("DIR", q)
                                 /\ M.frame[g] = Owned("TBL", q) => N.frame[g] = Owned("TBL", q)
    BY <1>3, <1>4, UnmappedFacts
  <2>2. \A q \in M.alive, u \in Tables : M.pd[q][u] # NONE => M.pd[q][u] \in Frames
    BY <1>0 DEF Typed
  <2>. QED
    BY <1>0, <1>1, <2>1, <2>2 DEF Directed
<1>12. ASSUME NEW k \in StorePages \ D PROVE FreshPage(N, k)
  <2>0. FreshPage(M, k)
    BY <1>0 DEF Fresh
  <2>1. \A g \in Frames : g # f => Home(N, g) = Home(M, g) /\ (IsDirty(N, g) <=> IsDirty(M, g))
    BY <1>1, <1>4, HomeCarries DEF IsDirty
  <2>2. \A g \in Frames : g # f => /\ Counts(N, g, k) <=> Counts(M, g, k)
                                   /\ Ahead(N, g, k) <=> Ahead(M, g, k)
    BY <1>1, <1>4, <2>1 DEF Counts, Ahead
  <2>3. Home(N, f) = at
    <3>1. Lookup(N, p, v) = Lookup(M, p, v)
      BY <1>1, MappingsCarry
    <3>. QED
      BY <1>3, <1>4, <3>1 DEF Home
  <2>4. ASSUME k = at PROVE M.store[k] = k
    <3>. SUFFICES ASSUME NEW g \in Frames, Ahead(M, g, k) PROVE FALSE
      BY <2>0 DEF FreshPage
    <3>1. /\ IsPage(M, g) /\ Home(M, g) = at
          /\ M.frame[g].pid = p \/ M.bsm[k[1]].private
      BY <2>4 DEF Ahead
    <3>2. /\ M.frame[g].pid \in Procs /\ M.frame[g].vpno \in VPages
          /\ M.pt[M.frame[g].pid][M.frame[g].vpno] = g
          /\ Lookup(M, M.frame[g].pid, M.frame[g].vpno) = at
      BY <1>0, <3>1, PageFacts
    <3>3. M.frame[g].pid = p
      <4>1. M.frame[g].pid \in Users(M, at[1]) /\ p \in Users(M, at[1])
        BY <1>0, <1>2, <3>2, LookupIs
      <4>. QED
        BY <2>0, <2>4, <3>1, <4>1 DEF FreshPage
    <3>4. M.frame[g].vpno = v
      BY <1>0, <1>2, <3>2, <3>3, LookupOnce
    <3>. QED
      BY <3>2, <3>3, <3>4, Sizes
  <2>5. \A g \in Frames : Counts(N, g, k) => N.content[g] = k
    <3>1. \A g \in Frames : g # f /\ Counts(N, g, k) => N.content[g] = k
      BY <1>5, <2>0, <2>2 DEF FreshPage
    <3>2. Counts(N, f, k) => N.content[f] = k
      BY <1>5, <2>3, <2>4 DEF Counts
    <3>. QED
      BY <3>1, <3>2
  <2>6. N.store[k] # k => \E g \in Frames : Ahead(N, g, k)
    <3>1. \A g \in Frames : Ahead(M, g, k) => g # f
      BY <1>4 DEF Ahead
    <3>. QED
      BY <1>1, <2>0, <2>2, <3>1 DEF FreshPage
  <2>. QED
    BY <1>1, <1>9, <2>0, <2>5, <2>6 DEF FreshPage
<1>. QED
  BY <1>7, <1>8, <1>9, <1>10, <1>11, <1>12 DEF Sound, Fresh

\* pfint(), on a page that is mapped and not present.
LEMMA PageFaultKeeps ==
  ASSUME NEW M, NEW D, Sound(M, D), NEW p \in M.alive, p = M.currpid, NEW v \in VPages,
         M.pt[p][v] = NONE, StoresOf(M, p, v) # {},
         NEW G, G = GetFrame(WithPageTable(M, p, v)), ~Strays(G.M),
         NEW N, N = Load(G.M, p, v, G.f)
  PROVE  Sound(N, D) /\ N.currpid = M.currpid /\ N.alive = M.alive
<1>. PICK W : W = WithPageTable(M, p, v)
  OBVIOUS
<1>0. Typed(M) /\ p \in Procs /\ Lookup(M, p, v) # <<>>
  BY DEF Sound, Typed, Lookup
<1>1. ~W.strayed
  <2>1. IsRecord(W)
    BY WithPageTableKeeps
  <2>2. CASE W.strayed
    <3>1. G = Stray(W)
      BY <2>2 DEF GetFrame
    <3>. QED
      BY <2>1, <3>1 DEF Stray, IsRecord, Fields, Strays
  <2>. QED
    BY <2>2
<1>2. /\ Sound(W, D) /\ W.pd[p][v \div NPTE] # NONE
      /\ W.bsm = M.bsm /\ W.currpid = M.currpid /\ W.alive = M.alive
      /\ W.pt[p][v] = NONE
  BY <1>0, <1>1, WithPageTableKeeps
<1>3. /\ G.f \in Frames /\ G.M.frame[G.f] = Unmapped
      /\ Sound(G.M, D) /\ SameWorld(G.M, W)
      /\ G.M.pt[p][v] # NONE => G.M.pt[p][v] = W.pt[p][v]
  <2>1. ~G.M.strayed
    BY DEF Strays
  <2>. QED
    BY <1>0, <1>2, <2>1, GetFrameFinds
<1>4. /\ G.M.pt[p][v] = NONE /\ G.M.pd[p][v \div NPTE] # NONE
      /\ G.M.bsm = M.bsm /\ G.M.currpid = p /\ G.M.alive = M.alive
  BY <1>2, <1>3 DEF SameWorld
<1>5. Lookup(G.M, p, v) # <<>>
  BY <1>0, <1>4, MappingsCarry
<1>6. Loaded(N, G.M, p, v, G.f)
  BY <1>3, LoadLoads DEF Sound, Typed
<1>7. Sound(N, D)
  BY <1>3, <1>4, <1>5, <1>6, LoadKeeps
<1>. QED
  BY <1>4, <1>6, <1>7 DEF Loaded, SameWorld

\* N is X with process p in it, whose directory is in frame f.
Created(N, X, p, f) ==
  /\ IsRecord(N) /\ N.policy = X.policy /\ N.bsm = X.bsm /\ N.currpid = X.currpid
  /\ N.strayed = X.strayed /\ N.content = X.content /\ N.fifo = X.fifo
  /\ N.index = X.index /\ N.pages = X.pages /\ N.store = X.store
  /\ N.alive = X.alive \cup {p}
  /\ N.frame = [X.frame EXCEPT ![f] = Owned("DIR", p)]
  /\ N.pd = [X.pd EXCEPT ![p] = [t \in Tables |-> NONE]]
  /\ N.pt = [X.pt EXCEPT ![p] = [v \in VPages |-> NONE]]
  /\ N.dirty = [X.dirty EXCEPT ![p] = {}]

\* A new process has a directory, and nothing else.
LEMMA CreatedKeeps ==
  ASSUME NEW X, NEW D, Sound(X, D), NEW p \in Procs, p \notin X.alive,
         NEW f \in Frames, X.frame[f] = Unmapped, NEW N, Created(N, X, p, f)
  PROVE  Sound(N, D) /\ PagesOf(N, p) = {}
<1>0. Typed(X) /\ Framed(X) /\ Directed(X) /\ Queued(X) /\ Stored(X) /\ Apart(X) /\ Fresh(X, D)
  BY DEF Sound
<1>1. /\ IsRecord(N) /\ N.policy = X.policy /\ N.bsm = X.bsm /\ N.currpid = X.currpid
      /\ N.content = X.content /\ N.fifo = X.fifo
      /\ N.index = X.index /\ N.pages = X.pages /\ N.store = X.store
      /\ N.alive = X.alive \cup {p}
      /\ N.frame = [X.frame EXCEPT ![f] = Owned("DIR", p)]
      /\ N.pd = [X.pd EXCEPT ![p] = [t \in Tables |-> NONE]]
      /\ N.pt = [X.pt EXCEPT ![p] = [v \in VPages |-> NONE]]
      /\ N.dirty = [X.dirty EXCEPT ![p] = {}]
  BY DEF Created
<1>2. /\ N.frame \in [Frames -> FrameEntry] /\ N.frame[f] = Owned("DIR", p)
      /\ \A g \in Frames : g # f => N.frame[g] = X.frame[g]
      /\ \A g \in Frames : IsPage(N, g) <=> IsPage(X, g)
      /\ ~IsPage(X, f)
  <2>1. X.frame \in [Frames -> FrameEntry] /\ Owned("DIR", p) \in FrameEntry
    BY <1>0, UnmappedFacts DEF Typed
  <2>2. N.frame \in [Frames -> FrameEntry] /\ N.frame[f] = Owned("DIR", p)
        /\ \A g \in Frames : g # f => N.frame[g] = X.frame[g]
    BY <1>1, <2>1
  <2>. QED
    BY <2>2, UnmappedFacts DEF IsPage
<1>3. /\ N.pd \in [Procs -> [Tables -> Frames \cup {NONE}]]
      /\ \A t \in Tables : N.pd[p][t] = NONE
      /\ \A q \in Procs \ {p} : N.pd[q] = X.pd[q]
  <2>1. X.pd \in [Procs -> [Tables -> Frames \cup {NONE}]]
    BY <1>0 DEF Typed
  <2>. QED
    BY <1>1, <2>1
<1>4. /\ N.pt \in [Procs -> [VPages -> Frames \cup {NONE}]]
      /\ \A v \in VPages : N.pt[p][v] = NONE
      /\ \A q \in Procs \ {p} : N.pt[q] = X.pt[q]
  <2>1. X.pt \in [Procs -> [VPages -> Frames \cup {NONE}]]
    BY <1>0 DEF Typed
  <2>. QED
    BY <1>1, <2>1
<1>5. /\ N.dirty \in [Procs -> SUBSET VPages]
      /\ \A q \in Procs \ {p} : N.dirty[q] = X.dirty[q]
  <2>1. X.dirty \in [Procs -> SUBSET VPages]
    BY <1>0 DEF Typed
  <2>. QED
    BY <1>1, <2>1
<1>6. Typed(N)
  <2>1. N.alive \in SUBSET Procs
    BY <1>0, <1>1 DEF Typed
  <2>. QED
    BY <1>0, <1>1, <1>2, <1>3, <1>4, <1>5, <2>1 DEF Typed
<1>7. ASSUME NEW g \in Frames, IsPage(X, g)
      PROVE  /\ g # f /\ N.frame[g] = X.frame[g] /\ X.frame[g].pid # p
             /\ X.frame[g].pid \in Procs
  BY <1>0, <1>2, <1>7, PageFacts
<1>8. Framed(N)
  <2>1. ASSUME NEW g \in Frames
        PROVE  LET fr == N.frame[g]
               IN  /\ fr.type = "UNMAPPED" => fr = Unmapped
                   /\ fr.type = "DIR" => fr = Owned("DIR", fr.pid) /\ fr.pid \in N.alive
                   /\ fr.type = "TBL" => fr = Owned("TBL", fr.pid)
                   /\ fr.type = "PAGE" => /\ fr.pid \in N.alive /\ fr.vpno \in VPages
                                          /\ N.pt[fr.pid][fr.vpno] = g
    <3>1. CASE g = f
      BY <1>1, <1>2, <3>1, UnmappedFacts
    <3>2. CASE IsPage(X, g)
      <4>1. N.pt[X.frame[g].pid] = X.pt[X.frame[g].pid]
        BY <1>4, <1>7, <3>2
      <4>. QED
        BY <1>0, <1>1, <1>7, <3>2, <4>1 DEF Framed, IsPage
    <3>3. CASE g # f /\ ~IsPage(X, g)
      <4>1. N.frame[g] = X.frame[g]
        BY <1>2, <3>3
      <4>. QED
        BY <1>0, <1>1, <3>3, <4>1 DEF Framed, IsPage
    <3>. QED
      BY <3>1, <3>2, <3>3
  <2>2. ASSUME NEW q \in Procs, NEW w \in VPages, N.pt[q][w] # NONE
        PROVE  /\ q \in N.alive /\ N.pd[q][w \div NPTE] # NONE
               /\ IsPage(N, N.pt[q][w]) /\ N.frame[N.pt[q][w]].pid = q
               /\ N.frame[N.pt[q][w]].vpno = w
    <3>1. q # p /\ N.pt[q][w] = X.pt[q][w] /\ N.pd[q] = X.pd[q]
      BY <1>3, <1>4, <2>2
    <3>2. X.pt[q][w] \in Frames
      BY <1>0, <2>2, <3>1 DEF Typed
    <3>3. /\ q \in X.alive /\ X.pd[q][w \div NPTE] # NONE
          /\ IsPage(X, X.pt[q][w]) /\ X.frame[X.pt[q][w]].pid = q
          /\ X.frame[X.pt[q][w]].vpno = w
      BY <1>0, <2>2, <3>1 DEF Framed
    <3>. QED
      BY <1>1, <1>2, <1>7, <3>1, <3>2, <3>3
  <2>. QED
    BY <2>1, <2>2 DEF Framed
<1>9. Directed(N)
  <2>1. ASSUME NEW g \in Frames
        PROVE  /\ N.frame[g] = Owned("DIR", p) <=> g = f
               /\ \A q \in X.alive : N.frame[g] = Owned("DIR", q) <=> X.frame[g] = Owned("DIR", q)
               /\ \A q : X.frame[g] = Owned("TBL", q) => N.frame[g] = Owned("TBL", q)
    <3>1. X.frame[g] # Owned("DIR", p)
      BY <1>0, UnmappedFacts DEF Framed
    <3>2. \A q \in X.alive : Owned("DIR", q) # Owned("DIR", p)
      BY UnmappedFacts
    <3>. QED
      BY <1>2, <3>1, <3>2, UnmappedFacts
  <2>2. ASSUME NEW q \in N.alive
        PROVE  \E g \in Frames : \A h \in Frames : N.frame[h] = Owned("DIR", q) <=> h = g
    <3>1. CASE q = p
      BY <2>1, <3>1
    <3>2. CASE q \in X.alive
      BY <1>0, <2>1, <3>2 DEF Directed
    <3>. QED
      BY <1>1, <3>1, <3>2
  <2>3. ASSUME NEW q \in N.alive, NEW t \in Tables, N.pd[q][t] # NONE
        PROVE  /\ N.frame[N.pd[q][t]] = Owned("TBL", q)
               /\ \A u \in Tables \ {t} : N.pd[q][u] # N.pd[q][t]
    <3>1. q # p /\ q \in X.alive /\ q \in Procs /\ N.pd[q] = X.pd[q]
      BY <1>0, <1>1, <1>3, <2>3 DEF Typed
    <3>2. X.pd[q][t] \in Frames
      BY <1>0, <2>3, <3>1 DEF Typed
    <3>. QED
      BY <1>0, <2>1, <2>3, <3>1, <3>2 DEF Directed
  <2>. QED
    BY <2>2, <2>3 DEF Directed
<1>10. Queued(N)
  <2>1. {g \in Frames : IsPage(N, g)} = {g \in Frames : IsPage(X, g)}
    BY <1>2
  <2>. QED
    BY <1>0, <1>1, <2>1 DEF Queued
<1>11. Stored(N) /\ Apart(N)
  <2>1. \A s : Users(N, s) = Users(X, s)
    BY <1>1 DEF Users
  <2>2. IsFiniteSet(X.alive \cup {p})
    BY <1>0, FS_AddElement DEF Stored
  <2>3. Stored(N)
    BY <1>0, <1>1, <2>1, <2>2 DEF Stored
  <2>4. Apart(N)
    BY <1>0, <1>1 DEF Apart, Covers
  <2>. QED
    BY <2>3, <2>4
<1>12. Fresh(N, D)
  <2>1. ASSUME NEW g \in Frames, IsPage(X, g)
        PROVE  /\ N.frame[g].pid = X.frame[g].pid /\ N.frame[g].vpno = X.frame[g].vpno
               /\ N.content[g] = X.content[g] /\ (IsDirty(N, g) <=> IsDirty(X, g))
    <3>1. N.dirty[X.frame[g].pid] = X.dirty[X.frame[g].pid]
      BY <1>5, <1>7, <2>1
    <3>. QED
      BY <1>1, <1>7, <2>1, <3>1 DEF IsDirty
  <2>. QED
    BY <1>0, <1>1, <1>2, <2>1, FreshCarries
<1>13. PagesOf(N, p) = {}
  BY <1>2, <1>7 DEF PagesOf, IsPage
<1>. QED
  BY <1>6, <1>8, <1>9, <1>10, <1>11, <1>12, <1>13 DEF Sound

\* create()
LEMMA WithProcessKeeps ==
  ASSUME NEW M, NEW D, Sound(M, D), NEW p \in Procs, p \notin M.alive,
         NEW N, N = WithProcess(M, p)
  PROVE  /\ IsRecord(N)
         /\ ~N.strayed => /\ Sound(N, D) /\ PagesOf(N, p) = {} /\ N.alive = M.alive \cup {p}
                          /\ N.bsm = M.bsm /\ N.currpid = M.currpid
<1>. PICK G, f, X : G = GetFrame(M) /\ f = G.f /\ X = G.M
  OBVIOUS
<1>. PICK Y : Y = [X EXCEPT !.frame[f] = Owned("DIR", p)]
  OBVIOUS
<1>0. IsRecord(X) /\ G = [f |-> f, M |-> X]
  BY GetFrameRecord
<1>1. Allocate(M, p, "DIR").f = f /\ Allocate(M, p, "DIR").M = Y
  BY <1>0 DEF Allocate
<1>2. N = [Y EXCEPT !.alive = @ \cup {p},
                    !.pd[p] = [t \in Tables |-> NONE],
                    !.pt[p] = [v \in VPages |-> NONE], !.dirty[p] = {}]
  BY <1>1 DEF WithProcess
<1>3. Created(N, X, p, f)
  <2>1. /\ IsRecord(Y) /\ Y.frame = [X.frame EXCEPT ![f] = Owned("DIR", p)]
        /\ \A x \in Fields \ {"frame"} : Y[x] = X[x]
    BY <1>0 DEF IsRecord, Fields
  <2>2. /\ IsRecord(N) /\ \A x \in Fields \ {"alive", "pd", "pt", "dirty"} : N[x] = Y[x]
    BY <1>2, <2>1 DEF IsRecord, Fields
  <2>3. /\ N.alive = Y.alive \cup {p}
        /\ N.pd = [Y.pd EXCEPT ![p] = [t \in Tables |-> NONE]]
        /\ N.pt = [Y.pt EXCEPT ![p] = [v \in VPages |-> NONE]]
        /\ N.dirty = [Y.dirty EXCEPT ![p] = {}]
    BY <1>2, <2>1 DEF IsRecord, Fields
  <2>4. /\ N.policy = X.policy /\ N.bsm = X.bsm /\ N.currpid = X.currpid
        /\ N.strayed = X.strayed
        /\ N.content = X.content /\ N.fifo = X.fifo /\ N.index = X.index
        /\ N.pages = X.pages /\ N.store = X.store /\ N.frame = Y.frame
        /\ Y.alive = X.alive /\ Y.pd = X.pd /\ Y.pt = X.pt /\ Y.dirty = X.dirty
    BY <2>1, <2>2 DEF Fields
  <2>. QED
    BY <2>1, <2>2, <2>3, <2>4 DEF Created
<1>. SUFFICES ASSUME ~N.strayed
              PROVE  /\ Sound(N, D) /\ PagesOf(N, p) = {} /\ N.alive = M.alive \cup {p}
                     /\ N.bsm = M.bsm /\ N.currpid = M.currpid
  BY <1>3 DEF Created
<1>4. ~X.strayed
  BY <1>3 DEF Created
<1>5. /\ f \in Frames /\ X.frame[f] = Unmapped /\ Sound(X, D) /\ SameWorld(X, M)
  BY <1>4, GetFrameFinds
<1>6. Sound(N, D) /\ PagesOf(N, p) = {}
  BY <1>3, <1>5, CreatedKeeps DEF SameWorld
<1>. QED
  BY <1>3, <1>5, <1>6 DEF Created, SameWorld

-------------------------------------------------------------------------------
(***************************************************************************)
(* The context switch.                                                     *)
(***************************************************************************)
\* The frames that resched() copies out to page k of a store.
Copied(M, k) ==
  {f \in Frames : /\ IsPage(M, f) /\ M.frame[f].pid = M.currpid /\ IsDirty(M, f)
                  /\ Home(M, f) = k /\ ~M.bsm[k[1]].private}

\* N is M when the switch from the process that runs to q is done.
Switched(N, M, q) ==
  /\ IsRecord(N) /\ N.currpid = q
  /\ N.policy = M.policy /\ N.frame = M.frame /\ N.fifo = M.fifo /\ N.index = M.index
  /\ N.pages = M.pages /\ N.pd = M.pd /\ N.pt = M.pt /\ N.dirty = M.dirty
  /\ N.bsm = M.bsm /\ N.alive = M.alive
  /\ N.store = [k \in StorePages |-> N.store[k]]
  /\ N.content = [f \in Frames |-> N.content[f]]
  /\ \A k \in StorePages :
       IF Copied(M, k) = {} THEN N.store[k] = M.store[k]
                            ELSE \E f \in Copied(M, k) : N.store[k] = M.content[f]
  /\ \A f \in Frames :
       N.content[f] = IF /\ IsPage(M, f) /\ M.frame[f].pid = q
                         /\ ~M.bsm[Home(M, f)[1]].private
                      THEN N.store[Home(M, f)] ELSE M.content[f]

\* The first half of the switch.
LEMMA FlushCopies ==
  ASSUME NEW M, IsRecord(M), NEW F, F = Flush(M), ~F.strayed
  PROVE  /\ IsRecord(F) /\ \A x \in Fields \ {"store"} : F[x] = M[x]
         /\ F.store = [k \in StorePages |-> F.store[k]]
         /\ \A k \in StorePages :
              IF Copied(M, k) = {} THEN F.store[k] = M.store[k]
                                   ELSE \E f \in Copied(M, k) : F.store[k] = M.content[f]
<1>. DEFINE out == {f \in PagesOf(M, M.currpid) : IsDirty(M, f)}
            from(k) == {f \in out : Home(M, f) = k /\ IsShared(M, f)}
<1>1. \A k : from(k) = Copied(M, k)
  BY DEF Copied, PagesOf, IsPage, IsShared
<1>2. ~(\E f \in out : Home(M, f) = <<>>)
  BY DEF Flush, IsRecord, Fields
<1>3. F = [M EXCEPT !.store = [k \in StorePages |->
             IF from(k) = {} THEN @[k] ELSE M.content[CHOOSE f \in from(k) : TRUE]]]
  BY <1>2 DEF Flush
<1>. HIDE DEF from
<1>4. F.store = [k \in StorePages |->
             IF from(k) = {} THEN M.store[k] ELSE M.content[CHOOSE f \in from(k) : TRUE]]
  BY <1>3 DEF IsRecord, Fields
<1>5. IsRecord(F) /\ \A x \in Fields \ {"store"} : F[x] = M[x]
  BY <1>3 DEF IsRecord, Fields
<1>6. ASSUME NEW k \in StorePages
      PROVE  IF Copied(M, k) = {} THEN F.store[k] = M.store[k]
                                  ELSE \E f \in Copied(M, k) : F.store[k] = M.content[f]
  <2>1. CASE Copied(M, k) = {}
    BY <1>1, <1>4, <2>1
  <2>2. CASE Copied(M, k) # {}
    <3>1. (CHOOSE f \in from(k) : TRUE) \in Copied(M, k)
      BY <1>1, <2>2
    <3>. QED
      BY <1>1, <1>4, <2>2, <3>1
  <2>. QED
    BY <2>1, <2>2
<1>. QED
  BY <1>4, <1>5, <1>6

\* Both halves.
LEMMA SwitchToSwitches ==
  ASSUME NEW M, IsRecord(M), NEW q, NEW N, N = SwitchTo(M, q), ~N.strayed
  PROVE  Switched(N, M, q)
<1>. PICK F, R : F = Flush(M) /\ R = [F EXCEPT !.currpid = q]
  OBVIOUS
<1>1. ~F.strayed
  BY DEF SwitchTo
<1>2. /\ IsRecord(F) /\ \A x \in Fields \ {"store"} : F[x] = M[x]
      /\ F.store = [k \in StorePages |-> F.store[k]]
      /\ \A k \in StorePages :
           IF Copied(M, k) = {} THEN F.store[k] = M.store[k]
                                ELSE \E f \in Copied(M, k) : F.store[k] = M.content[f]
  BY <1>1, FlushCopies
<1>3. IsRecord(R) /\ R.currpid = q /\ \A x \in Fields \ {"currpid"} : R[x] = F[x]
  BY <1>2 DEF IsRecord, Fields
<1>4. N = Refresh(R)
  BY <1>1 DEF SwitchTo
<1>5. /\ R.frame = M.frame /\ R.bsm = M.bsm /\ R.content = M.content /\ R.store = F.store
      /\ R.policy = M.policy /\ R.fifo = M.fifo /\ R.index = M.index
      /\ R.pages = M.pages /\ R.pd = M.pd /\ R.pt = M.pt /\ R.dirty = M.dirty
      /\ R.alive = M.alive
  BY <1>2, <1>3 DEF Fields
<1>6. \A f : Home(R, f) = Home(M, f)
  BY <1>5, HomeCarries
<1>. DEFINE in == PagesOf(R, q)
<1>7. N = [R EXCEPT !.content = [f \in Frames |->
              IF f \in in /\ IsShared(R, f) THEN R.store[Home(R, f)] ELSE @[f]]]
  BY ZenonT(30), <1>3, <1>4 DEF Refresh, IsRecord, Fields
<1>. HIDE DEF in
<1>8. /\ IsRecord(N) /\ \A x \in Fields \ {"content"} : N[x] = R[x]
      /\ N.content = [f \in Frames |->
              IF f \in in /\ IsShared(R, f) THEN R.store[Home(R, f)] ELSE R.content[f]]
  BY <1>3, <1>7 DEF IsRecord, Fields
<1>9. /\ N.currpid = q /\ N.store = F.store
      /\ N.policy = M.policy /\ N.frame = M.frame /\ N.fifo = M.fifo /\ N.index = M.index
      /\ N.pages = M.pages /\ N.pd = M.pd /\ N.pt = M.pt /\ N.dirty = M.dirty
      /\ N.bsm = M.bsm /\ N.alive = M.alive
  BY <1>3, <1>5, <1>8 DEF Fields
<1>10. ASSUME NEW f \in Frames
       PROVE  N.content[f] = IF /\ IsPage(M, f) /\ M.frame[f].pid = q
                                /\ ~M.bsm[Home(M, f)[1]].private
                             THEN N.store[Home(M, f)] ELSE M.content[f]
  <2>1. (f \in in /\ IsShared(R, f)) <=> /\ IsPage(M, f) /\ M.frame[f].pid = q
                                         /\ ~M.bsm[Home(M, f)[1]].private
    BY <1>5, <1>6 DEF in, PagesOf, IsPage, IsShared
  <2>. QED
    BY <1>5, <1>6, <1>8, <1>9, <2>1
<1>11. N.content = [f \in Frames |-> N.content[f]]
  BY <1>8
<1>. QED
  BY <1>2, <1>8, <1>9, <1>10, <1>11 DEF Switched

\* What was last written goes where the next process finds it.
LEMMA SwitchedKeeps ==
  ASSUME NEW M, NEW D, Sound(M, D), NEW q \in Procs \cup {NULLPROC},
         NEW N, Switched(N, M, q)
  PROVE  Sound(N, D)
<1>0. Typed(M) /\ Framed(M) /\ Directed(M) /\ Queued(M) /\ Stored(M) /\ Apart(M) /\ Fresh(M, D)
  BY DEF Sound
<1>1. /\ IsRecord(N) /\ N.currpid = q
      /\ N.policy = M.policy /\ N.frame = M.frame /\ N.fifo = M.fifo /\ N.index = M.index
      /\ N.pages = M.pages /\ N.pd = M.pd /\ N.pt = M.pt /\ N.dirty = M.dirty
      /\ N.bsm = M.bsm /\ N.alive = M.alive
      /\ N.store = [k \in StorePages |-> N.store[k]]
      /\ N.content = [f \in Frames |-> N.content[f]]
  BY DEF Switched
<1>2. \A f : /\ Home(N, f) = Home(M, f) /\ (IsDirty(N, f) <=> IsDirty(M, f))
             /\ (IsPage(N, f) <=> IsPage(M, f))
  BY <1>1, HomeCarries DEF IsDirty, IsPage
<1>3. Typed(N)
  BY <1>0, <1>1 DEF Typed
<1>4. Framed(N) /\ Directed(N) /\ Queued(N)
  BY <1>0, <1>1 DEF Framed, Directed, Queued, IsPage
<1>5. Stored(N) /\ Apart(N) /\ (\A s : Users(N, s) = Users(M, s))
  BY <1>0, <1>1, MappingsCarry
<1>6. ASSUME NEW k \in StorePages \ D PROVE FreshPage(N, k)
  <2>0. FreshPage(M, k)
    BY <1>0 DEF Fresh
  <2>1. \A f \in Copied(M, k) : M.content[f] = k
    BY <2>0 DEF FreshPage, Counts, Copied
  <2>2. IF Copied(M, k) = {} THEN N.store[k] = M.store[k]
                             ELSE \E f \in Copied(M, k) : N.store[k] = M.content[f]
    BY DEF Switched
  <2>3. Copied(M, k) # {} => N.store[k] = k
    BY <2>1, <2>2
  <2>4. ASSUME NEW f \in Frames, Ahead(M, f, k), Copied(M, k) = {} PROVE M.bsm[k[1]].private
    BY <2>4 DEF Ahead, Copied
  <2>5. N.store[k] # k => \E f \in Frames : Ahead(N, f, k)
    BY <1>1, <1>2, <2>0, <2>2, <2>3, <2>4 DEF FreshPage, Ahead
  <2>6. ~M.bsm[k[1]].private => N.store[k] = k
    BY <2>0, <2>2, <2>3, <2>4 DEF FreshPage
  <2>7. ASSUME NEW f \in Frames, Counts(N, f, k) PROVE N.content[f] = k
    <3>1. /\ IsPage(M, f) /\ Home(M, f) = k
          /\ IsDirty(M, f) \/ M.frame[f].pid = q \/ M.bsm[k[1]].private
      BY <1>1, <1>2, <2>7 DEF Counts
    <3>2. N.content[f] = IF M.frame[f].pid = q /\ ~M.bsm[k[1]].private
                         THEN N.store[k] ELSE M.content[f]
      BY <3>1 DEF Switched
    <3>3. CASE M.frame[f].pid = q /\ ~M.bsm[k[1]].private
      BY <2>6, <3>2, <3>3
    <3>4. CASE ~(M.frame[f].pid = q /\ ~M.bsm[k[1]].private)
      <4>1. Counts(M, f, k)
        BY <3>1, <3>4 DEF Counts
      <4>. QED
        BY <2>0, <3>2, <3>4, <4>1 DEF FreshPage
    <3>. QED
      BY <3>3, <3>4
  <2>. QED
    BY <1>1, <1>5, <2>0, <2>5, <2>7 DEF FreshPage
<1>. QED
  BY <1>3, <1>4, <1>5, <1>6 DEF Sound, Fresh

\* resched()
LEMMA SwitchToKeeps ==
  ASSUME NEW M, NEW D, Sound(M, D), NEW q \in Procs \cup {NULLPROC},
         NEW N, N = SwitchTo(M, q), ~N.strayed
  PROVE  Sound(N, D) /\ N.currpid = q /\ N.alive = M.alive
<1>1. Switched(N, M, q)
  BY SwitchToSwitches DEF Sound, Typed
<1>2. Sound(N, D)
  BY <1>1, SwitchedKeeps
<1>. QED
  BY <1>1, <1>2 DEF Switched

-------------------------------------------------------------------------------
(***************************************************************************)
(* Backing store mappings.                                                 *)
(***************************************************************************)
\* What Overtake() leaves alone, and what not.
LEMMA OvertakeFields ==
  ASSUME NEW M, IsRecord(M), NEW K, NEW N, N = Overtake(M, K)
  PROVE  /\ IsRecord(N) /\ \A x \in Fields \ {"content", "store"} : N[x] = M[x]
         /\ N.content = [f \in Frames |-> IF M.content[f] \in K THEN OLD ELSE M.content[f]]
         /\ N.store = [k \in StorePages |-> IF M.store[k] \in K THEN OLD ELSE M.store[k]]
<1>1. N = [M EXCEPT !.content = [f \in Frames |-> IF @[f] \in K THEN OLD ELSE @[f]],
                    !.store = [k \in StorePages |-> IF @[k] \in K THEN OLD ELSE @[k]]]
  BY DEF Overtake
<1>. QED
  BY <1>1 DEF IsRecord, Fields

\* Nothing that is not overtaken is lost.
LEMMA OvertakeKeeps ==
  ASSUME NEW M, NEW D, Sound(M, D), NEW K, K \subseteq D, NEW N, N = Overtake(M, K)
  PROVE  /\ Sound(N, D) /\ IsRecord(N)
         /\ N.currpid = M.currpid /\ N.alive = M.alive /\ N.strayed = M.strayed
         /\ N.bsm = M.bsm /\ N.frame = M.frame
<1>0. Typed(M) /\ Framed(M) /\ Directed(M) /\ Queued(M) /\ Stored(M) /\ Apart(M) /\ Fresh(M, D)
  BY DEF Sound
<1>1. /\ IsRecord(N) /\ \A x \in Fields \ {"content", "store"} : N[x] = M[x]
      /\ N.content = [f \in Frames |-> IF M.content[f] \in K THEN OLD ELSE M.content[f]]
      /\ N.store = [k \in StorePages |-> IF M.store[k] \in K THEN OLD ELSE M.store[k]]
  BY <1>0, OvertakeFields DEF Typed
<1>2. /\ N.policy = M.policy /\ N.frame = M.frame /\ N.fifo = M.fifo /\ N.index = M.index
      /\ N.pages = M.pages /\ N.pd = M.pd /\ N.pt = M.pt /\ N.dirty = M.dirty
      /\ N.bsm = M.bsm /\ N.alive = M.alive /\ N.currpid = M.currpid /\ N.strayed = M.strayed
  BY <1>1 DEF Fields
<1>3. Typed(N)
  <2>1. N.content = [f \in Frames |-> N.content[f]] /\ N.store = [k \in StorePages |-> N.store[k]]
    BY <1>1
  <2>. QED
    BY <1>0, <1>1, <1>2, <2>1 DEF Typed
<1>4. Framed(N) /\ Directed(N) /\ Queued(N)
  BY <1>0, <1>2 DEF Framed, Directed, Queued, IsPage
<1>5. Stored(N) /\ Apart(N) /\ (\A s : Users(N, s) = Users(M, s))
  BY <1>0, <1>2, MappingsCarry
<1>6. ASSUME NEW k \in StorePages \ D PROVE FreshPage(N, k)
  <2>0. FreshPage(M, k) /\ k \notin K
    BY <1>0 DEF Fresh
  <2>1. \A f : /\ Home(N, f) = Home(M, f) /\ (IsDirty(N, f) <=> IsDirty(M, f))
               /\ (IsPage(N, f) <=> IsPage(M, f))
    BY <1>2, HomeCarries DEF IsDirty, IsPage
  <2>2. \A f : (Counts(N, f, k) <=> Counts(M, f, k)) /\ (Ahead(N, f, k) <=> Ahead(M, f, k))
    BY <1>2, <2>1 DEF Counts, Ahead
  <2>3. /\ M.store[k] = k => N.store[k] = k
        /\ \A f \in Frames : M.content[f] = k => N.content[f] = k
    BY <1>1, <2>0
  <2>. QED
    BY <1>2, <1>5, <2>0, <2>2, <2>3 DEF FreshPage
<1>. QED
  BY <1>1, <1>2, <1>3, <1>4, <1>5, <1>6 DEF Sound, Fresh

\* N is M with another entry for store s.
Remapped(N, M, s) ==
  /\ IsRecord(N) /\ N.bsm \in [Stores -> StoreEntry]
  /\ N.policy = M.policy /\ N.frame = M.frame /\ N.fifo = M.fifo /\ N.index = M.index
  /\ N.pages = M.pages /\ N.pd = M.pd /\ N.pt = M.pt /\ N.dirty = M.dirty
  /\ N.alive = M.alive /\ N.currpid = M.currpid
  /\ N.content = [f \in Frames |-> N.content[f]]
  /\ N.store = [k \in StorePages |-> N.store[k]]
  /\ \A t \in Stores \ {s} : N.bsm[t] = M.bsm[t]

\* The frames and the page tables know nothing of the stores.
LEMMA RemappedCarries ==
  ASSUME NEW M, NEW D, Sound(M, D), NEW s, NEW N, Remapped(N, M, s)
  PROVE  /\ Typed(N) /\ Framed(N) /\ Directed(N) /\ Queued(N)
         /\ \A f : (IsPage(N, f) <=> IsPage(M, f)) /\ (IsDirty(N, f) <=> IsDirty(M, f))
         /\ \A q, w : \A t \in Stores \ {s} : Covers(N, q, t, w) <=> Covers(M, q, t, w)
         /\ \A t \in Stores \ {s} : Users(N, t) = Users(M, t)
<1>0. Typed(M) /\ Framed(M) /\ Directed(M) /\ Queued(M)
  BY DEF Sound
<1>1. /\ IsRecord(N) /\ N.bsm \in [Stores -> StoreEntry]
      /\ N.policy = M.policy /\ N.frame = M.frame /\ N.fifo = M.fifo /\ N.index = M.index
      /\ N.pages = M.pages /\ N.pd = M.pd /\ N.pt = M.pt /\ N.dirty = M.dirty
      /\ N.alive = M.alive /\ N.currpid = M.currpid
      /\ N.content = [f \in Frames |-> N.content[f]]
      /\ N.store = [k \in StorePages |-> N.store[k]]
      /\ \A t \in Stores \ {s} : N.bsm[t] = M.bsm[t]
  BY DEF Remapped
<1>2. Typed(N)
  BY <1>0, <1>1 DEF Typed
<1>3. Framed(N) /\ Directed(N) /\ Queued(N)
  BY <1>0, <1>1 DEF Framed, Directed, Queued, IsPage
<1>4. \A f : (IsPage(N, f) <=> IsPage(M, f)) /\ (IsDirty(N, f) <=> IsDirty(M, f))
  BY <1>1 DEF IsDirty, IsPage
<1>5. \A q, w : \A t \in Stores \ {s} : Covers(N, q, t, w) <=> Covers(M, q, t, w)
  BY <1>1 DEF Covers
<1>6. \A t \in Stores \ {s} : Users(N, t) = Users(M, t)
  BY <1>1 DEF Users
<1>. QED
  BY <1>2, <1>3, <1>4, <1>5, <1>6

\* Those who map the same store have something mapped of it, and are not too many.
LEMMA StoredFacts ==
  ASSUME NEW M, Typed(M), Stored(M), NEW s \in Stores
  PROVE  /\ IsFiniteSet(Users(M, s)) /\ Cardinality(Users(M, s)) \in Nat
         /\ Cardinality(Users(M, s)) <= M.bsm[s].total /\ M.bsm[s].total \in Nat
         /\ M.bsm[s].npages = NONE <=> M.bsm[s].total = 0
         /\ Users(M, s) # {} => M.bsm[s].npages \in 1..NPBS /\ M.bsm[s].total # 0
<1>1. IsFiniteSet(Users(M, s))
  BY FS_Subset DEF Stored
<1>2. Cardinality(Users(M, s)) \in Nat /\ (Cardinality(Users(M, s)) = 0 <=> Users(M, s) = {})
  BY <1>1, FS_CardinalityType, FS_EmptySet
<1>3. M.bsm[s].total \in Int /\ M.bsm[s].npages \in (1..NPBS) \cup {NONE}
  BY StoreFields
<1>4. /\ Cardinality(Users(M, s)) <= M.bsm[s].total
      /\ M.bsm[s].npages = NONE <=> M.bsm[s].total = 0
  BY DEF Stored
<1>. QED
  BY <1>1, <1>2, <1>3, <1>4

\* A process sees what it saw if its mappings are what they were.
LEMMA LookupCarries ==
  ASSUME NEW M, NEW N, NEW q,
         \A t \in Stores : N.bsm[t].vpno[q] = M.bsm[t].vpno[q],
         \A t \in Stores : \A w : Covers(N, q, t, w) <=> Covers(M, q, t, w),
         NEW w
  PROVE  Lookup(N, q, w) = Lookup(M, q, w)
<1>1. StoresOf(N, q, w) = StoresOf(M, q, w)
  BY DEF StoresOf
<1>2. CASE StoresOf(M, q, w) = {}
  BY <1>1, <1>2 DEF Lookup
<1>3. CASE StoresOf(M, q, w) # {}
  <2>1. Min(StoresOf(M, q, w)) \in Stores
    BY <1>3, FirstStore
  <2>. QED
    BY <1>1, <1>3, <2>1 DEF Lookup
<1>. QED
  BY <1>2, <1>3

\* N is M with store s mapped by p at v.
Added(N, M, p, v, s) ==
  /\ Remapped(N, M, s)
  /\ N.bsm[s].vpno = [M.bsm[s].vpno EXCEPT ![p] = v]
  /\ N.bsm[s].total = M.bsm[s].total + 1
  /\ N.bsm[s].npages \in 1..NPBS
  /\ M.bsm[s].npages # NONE => N.bsm[s].npages = M.bsm[s].npages
  /\ N.bsm[s].private => N.bsm[s].mapped

\* One more maps the store, at pages that it had nothing at.
LEMMA AddedKeeps ==
  ASSUME NEW M, NEW D, Sound(M, D), NEW p \in M.alive, NEW v \in VPages, NEW s \in Stores,
         NEW N, Added(N, M, p, v, s),
         \A w \in VPages, t \in Stores : Covers(N, p, s, w) => ~Covers(M, p, t, w)
  PROVE  /\ Stored(N) /\ Apart(N) /\ Users(N, s) = Users(M, s) \cup {p}
         /\ \A q \in Procs \ {p} : \A w : Lookup(N, q, w) = Lookup(M, q, w)
<1>0. /\ Typed(M) /\ Stored(M) /\ Apart(M) /\ p \in Procs /\ Remapped(N, M, s) /\ p \in M.alive
      /\ N.alive = M.alive
  BY DEF Sound, Typed, Added, Remapped
<1>1. /\ Typed(N)
      /\ \A q, w : \A t \in Stores \ {s} : Covers(N, q, t, w) <=> Covers(M, q, t, w)
      /\ \A t \in Stores \ {s} : Users(N, t) = Users(M, t) /\ N.bsm[t] = M.bsm[t]
  BY <1>0, RemappedCarries DEF Remapped
<1>2. \A q \in Procs : N.bsm[s].vpno[q] = IF q = p THEN v ELSE M.bsm[s].vpno[q]
  <2>1. M.bsm[s].vpno \in [Procs -> VPages \cup {NONE}]
    BY <1>0, StoreFields
  <2>. QED
    BY <2>1 DEF Added
<1>3. Users(N, s) = Users(M, s) \cup {p}
  BY <1>0, <1>2, Sizes DEF Users
<1>4. /\ IsFiniteSet(Users(M, s)) /\ Cardinality(Users(M, s)) \in Nat
      /\ Cardinality(Users(M, s)) <= M.bsm[s].total /\ M.bsm[s].total \in Nat
      /\ M.bsm[s].npages = NONE <=> M.bsm[s].total = 0
      /\ Users(M, s) # {} => M.bsm[s].npages \in 1..NPBS /\ M.bsm[s].total # 0
  BY <1>0, StoredFacts
<1>5. ASSUME NEW q \in Procs \ {p}
      PROVE  /\ \A t \in Stores : N.bsm[t].vpno[q] = M.bsm[t].vpno[q]
             /\ \A t \in Stores : \A w : Covers(N, q, t, w) <=> Covers(M, q, t, w)
  <2>1. \A t \in Stores : N.bsm[t].vpno[q] = M.bsm[t].vpno[q]
    BY <1>1, <1>2
  <2>2. \A w : Covers(N, q, s, w) <=> Covers(M, q, s, w)
    <3>1. CASE M.bsm[s].vpno[q] = NONE
      BY <2>1, <3>1 DEF Covers
    <3>2. CASE M.bsm[s].vpno[q] # NONE
      <4>1. q \in Users(M, s)
        BY <3>2 DEF Users
      <4>2. N.bsm[s].npages = M.bsm[s].npages
        BY <1>4, <4>1, Sizes DEF Added
      <4>. QED
        BY <2>1, <4>2 DEF Covers
    <3>. QED
      BY <3>1, <3>2
  <2>. QED
    BY <1>1, <2>1, <2>2
<1>6. Stored(N)
  <2>1. Users(N, s) \subseteq N.alive
    BY <1>0, <1>3 DEF Stored
  <2>2. Cardinality(Users(N, s)) <= N.bsm[s].total
    <3>1. Cardinality(Users(M, s) \cup {p}) \in {Cardinality(Users(M, s)), Cardinality(Users(M, s)) + 1}
      BY <1>4, FS_AddElement
    <3>. QED
      BY <1>3, <1>4, <3>1 DEF Added
  <2>3. /\ N.bsm[s].npages # NONE /\ N.bsm[s].total # 0
        /\ N.bsm[s].private => N.bsm[s].mapped
    BY <1>4, Sizes DEF Added
  <2>. QED
    BY <1>0, <1>1, <2>1, <2>2, <2>3 DEF Stored
<1>7. Apart(N)
  <2>. SUFFICES ASSUME NEW q \in Procs, NEW w \in VPages, NEW t \in Stores, NEW u \in Stores,
                       Covers(N, q, t, w), Covers(N, q, u, w)
                PROVE  t = u
    BY DEF Apart
  <2>1. CASE q # p
    BY <1>0, <1>5, <2>1 DEF Apart
  <2>2. CASE q = p /\ t # s /\ u # s
    BY <1>0, <1>1, <2>2 DEF Apart
  <2>3. CASE q = p /\ t = s /\ u # s
    BY <1>1, <2>3
  <2>4. CASE q = p /\ t # s /\ u = s
    BY <1>1, <2>4
  <2>. QED
    BY <2>1, <2>2, <2>3, <2>4
<1>8. \A q \in Procs \ {p} : \A w : Lookup(N, q, w) = Lookup(M, q, w)
  BY <1>5, LookupCarries
<1>. QED
  BY <1>3, <1>6, <1>7, <1>8

\* bsm_map() does that.
LEMMA MapAdds ==
  ASSUME NEW M, Typed(M), Stored(M), NEW p \in Procs, NEW v \in VPages, NEW s \in Stores,
         NEW n \in 1..NPBS, NEW N, N = Map(M, p, v, s, n)
  PROVE  /\ Added(N, M, p, v, s)
         /\ N.strayed = M.strayed /\ N.content = M.content /\ N.store = M.store
         /\ N.bsm[s].private = M.bsm[s].private /\ N.bsm[s].mapped = M.bsm[s].mapped
<1>. PICK e, x : /\ e = M.bsm[s]
                 /\ x = [e EXCEPT !.vpno[p] = v, !.total = @ + 1,
                                  !.npages = IF @ = NONE THEN n ELSE @]
  OBVIOUS
<1>0. /\ IsRecord(M) /\ M.bsm \in [Stores -> StoreEntry] /\ e \in StoreEntry
      /\ e.private => e.mapped
  BY StoreFields DEF Typed, Stored
<1>1. /\ x \in StoreEntry /\ x.vpno = [e.vpno EXCEPT ![p] = v] /\ x.total = e.total + 1
      /\ x.npages = (IF e.npages = NONE THEN n ELSE e.npages)
      /\ x.private = e.private /\ x.mapped = e.mapped
  <2>1. /\ e.vpno \in [Procs -> VPages \cup {NONE}] /\ e.total \in Int
        /\ e.npages \in (1..NPBS) \cup {NONE}
    BY <1>0 DEF StoreEntry
  <2>. PICK a, b : /\ a = (IF e.npages = NONE THEN n ELSE e.npages)
                   /\ b = [e.vpno EXCEPT ![p] = v]
    OBVIOUS
  <2>2. x = [mapped |-> e.mapped, private |-> e.private, npages |-> a,
             total |-> e.total + 1, vpno |-> b]
    BY <1>0 DEF StoreEntry
  <2>3. /\ b \in [Procs -> VPages \cup {NONE}] /\ a \in (1..NPBS) \cup {NONE}
        /\ e.total + 1 \in Int /\ e.mapped \in BOOLEAN /\ e.private \in BOOLEAN
    BY <1>0, <2>1 DEF StoreEntry
  <2>4. x \in StoreEntry
    BY <2>2, <2>3 DEF StoreEntry
  <2>. QED
    BY <2>2, <2>4
<1>2. N.bsm = [M.bsm EXCEPT ![s] = x] /\ IsRecord(N)
      /\ \A y \in Fields \ {"bsm"} : N[y] = M[y]
  <2>1. N = [M EXCEPT !.bsm[s] = x]
    BY <1>0, ProcsAssumption DEF Map, IsRecord, Fields
  <2>. QED
    BY <1>0, <2>1 DEF IsRecord, Fields
<1>3. N.bsm \in [Stores -> StoreEntry] /\ N.bsm[s] = x /\ \A t \in Stores \ {s} : N.bsm[t] = M.bsm[t]
  BY <1>0, <1>1, <1>2
<1>4. /\ N.policy = M.policy /\ N.frame = M.frame /\ N.fifo = M.fifo /\ N.index = M.index
      /\ N.pages = M.pages /\ N.pd = M.pd /\ N.pt = M.pt /\ N.dirty = M.dirty
      /\ N.alive = M.alive /\ N.currpid = M.currpid /\ N.strayed = M.strayed
      /\ N.content = M.content /\ N.store = M.store
  BY <1>2 DEF Fields
<1>5. Remapped(N, M, s)
  <2>1. N.content = [f \in Frames |-> N.content[f]] /\ N.store = [k \in StorePages |-> N.store[k]]
    BY <1>4 DEF Typed
  <2>. QED
    BY <1>2, <1>3, <1>4, <2>1 DEF Remapped
<1>6. x.npages \in 1..NPBS /\ (e.npages # NONE => x.npages = e.npages)
  <2>1. e.npages \in (1..NPBS) \cup {NONE}
    BY <1>0 DEF StoreEntry
  <2>. QED
    BY <1>1, <2>1
<1>. QED
  BY <1>0, <1>1, <1>3, <1>4, <1>5, <1>6 DEF Added

\* Process p has nothing in the n pages at v.
Clear(M, p, v, n) == \A w \in v..v + n - 1 : StoresOf(M, p, w) = {} /\ M.pt[p][w] = NONE

\* The pages of store s that process p has dirty copies of.
WrittenTo(M, p, s) ==
  {k \in {Home(M, f) : f \in {g \in PagesOf(M, p) : IsDirty(M, g)}} : k # <<>> /\ k[1] = s}

\* xmmap(): what the running process wrote to the store it maps again, and did not
\* write back, is all that is lost.
LEMMA MapKeeps ==
  ASSUME NEW M, NEW D, Sound(M, D), NEW p \in M.alive, NEW v \in VPages,
         NEW s \in Stores, NEW n \in 1..NPBS, ~M.bsm[s].private,
         NEW N, N = Map(M, p, v, s, n), Clear(M, p, v, N.bsm[s].npages),
         NEW E, D \subseteq E, WrittenTo(M, p, s) \subseteq E
  PROVE  Sound(N, E) /\ N.strayed = M.strayed /\ N.currpid = M.currpid /\ N.alive = M.alive
<1>0. /\ Typed(M) /\ Framed(M) /\ Stored(M) /\ Apart(M) /\ Fresh(M, D) /\ p \in Procs
  BY DEF Sound, Typed
<1>1. /\ Added(N, M, p, v, s)
      /\ N.strayed = M.strayed /\ N.content = M.content /\ N.store = M.store
      /\ N.bsm[s].private = M.bsm[s].private
  BY <1>0, MapAdds
<1>2. /\ Remapped(N, M, s) /\ N.currpid = M.currpid /\ N.alive = M.alive /\ N.frame = M.frame
      /\ \A t \in Stores \ {s} : N.bsm[t] = M.bsm[t]
  BY <1>1 DEF Added, Remapped
<1>3. /\ Typed(N) /\ Framed(N) /\ Directed(N) /\ Queued(N)
      /\ \A f : (IsPage(N, f) <=> IsPage(M, f)) /\ (IsDirty(N, f) <=> IsDirty(M, f))
      /\ \A q, w : \A t \in Stores \ {s} : Covers(N, q, t, w) <=> Covers(M, q, t, w)
      /\ \A t \in Stores \ {s} : Users(N, t) = Users(M, t)
  BY <1>2, RemappedCarries
<1>4. ASSUME NEW w \in VPages, Covers(N, p, s, w)
      PROVE  (\A t \in Stores : ~Covers(M, p, t, w)) /\ M.pt[p][w] = NONE
  <2>1. N.bsm[s].vpno[p] = v
    <3>1. M.bsm[s].vpno \in [Procs -> VPages \cup {NONE}]
      BY <1>0, StoreFields
    <3>. QED
      BY <1>0, <1>1, <3>1 DEF Added
  <2>2. w \in v..v + N.bsm[s].npages - 1
    BY <1>4, <2>1 DEF Covers
  <2>. QED
    BY <2>2 DEF StoresOf, Clear
<1>5. /\ Stored(N) /\ Apart(N)
      /\ \A q \in Procs \ {p} : \A w : Lookup(N, q, w) = Lookup(M, q, w)
  BY <1>1, <1>4, AddedKeeps
<1>6. ASSUME NEW k \in StorePages \ E PROVE FreshPage(N, k)
  <2>0. FreshPage(M, k) /\ k # <<>> /\ k[1] \in Stores
    BY <1>0, StorePageFacts DEF Fresh
  <2>1. ASSUME NEW f \in Frames, IsPage(M, f), Home(N, f) = k PROVE Home(M, f) = k
    <3>. PICK q, w : q = M.frame[f].pid /\ w = M.frame[f].vpno
      OBVIOUS
    <3>1. q \in Procs /\ w \in VPages /\ M.pt[q][w] = f /\ Home(M, f) = Lookup(M, q, w)
      BY <1>0, <2>1, PageFacts
    <3>2. Lookup(N, q, w) = k
      BY <1>2, <2>1 DEF Home
    <3>3. CASE q # p
      BY <1>5, <3>1, <3>2, <3>3
    <3>4. CASE q = p
      <4>1. PICK t \in Stores : Covers(N, p, t, w) /\ k = <<t, w - N.bsm[t].vpno[p]>>
        BY <1>3, <1>5, <2>0, <3>1, <3>2, <3>4, LookupIs
      <4>2. t # s
        BY <1>4, <3>1, <3>4, <4>1, Sizes
      <4>3. Covers(M, p, t, w) /\ k = <<t, w - M.bsm[t].vpno[p]>>
        BY <1>2, <1>3, <4>1, <4>2
      <4>. QED
        BY <1>0, <3>1, <3>4, <4>3, LookupFinds
    <3>. QED
      BY <3>3, <3>4
  <2>2. ASSUME NEW f \in Frames, Ahead(M, f, k) PROVE Home(N, f) = k
    <3>. PICK q, w : q = M.frame[f].pid /\ w = M.frame[f].vpno
      OBVIOUS
    <3>0. IsPage(M, f) /\ Home(M, f) = k /\ IsDirty(M, f)
      BY <2>2 DEF Ahead
    <3>1. q \in Procs /\ w \in VPages /\ Lookup(M, q, w) = k
      BY <1>0, <3>0, PageFacts
    <3>2. Home(N, f) = Lookup(N, q, w)
      BY <1>2 DEF Home
    <3>3. CASE q # p
      BY <1>5, <3>1, <3>2, <3>3
    <3>4. CASE q = p
      <4>1. PICK t \in Stores : /\ Covers(M, p, t, w) /\ k = <<t, w - M.bsm[t].vpno[p]>>
                                /\ k[1] = t
        BY <1>0, <2>0, <3>1, <3>4, LookupIs
      <4>2. t # s
        <5>1. f \in PagesOf(M, p)
          BY <3>0, <3>4 DEF PagesOf, IsPage
        <5>2. k[1] = s => k \in WrittenTo(M, p, s)
          BY <2>0, <3>0, <5>1 DEF WrittenTo
        <5>. QED
          BY <4>1, <5>2
      <4>3. Covers(N, p, t, w) /\ k = <<t, w - N.bsm[t].vpno[p]>>
        BY <1>2, <1>3, <4>1, <4>2
      <4>. QED
        BY <1>0, <1>3, <1>5, <3>1, <3>2, <3>4, <4>3, LookupFinds
    <3>. QED
      BY <3>3, <3>4
  <2>3. N.bsm[k[1]].private = M.bsm[k[1]].private
    BY <1>1, <1>2, <2>0
  <2>4. \A f \in Frames : Counts(N, f, k) => Counts(M, f, k)
    BY <1>2, <1>3, <2>1, <2>3 DEF Counts
  <2>5. \A f \in Frames : Ahead(M, f, k) => Ahead(N, f, k)
    BY <1>2, <1>3, <2>2, <2>3 DEF Ahead
  <2>6. N.bsm[k[1]].private => \A q, r \in Users(N, k[1]) : q = r
    <3>1. CASE k[1] = s
      BY <2>3, <3>1
    <3>2. CASE k[1] # s
      BY <1>3, <2>0, <2>3, <3>2 DEF FreshPage
    <3>. QED
      BY <3>1, <3>2
  <2>. QED
    BY <1>1, <2>0, <2>4, <2>5, <2>6 DEF FreshPage
<1>. QED
  BY <1>1, <1>2, <1>3, <1>5, <1>6 DEF Sound, Fresh

\* N is M with store s no longer mapped by p, and given up if p was the last.
Dropped(N, M, p, s) ==
  /\ Remapped(N, M, s) /\ N.content = M.content /\ N.store = M.store
  /\ N.bsm[s].vpno = [M.bsm[s].vpno EXCEPT ![p] = NONE]
  /\ N.bsm[s].total = M.bsm[s].total - 1
  /\ IF N.bsm[s].total = 0
     THEN N.bsm[s].npages = NONE /\ ~N.bsm[s].private
     ELSE /\ N.bsm[s].npages = M.bsm[s].npages /\ N.bsm[s].private = M.bsm[s].private
          /\ N.bsm[s].mapped = M.bsm[s].mapped

\* Nobody else loses a page by that.
LEMMA DroppedKeeps ==
  ASSUME NEW M, NEW D, Sound(M, D), NEW p \in Procs, PagesOf(M, p) = {}, NEW s \in Stores,
         p \in Users(M, s), NEW N, Dropped(N, M, p, s)
  PROVE  Sound(N, D)
<1>0. /\ Typed(M) /\ Framed(M) /\ Stored(M) /\ Apart(M) /\ Fresh(M, D)
      /\ Remapped(N, M, s) /\ N.frame = M.frame /\ N.alive = M.alive /\ N.currpid = M.currpid
      /\ N.content = M.content /\ N.store = M.store
      /\ \A t \in Stores \ {s} : N.bsm[t] = M.bsm[t]
  BY DEF Sound, Dropped, Remapped
<1>1. /\ Typed(N) /\ Framed(N) /\ Directed(N) /\ Queued(N)
      /\ \A f : (IsPage(N, f) <=> IsPage(M, f)) /\ (IsDirty(N, f) <=> IsDirty(M, f))
      /\ \A q, w : \A t \in Stores \ {s} : Covers(N, q, t, w) <=> Covers(M, q, t, w)
      /\ \A t \in Stores \ {s} : Users(N, t) = Users(M, t)
  BY <1>0, RemappedCarries
<1>2. \A q \in Procs : N.bsm[s].vpno[q] = IF q = p THEN NONE ELSE M.bsm[s].vpno[q]
  <2>1. M.bsm[s].vpno \in [Procs -> VPages \cup {NONE}]
    BY <1>0, StoreFields
  <2>. QED
    BY <2>1 DEF Dropped
<1>3. Users(N, s) = Users(M, s) \ {p}
  BY <1>2 DEF Users
<1>4. /\ IsFiniteSet(Users(M, s)) /\ Cardinality(Users(M, s)) \in Nat
      /\ Cardinality(Users(M, s)) <= M.bsm[s].total /\ M.bsm[s].total \in Nat
      /\ M.bsm[s].npages \in 1..NPBS /\ M.bsm[s].total # 0
  BY <1>0, StoredFacts
<1>5. /\ IsFiniteSet(Users(N, s)) /\ Cardinality(Users(N, s)) = Cardinality(Users(M, s)) - 1
      /\ Cardinality(Users(N, s)) \in Nat /\ (Cardinality(Users(N, s)) = 0 <=> Users(N, s) = {})
  <2>1. IsFiniteSet(Users(N, s)) /\ Cardinality(Users(N, s)) = Cardinality(Users(M, s)) - 1
    BY <1>3, <1>4, FS_RemoveElement
  <2>. QED
    BY <2>1, FS_CardinalityType, FS_EmptySet
<1>6. /\ Cardinality(Users(N, s)) <= N.bsm[s].total
      /\ N.bsm[s].total = 0 => Users(N, s) = {}
  BY <1>4, <1>5 DEF Dropped
<1>7. Stored(N)
  <2>1. Users(N, s) \subseteq N.alive
    BY <1>0, <1>3 DEF Stored
  <2>2. /\ N.bsm[s].npages = NONE <=> N.bsm[s].total = 0
        /\ N.bsm[s].private => N.bsm[s].mapped
    <3>1. M.bsm[s].private => M.bsm[s].mapped
      BY <1>0 DEF Stored
    <3>. QED
      BY <1>4, <3>1, Sizes DEF Dropped
  <2>. QED
    BY <1>0, <1>1, <1>6, <2>1, <2>2 DEF Stored
<1>8. \A q \in Procs \ {p} : /\ \A t \in Stores : N.bsm[t].vpno[q] = M.bsm[t].vpno[q]
                             /\ \A t \in Stores : \A w : Covers(N, q, t, w) <=> Covers(M, q, t, w)
  <2>. TAKE q \in Procs \ {p}
  <2>1. \A t \in Stores : N.bsm[t].vpno[q] = M.bsm[t].vpno[q]
    BY <1>0, <1>2
  <2>2. \A w : Covers(N, q, s, w) <=> Covers(M, q, s, w)
    <3>1. CASE M.bsm[s].vpno[q] = NONE
      BY <2>1, <3>1 DEF Covers
    <3>2. CASE M.bsm[s].vpno[q] # NONE
      <4>1. q \in Users(N, s)
        BY <1>3, <3>2 DEF Users
      <4>2. N.bsm[s].npages = M.bsm[s].npages
        BY <1>6, <4>1 DEF Dropped
      <4>. QED
        BY <2>1, <4>2 DEF Covers
    <3>. QED
      BY <3>1, <3>2
  <2>. QED
    BY <1>1, <2>1, <2>2
<1>9. Apart(N)
  <2>1. \A w : ~Covers(N, p, s, w)
    BY <1>2 DEF Covers
  <2>. SUFFICES ASSUME NEW q \in Procs, NEW w \in VPages, NEW t \in Stores, NEW u \in Stores,
                       Covers(N, q, t, w), Covers(N, q, u, w)
                PROVE  t = u
    BY DEF Apart
  <2>2. CASE q # p
    BY <1>0, <1>8, <2>2 DEF Apart
  <2>3. CASE q = p
    <3>1. t # s /\ u # s
      BY <2>1, <2>3
    <3>. QED
      BY <1>0, <1>1, <2>3, <3>1 DEF Apart
  <2>. QED
    BY <2>2, <2>3
<1>10. ASSUME NEW k \in StorePages \ D PROVE FreshPage(N, k)
  <2>0. FreshPage(M, k) /\ k # <<>> /\ k[1] \in Stores
    BY SMTT(30), <1>0 DEF Fresh, StorePages
  <2>1. ASSUME NEW f \in Frames, IsPage(M, f)
        PROVE  Home(N, f) = Home(M, f) /\ M.frame[f].pid # p
    <3>. PICK q, w : q = M.frame[f].pid /\ w = M.frame[f].vpno
      OBVIOUS
    <3>1. q \in Procs /\ q # p /\ Home(M, f) = Lookup(M, q, w)
      BY <1>0, <2>1, PageFacts DEF PagesOf, IsPage
    <3>2. Lookup(N, q, w) = Lookup(M, q, w)
      BY <1>8, <3>1, LookupCarries
    <3>. QED
      BY <1>0, <3>1, <3>2 DEF Home
  <2>2. \/ N.bsm[k[1]].private = M.bsm[k[1]].private
        \/ ~N.bsm[k[1]].private /\ Users(N, k[1]) = {}
    BY <1>0, <1>6, <2>0 DEF Dropped
  <2>3. ASSUME NEW f \in Frames, IsPage(M, f), Home(M, f) = k PROVE Users(N, k[1]) # {}
    <3>1. Typed(N) /\ Apart(N) /\ M.frame[f].pid \in Procs /\ M.frame[f].vpno \in VPages
          /\ Lookup(N, M.frame[f].pid, M.frame[f].vpno) = k
      BY <1>0, <1>1, <1>9, <2>1, <2>3, PageFacts DEF Home
    <3>. QED
      BY <2>0, <3>1, LookupIs
  <2>4. \A f \in Frames : Counts(N, f, k) => Counts(M, f, k)
    BY <1>0, <1>1, <2>1, <2>2, <2>3 DEF Counts
  <2>5. \A f \in Frames : Ahead(M, f, k) => Ahead(N, f, k)
    BY <1>0, <1>1, <2>1, <2>2, <2>3 DEF Ahead
  <2>6. N.bsm[k[1]].private => \A q, r \in Users(N, k[1]) : q = r
    <3>1. Users(N, k[1]) \subseteq Users(M, k[1])
      BY <1>1, <1>3, <2>0
    <3>. QED
      BY <2>0, <2>2, <3>1 DEF FreshPage
  <2>. QED
    BY <1>0, <2>0, <2>4, <2>5, <2>6 DEF FreshPage
<1>. QED
  BY <1>1, <1>7, <1>9, <1>10 DEF Sound, Fresh

\* The end of bsm_unmap() does that.
LeftBy(M, p, s) == [M EXCEPT !.bsm[s].vpno[p] = NONE, !.bsm[s].total = @ - 1]
Emptied(M, s) == [M EXCEPT !.bsm[s].npages = NONE]
GivenUp(M, s) == IF M.bsm[s].total # 0 THEN M ELSE FreeStore(Emptied(M, s), s)

\* The process is no longer in the entry of the store, and counted out.
LEMMA LeftByEntry ==
  ASSUME NEW M, Typed(M), NEW p \in Procs, NEW s \in Stores, NEW N, N = LeftBy(M, p, s)
  PROVE  /\ IsRecord(N) /\ N.bsm \in [Stores -> StoreEntry]
         /\ \A x \in Fields \ {"bsm"} : N[x] = M[x]
         /\ \A t \in Stores \ {s} : N.bsm[t] = M.bsm[t]
         /\ N.bsm[s].vpno = [M.bsm[s].vpno EXCEPT ![p] = NONE]
         /\ N.bsm[s].total = M.bsm[s].total - 1
         /\ N.bsm[s].npages = M.bsm[s].npages
         /\ N.bsm[s].private = M.bsm[s].private /\ N.bsm[s].mapped = M.bsm[s].mapped
<1>. PICK e : e = M.bsm[s]
  OBVIOUS
<1>. PICK x : x = [e EXCEPT !.vpno[p] = NONE, !.total = @ - 1]
  OBVIOUS
<1>0. IsRecord(M) /\ M.bsm \in [Stores -> StoreEntry] /\ e \in StoreEntry
  BY StoreFields DEF Typed
<1>1. x \in StoreEntry /\ x.vpno = [e.vpno EXCEPT ![p] = NONE] /\ x.total = e.total - 1
      /\ x.npages = e.npages /\ x.private = e.private /\ x.mapped = e.mapped
  <2>. PICK b : b = [e.vpno EXCEPT ![p] = NONE]
    OBVIOUS
  <2>1. x = [mapped |-> e.mapped, private |-> e.private, npages |-> e.npages,
             total |-> e.total - 1, vpno |-> b]
    BY <1>0 DEF StoreEntry
  <2>2. /\ e.vpno \in [Procs -> VPages \cup {NONE}] /\ e.npages \in (1..NPBS) \cup {NONE}
        /\ e.total - 1 \in Int /\ e.mapped \in BOOLEAN /\ e.private \in BOOLEAN
    BY <1>0 DEF StoreEntry
  <2>3. b \in [Procs -> VPages \cup {NONE}]
    BY <2>2
  <2>4. x \in StoreEntry
    BY <2>1, <2>2, <2>3 DEF StoreEntry
  <2>. QED
    BY <2>1, <2>4
<1>2. N = [M EXCEPT !.bsm[s] = x]
  BY <1>0 DEF LeftBy, IsRecord, Fields
<1>3. N.bsm = [M.bsm EXCEPT ![s] = x] /\ IsRecord(N) /\ \A v \in Fields \ {"bsm"} : N[v] = M[v]
  BY <1>0, <1>2 DEF IsRecord, Fields
<1>4. N.bsm \in [Stores -> StoreEntry] /\ N.bsm[s] = x /\ \A t \in Stores \ {s} : N.bsm[t] = M.bsm[t]
  BY <1>0, <1>1, <1>3
<1>. QED
  BY <1>1, <1>3, <1>4

\* release_bs() and the last bsm_unmap() of a store: it is free again.
LEMMA FreeStoreEntry ==
  ASSUME NEW M, IsRecord(M), M.bsm \in [Stores -> StoreEntry], NEW s \in Stores,
         NEW N, N = FreeStore(M, s)
  PROVE  /\ IsRecord(N) /\ N.bsm \in [Stores -> StoreEntry]
         /\ \A x \in Fields \ {"bsm"} : N[x] = M[x]
         /\ \A t \in Stores \ {s} : N.bsm[t] = M.bsm[t]
         /\ N.bsm[s].vpno = M.bsm[s].vpno /\ N.bsm[s].total = M.bsm[s].total
         /\ N.bsm[s].npages = M.bsm[s].npages
         /\ ~N.bsm[s].private /\ ~N.bsm[s].mapped
<1>. PICK e : e = M.bsm[s]
  OBVIOUS
<1>. PICK y : y = [e EXCEPT !.mapped = FALSE, !.private = FALSE]
  OBVIOUS
<1>0. e \in StoreEntry
  OBVIOUS
<1>1. y \in StoreEntry /\ y.vpno = e.vpno /\ y.total = e.total
      /\ y.npages = e.npages /\ y.private = FALSE /\ y.mapped = FALSE
  BY <1>0 DEF StoreEntry
<1>2. N = [M EXCEPT !.bsm[s] = y]
  BY DEF FreeStore, IsRecord, Fields
<1>3. N.bsm = [M.bsm EXCEPT ![s] = y] /\ IsRecord(N) /\ \A v \in Fields \ {"bsm"} : N[v] = M[v]
  BY <1>2 DEF IsRecord, Fields
<1>4. N.bsm \in [Stores -> StoreEntry] /\ N.bsm[s] = y /\ \A t \in Stores \ {s} : N.bsm[t] = M.bsm[t]
  BY <1>1, <1>3
<1>. QED
  BY <1>1, <1>3, <1>4

\* The entry of a store without a length.
LEMMA EmptiedEntry ==
  ASSUME NEW M, IsRecord(M), M.bsm \in [Stores -> StoreEntry], NEW s \in Stores,
         NEW N, N = Emptied(M, s)
  PROVE  /\ IsRecord(N) /\ N.bsm \in [Stores -> StoreEntry]
         /\ \A x \in Fields \ {"bsm"} : N[x] = M[x]
         /\ \A t \in Stores \ {s} : N.bsm[t] = M.bsm[t]
         /\ N.bsm[s].vpno = M.bsm[s].vpno /\ N.bsm[s].total = M.bsm[s].total
         /\ N.bsm[s].npages = NONE
<1>. PICK e : e = M.bsm[s]
  OBVIOUS
<1>. PICK y : y = [e EXCEPT !.npages = NONE]
  OBVIOUS
<1>0. e \in StoreEntry
  OBVIOUS
<1>1. y \in StoreEntry /\ y.vpno = e.vpno /\ y.total = e.total /\ y.npages = NONE
  BY <1>0 DEF StoreEntry
<1>2. N = [M EXCEPT !.bsm[s] = y]
  BY DEF Emptied, IsRecord, Fields
<1>3. N.bsm = [M.bsm EXCEPT ![s] = y] /\ IsRecord(N) /\ \A v \in Fields \ {"bsm"} : N[v] = M[v]
  BY <1>2 DEF IsRecord, Fields
<1>4. N.bsm \in [Stores -> StoreEntry] /\ N.bsm[s] = y /\ \A t \in Stores \ {s} : N.bsm[t] = M.bsm[t]
  BY <1>1, <1>3
<1>. QED
  BY <1>1, <1>3, <1>4

\* That is what bsm_unmap() does when the pages are gone.
LEMMA UnmapDrops ==
  ASSUME NEW M, Typed(M), NEW p \in Procs, NEW s \in Stores,
         NEW N, N = GivenUp(LeftBy(M, p, s), s)
  PROVE  Dropped(N, M, p, s) /\ N.strayed = M.strayed
<1>. PICK L : L = LeftBy(M, p, s)
  OBVIOUS
<1>1. /\ IsRecord(L) /\ L.bsm \in [Stores -> StoreEntry]
      /\ \A x \in Fields \ {"bsm"} : L[x] = M[x]
      /\ \A t \in Stores \ {s} : L.bsm[t] = M.bsm[t]
      /\ L.bsm[s].vpno = [M.bsm[s].vpno EXCEPT ![p] = NONE]
      /\ L.bsm[s].total = M.bsm[s].total - 1
      /\ L.bsm[s].npages = M.bsm[s].npages
      /\ L.bsm[s].private = M.bsm[s].private /\ L.bsm[s].mapped = M.bsm[s].mapped
  BY LeftByEntry
<1>2. /\ IsRecord(N) /\ N.bsm \in [Stores -> StoreEntry]
      /\ \A x \in Fields \ {"bsm"} : N[x] = M[x]
      /\ \A t \in Stores \ {s} : N.bsm[t] = M.bsm[t]
      /\ N.bsm[s].vpno = [M.bsm[s].vpno EXCEPT ![p] = NONE]
      /\ N.bsm[s].total = M.bsm[s].total - 1
      /\ IF N.bsm[s].total = 0
         THEN N.bsm[s].npages = NONE /\ ~N.bsm[s].private
         ELSE /\ N.bsm[s].npages = M.bsm[s].npages /\ N.bsm[s].private = M.bsm[s].private
              /\ N.bsm[s].mapped = M.bsm[s].mapped
  <2>1. CASE L.bsm[s].total # 0
    <3>1. N = L
      BY <2>1 DEF GivenUp
    <3>. QED
      BY <1>1, <2>1, <3>1
  <2>2. CASE L.bsm[s].total = 0
    <3>. PICK E : E = Emptied(L, s)
      OBVIOUS
    <3>. PICK G : G = FreeStore(E, s)
      OBVIOUS
    <3>1. N = G
      BY <2>2 DEF GivenUp
    <3>2. /\ IsRecord(E) /\ E.bsm \in [Stores -> StoreEntry]
          /\ \A x \in Fields \ {"bsm"} : E[x] = L[x]
          /\ \A t \in Stores \ {s} : E.bsm[t] = L.bsm[t]
          /\ E.bsm[s].vpno = L.bsm[s].vpno /\ E.bsm[s].total = L.bsm[s].total
          /\ E.bsm[s].npages = NONE
      BY <1>1, EmptiedEntry
    <3>3. /\ IsRecord(G) /\ G.bsm \in [Stores -> StoreEntry]
          /\ \A x \in Fields \ {"bsm"} : G[x] = E[x]
          /\ \A t \in Stores \ {s} : G.bsm[t] = E.bsm[t]
          /\ G.bsm[s].vpno = E.bsm[s].vpno /\ G.bsm[s].total = E.bsm[s].total
          /\ G.bsm[s].npages = E.bsm[s].npages /\ ~G.bsm[s].private
      BY <3>2, FreeStoreEntry
    <3>4. /\ \A x \in Fields \ {"bsm"} : G[x] = M[x]
          /\ \A t \in Stores \ {s} : G.bsm[t] = M.bsm[t]
      BY <1>1, <3>2, <3>3
    <3>5. /\ G.bsm[s].vpno = [M.bsm[s].vpno EXCEPT ![p] = NONE]
          /\ G.bsm[s].total = M.bsm[s].total - 1 /\ G.bsm[s].total = 0
          /\ G.bsm[s].npages = NONE
      BY <1>1, <2>2, <3>2, <3>3
    <3>. QED
      BY ZenonT(30), <3>1, <3>3, <3>4, <3>5
  <2>. QED
    BY <2>1, <2>2
<1>3. /\ N.policy = M.policy /\ N.frame = M.frame /\ N.fifo = M.fifo /\ N.index = M.index
      /\ N.pages = M.pages /\ N.pd = M.pd /\ N.pt = M.pt /\ N.dirty = M.dirty
      /\ N.alive = M.alive /\ N.currpid = M.currpid /\ N.strayed = M.strayed
      /\ N.content = M.content /\ N.store = M.store
  BY <1>2 DEF Fields
<1>4. N.content = [f \in Frames |-> N.content[f]] /\ N.store = [k \in StorePages |-> N.store[k]]
  BY <1>3 DEF Typed
<1>5. Remapped(N, M, s)
  BY <1>2, <1>3, <1>4 DEF Remapped
<1>. QED
  BY <1>2, <1>3, <1>5 DEF Dropped

\* bsm_unmap()
LEMMA UnmapKeeps ==
  ASSUME NEW M, NEW D, Sound(M, D), NEW p \in Procs, NEW v, StoresOf(M, p, v) # {},
         NEW N, N = Unmap(M, p, v), ~Strays(N)
  PROVE  /\ Sound(N, D) /\ N.currpid = M.currpid /\ N.alive = M.alive /\ PagesOf(N, p) = {}
         /\ N.bsm[Min(StoresOf(M, p, v))].vpno[p] = NONE
         /\ \A t \in Stores \ {Min(StoresOf(M, p, v))} : N.bsm[t].vpno[p] = M.bsm[t].vpno[p]
<1>. PICK s, X : s = Min(StoresOf(M, p, v)) /\ X = FreeFrames(M, PagesOf(M, p))
  OBVIOUS
<1>. PICK E : E = GivenUp(LeftBy(X, p, s), s)
  OBVIOUS
<1>0. s \in Stores /\ Covers(M, p, s, v)
  BY FirstStore
<1>1. N = IF X.strayed THEN X ELSE E
  BY DEF Unmap, LeftBy, Emptied, GivenUp
<1>2. ~Strays(X) /\ N = E
  BY <1>1 DEF Strays
<1>3. Sound(X, D) /\ SameWorld(X, M) /\ PagesOf(X, p) = {}
  BY <1>2, FreeFramesKeep DEF Strays
<1>4. Typed(X) /\ X.bsm = M.bsm /\ X.currpid = M.currpid /\ X.alive = M.alive
  BY <1>3 DEF Sound, SameWorld
<1>5. Dropped(E, X, p, s)
  BY <1>0, <1>4, UnmapDrops
<1>6. p \in Users(X, s)
  BY <1>0, <1>4 DEF Covers, Users
<1>7. Sound(E, D)
  BY <1>0, <1>3, <1>5, <1>6, DroppedKeeps
<1>8. /\ E.currpid = X.currpid /\ E.alive = X.alive /\ E.frame = X.frame
      /\ \A t \in Stores \ {s} : E.bsm[t] = X.bsm[t]
      /\ E.bsm[s].vpno = [X.bsm[s].vpno EXCEPT ![p] = NONE]
  BY <1>5 DEF Dropped, Remapped
<1>9. PagesOf(E, p) = {}
  <2>1. PagesOf(E, p) = PagesOf(X, p)
    BY <1>8 DEF PagesOf
  <2>. QED
    BY <1>3, <2>1
<1>10. /\ E.bsm[s].vpno[p] = NONE
       /\ \A t \in Stores \ {s} : E.bsm[t].vpno[p] = M.bsm[t].vpno[p]
  <2>1. X.bsm[s].vpno \in [Procs -> VPages \cup {NONE}]
    BY <1>0, <1>4, StoreFields
  <2>. QED
    BY <1>4, <1>8, <2>1
<1>. QED
  BY <1>2, <1>4, <1>7, <1>8, <1>9, <1>10

\* kill() unmaps a store that the process maps, if it maps it.
LEMMA UnmapStoreKeeps ==
  ASSUME NEW M, NEW D, Sound(M, D), NEW p \in Procs, PagesOf(M, p) = {}, NEW s \in Stores,
         ~Strays(M), NEW N, N = UnmapStore(M, p, s), ~Strays(N)
  PROVE  /\ Sound(N, D) /\ N.currpid = M.currpid /\ N.alive = M.alive /\ PagesOf(N, p) = {}
         /\ N.bsm[s].vpno[p] = NONE
         /\ \A t \in Stores \ {s} : N.bsm[t].vpno[p] = M.bsm[t].vpno[p]
<1>. PICK v : v = M.bsm[s].vpno[p]
  OBVIOUS
<1>0. Typed(M) /\ Stored(M) /\ Apart(M)
  BY DEF Sound
<1>1. CASE v = NONE
  BY <1>1 DEF UnmapStore
<1>2. CASE v # NONE
  <2>1. N = Unmap(M, p, v)
    BY <1>2 DEF UnmapStore, Strays
  <2>2. p \in Users(M, s)
    BY <1>2 DEF Users
  <2>3. v \in VPages /\ v \in Int /\ M.bsm[s].npages \in 1..NPBS
    BY <1>0, <1>2, <2>2, StoreFields, StoredFacts, Sizes DEF VPages
  <2>4. Covers(M, p, s, v)
    BY <1>2, <2>3, Sizes DEF Covers
  <2>5. StoresOf(M, p, v) # {}
    BY <2>4 DEF StoresOf
  <2>6. Min(StoresOf(M, p, v)) = s
    BY <1>0, <2>3, <2>4, <2>5, FirstStore DEF Apart
  <2>. QED
    BY SMTT(30), <2>1, <2>5, <2>6, UnmapKeeps
<1>. QED
  BY <1>1, <1>2

\* All stores of a process that has no pages any more are unmapped.
LEMMA UnmapStoresKeep ==
  ASSUME NEW M, NEW D, NEW p \in Procs,
         ~Strays(M) => Sound(M, D) /\ PagesOf(M, p) = {},
         NEW N, N = UnmapStores(M, p), ~Strays(N)
  PROVE  /\ Sound(N, D) /\ N.currpid = M.currpid /\ N.alive = M.alive /\ PagesOf(N, p) = {}
         /\ \A s \in Stores : N.bsm[s].vpno[p] = NONE
         /\ ~Strays(M)
<1>0. NBS \in Nat
  BY Sizes
<1>1. PICK f : Rounds(f, [kind |-> "unmap", p |-> p], M, NBS) /\ N = f[NBS]
  BY UnmapStoresRounds
<1>2. f[0] = M /\ \A n \in 1..NBS : f[n] = UnmapStore(f[n - 1], p, n - 1)
  BY <1>1 DEF Rounds, Round
<1>. DEFINE Lost(m) == Strays(f[m])
            Good(m) == /\ Sound(f[m], D) /\ ~Strays(f[m]) /\ ~Strays(M)
                       /\ f[m].currpid = M.currpid /\ f[m].alive = M.alive
                       /\ PagesOf(f[m], p) = {}
                       /\ \A s \in Stores : s < m => f[m].bsm[s].vpno[p] = NONE
<1>3. Lost(0) \/ Good(0)
  <2>1. \A s \in Stores : ~(s < 0)
    BY DEF Stores
  <2>. QED
    BY <1>2, <2>1
<1>4. ASSUME NEW m \in 1..NBS, Lost(m - 1) \/ Good(m - 1) PROVE Lost(m) \/ Good(m)
  <2>. PICK s \in Stores : s = m - 1
    BY <1>0 DEF Stores
  <2>0. \A t \in Stores : t < m <=> t < s \/ t = s
    BY <1>0 DEF Stores
  <2>1. PICK A, B : A = f[s] /\ B = f[m]
    OBVIOUS
  <2>2. B = UnmapStore(A, p, s)
    BY <1>2, <2>1
  <2>3. CASE Lost(s)
    <3>1. Strays(A)
      BY <2>1, <2>3
    <3>2. B = A
      BY <2>2, <3>1 DEF UnmapStore, Strays
    <3>. QED
      BY <2>1, <3>1, <3>2
  <2>4. CASE Good(s) /\ ~Strays(B)
    <3>1. /\ Sound(A, D) /\ ~Strays(A) /\ ~Strays(M)
          /\ A.currpid = M.currpid /\ A.alive = M.alive /\ PagesOf(A, p) = {}
          /\ \A t \in Stores : t < s => A.bsm[t].vpno[p] = NONE
      BY <2>1, <2>4
    <3>2. /\ Sound(B, D) /\ B.currpid = A.currpid /\ B.alive = A.alive /\ PagesOf(B, p) = {}
          /\ B.bsm[s].vpno[p] = NONE
          /\ \A t \in Stores \ {s} : B.bsm[t].vpno[p] = A.bsm[t].vpno[p]
      BY <2>2, <2>4, <3>1, UnmapStoreKeeps
    <3>3. \A t \in Stores : t < m => B.bsm[t].vpno[p] = NONE
      BY <2>0, <3>1, <3>2
    <3>. QED
      BY <2>1, <2>4, <3>1, <3>2, <3>3
  <2>. QED
    BY <1>4, <2>1, <2>3, <2>4
<1>5. Lost(NBS) \/ Good(NBS)
  <2>. HIDE DEF Lost, Good
  <2>1. PICK F : F = {m \in 0..NBS : Lost(m) \/ Good(m)}
    OBVIOUS
  <2>2. 0 \in F /\ \A m \in 1..NBS : m - 1 \in F => m \in F
    BY <1>0, <1>3, <1>4, <2>1
  <2>3. NBS \in F
    BY <1>0, <2>2, UpToTheLast
  <2>. QED
    BY <2>1, <2>3
<1>6. Good(NBS)
  BY <1>1, <1>5
<1>7. \A s \in Stores : s < NBS
  BY <1>0 DEF Stores
<1>. QED
  BY <1>1, <1>6, <1>7

\* N is M without process p, that had no pages and no stores left.
Removed(N, M, p) ==
  /\ IsRecord(N) /\ N.policy = M.policy /\ N.bsm = M.bsm /\ N.currpid = M.currpid
  /\ N.strayed = M.strayed /\ N.content = M.content /\ N.fifo = M.fifo
  /\ N.index = M.index /\ N.pages = M.pages /\ N.store = M.store
  /\ N.alive = M.alive \ {p}
  /\ N.frame = [f \in Frames |-> IF M.frame[f] = Owned("DIR", p) THEN Unmapped ELSE M.frame[f]]
  /\ N.pd = [M.pd EXCEPT ![p] = [t \in Tables |-> NONE]]
  /\ N.pt = [M.pt EXCEPT ![p] = [v \in VPages |-> NONE]]
  /\ N.dirty = [M.dirty EXCEPT ![p] = {}]

\* What is left of a process with no pages and no stores is its directory.
LEMMA RemovedKeeps ==
  ASSUME NEW M, NEW D, Sound(M, D), NEW p \in Procs, PagesOf(M, p) = {},
         \A s \in Stores : M.bsm[s].vpno[p] = NONE, NEW N, Removed(N, M, p)
  PROVE  Sound(N, D)
<1>0. Typed(M) /\ Framed(M) /\ Directed(M) /\ Queued(M) /\ Stored(M) /\ Apart(M) /\ Fresh(M, D)
  BY DEF Sound
<1>1. /\ IsRecord(N) /\ N.policy = M.policy /\ N.bsm = M.bsm /\ N.currpid = M.currpid
      /\ N.content = M.content /\ N.fifo = M.fifo
      /\ N.index = M.index /\ N.pages = M.pages /\ N.store = M.store
      /\ N.alive = M.alive \ {p}
      /\ N.frame = [f \in Frames |-> IF M.frame[f] = Owned("DIR", p) THEN Unmapped ELSE M.frame[f]]
      /\ N.pd = [M.pd EXCEPT ![p] = [t \in Tables |-> NONE]]
      /\ N.pt = [M.pt EXCEPT ![p] = [v \in VPages |-> NONE]]
      /\ N.dirty = [M.dirty EXCEPT ![p] = {}]
  BY DEF Removed
<1>2. \A f \in Frames : /\ N.frame[f] = IF M.frame[f] = Owned("DIR", p) THEN Unmapped ELSE M.frame[f]
                        /\ IsPage(N, f) <=> IsPage(M, f)
                        /\ IsPage(M, f) => N.frame[f] = M.frame[f]
  BY <1>1, UnmappedFacts DEF IsPage
<1>3. N.frame \in [Frames -> FrameEntry]
  <2>1. \A f \in Frames : N.frame[f] \in FrameEntry
    BY <1>0, <1>2, FrameFields, UnmappedFacts
  <2>2. N.frame = [f \in Frames |-> N.frame[f]]
    BY <1>1
  <2>. QED
    BY <2>1, <2>2
<1>4. /\ N.pd \in [Procs -> [Tables -> Frames \cup {NONE}]]
      /\ \A t \in Tables : N.pd[p][t] = NONE
      /\ \A q \in Procs \ {p} : N.pd[q] = M.pd[q]
  <2>1. M.pd \in [Procs -> [Tables -> Frames \cup {NONE}]]
    BY <1>0 DEF Typed
  <2>. QED
    BY <1>1, <2>1
<1>5. /\ N.pt \in [Procs -> [VPages -> Frames \cup {NONE}]]
      /\ \A v \in VPages : N.pt[p][v] = NONE
      /\ \A q \in Procs \ {p} : N.pt[q] = M.pt[q]
  <2>1. M.pt \in [Procs -> [VPages -> Frames \cup {NONE}]]
    BY <1>0 DEF Typed
  <2>. QED
    BY <1>1, <2>1
<1>6. /\ N.dirty \in [Procs -> SUBSET VPages]
      /\ \A q \in Procs \ {p} : N.dirty[q] = M.dirty[q]
  <2>1. M.dirty \in [Procs -> SUBSET VPages]
    BY <1>0 DEF Typed
  <2>. QED
    BY <1>1, <2>1
<1>7. Typed(N)
  <2>1. N.alive \in SUBSET Procs
    BY <1>0, <1>1 DEF Typed
  <2>. QED
    BY <1>0, <1>1, <1>3, <1>4, <1>5, <1>6, <2>1 DEF Typed
<1>8. ASSUME NEW f \in Frames, IsPage(M, f)
      PROVE  /\ M.frame[f].pid \in Procs \ {p} /\ M.frame[f].pid \in N.alive
             /\ N.frame[f] = M.frame[f]
  <2>1. M.frame[f].pid \in Procs /\ M.frame[f].pid \in M.alive
    BY <1>0, <1>8, PageFacts
  <2>2. M.frame[f].pid # p
    BY <1>8 DEF PagesOf, IsPage
  <2>. QED
    BY <1>1, <1>2, <1>8, <2>1, <2>2
<1>9. Framed(N)
  <2>1. ASSUME NEW g \in Frames
        PROVE  LET fr == N.frame[g]
               IN  /\ fr.type = "UNMAPPED" => fr = Unmapped
                   /\ fr.type = "DIR" => fr = Owned("DIR", fr.pid) /\ fr.pid \in N.alive
                   /\ fr.type = "TBL" => fr = Owned("TBL", fr.pid)
                   /\ fr.type = "PAGE" => /\ fr.pid \in N.alive /\ fr.vpno \in VPages
                                          /\ N.pt[fr.pid][fr.vpno] = g
    <3>1. CASE M.frame[g] = Owned("DIR", p)
      BY <1>2, <3>1, UnmappedFacts
    <3>2. CASE IsPage(M, g)
      <4>1. N.pt[M.frame[g].pid] = M.pt[M.frame[g].pid]
        BY <1>5, <1>8, <3>2
      <4>. QED
        BY <1>0, <1>8, <3>2, <4>1 DEF Framed, IsPage
    <3>3. CASE M.frame[g] # Owned("DIR", p) /\ ~IsPage(M, g)
      <4>1. N.frame[g] = M.frame[g]
        BY <1>2, <3>3
      <4>. QED
        BY <1>0, <1>1, <3>3, <4>1 DEF Framed, IsPage
    <3>. QED
      BY <3>1, <3>2, <3>3
  <2>2. ASSUME NEW q \in Procs, NEW w \in VPages, N.pt[q][w] # NONE
        PROVE  /\ q \in N.alive /\ N.pd[q][w \div NPTE] # NONE
               /\ IsPage(N, N.pt[q][w]) /\ N.frame[N.pt[q][w]].pid = q
               /\ N.frame[N.pt[q][w]].vpno = w
    <3>1. q # p /\ N.pt[q][w] = M.pt[q][w] /\ N.pd[q] = M.pd[q]
      BY <1>4, <1>5, <2>2
    <3>2. M.pt[q][w] \in Frames
      BY <1>0, <2>2, <3>1 DEF Typed
    <3>3. /\ q \in M.alive /\ M.pd[q][w \div NPTE] # NONE
          /\ IsPage(M, M.pt[q][w]) /\ M.frame[M.pt[q][w]].pid = q
          /\ M.frame[M.pt[q][w]].vpno = w
      BY <1>0, <2>2, <3>1 DEF Framed
    <3>. QED
      BY <1>1, <1>2, <3>1, <3>2, <3>3
  <2>. QED
    BY <2>1, <2>2 DEF Framed
<1>10. Directed(N)
  <2>1. ASSUME NEW g \in Frames, NEW q \in N.alive
        PROVE  /\ N.frame[g] = Owned("DIR", q) <=> M.frame[g] = Owned("DIR", q)
               /\ M.frame[g] = Owned("TBL", q) => N.frame[g] = Owned("TBL", q)
    <3>1. Owned("DIR", q) # Owned("DIR", p) /\ Owned("DIR", q) # Unmapped
          /\ Owned("TBL", q) # Owned("DIR", p)
      BY <1>1, UnmappedFacts
    <3>. QED
      BY <1>2, <3>1
  <2>2. ASSUME NEW q \in N.alive
        PROVE  \E g \in Frames : \A h \in Frames : N.frame[h] = Owned("DIR", q) <=> h = g
    BY <1>0, <1>1, <2>1 DEF Directed
  <2>3. ASSUME NEW q \in N.alive, NEW t \in Tables, N.pd[q][t] # NONE
        PROVE  /\ N.frame[N.pd[q][t]] = Owned("TBL", q)
               /\ \A u \in Tables \ {t} : N.pd[q][u] # N.pd[q][t]
    <3>1. q # p /\ q \in M.alive /\ q \in Procs /\ N.pd[q] = M.pd[q]
      BY <1>0, <1>1, <1>4 DEF Typed
    <3>2. M.pd[q][t] \in Frames
      BY <1>0, <2>3, <3>1 DEF Typed
    <3>. QED
      BY <1>0, <2>1, <2>3, <3>1, <3>2 DEF Directed
  <2>. QED
    BY <2>2, <2>3 DEF Directed
<1>11. Queued(N)
  <2>1. {g \in Frames : IsPage(N, g)} = {g \in Frames : IsPage(M, g)}
    BY <1>2
  <2>. QED
    BY <1>0, <1>1, <2>1 DEF Queued
<1>12. Stored(N) /\ Apart(N)
  <2>1. \A s : Users(N, s) = Users(M, s)
    BY <1>1 DEF Users
  <2>2. \A s \in Stores : p \notin Users(M, s)
    BY DEF Users
  <2>3. IsFiniteSet(N.alive)
    BY <1>0, <1>1, FS_Subset DEF Stored
  <2>4. Stored(N)
    BY <1>0, <1>1, <2>1, <2>2, <2>3 DEF Stored
  <2>5. Apart(N)
    BY <1>0, <1>1 DEF Apart, Covers
  <2>. QED
    BY <2>4, <2>5
<1>13. Fresh(N, D)
  <2>1. ASSUME NEW g \in Frames, IsPage(M, g)
        PROVE  /\ N.frame[g].pid = M.frame[g].pid /\ N.frame[g].vpno = M.frame[g].vpno
               /\ N.content[g] = M.content[g] /\ (IsDirty(N, g) <=> IsDirty(M, g))
    <3>1. N.dirty[M.frame[g].pid] = M.dirty[M.frame[g].pid]
      BY <1>6, <1>8, <2>1
    <3>. QED
      BY <1>1, <1>8, <2>1, <3>1 DEF IsDirty
  <2>. QED
    BY <1>0, <1>1, <1>2, <2>1, FreshCarries
<1>. QED
  BY <1>7, <1>9, <1>10, <1>11, <1>12, <1>13 DEF Sound

\* kill(), but for the switch away from a process that kills itself.
LEMMA WithoutProcessKeeps ==
  ASSUME NEW M, NEW D, Sound(M, D), NEW p \in Procs,
         NEW N, N = WithoutProcess(M, p), ~N.strayed
  PROVE  Sound(N, D) /\ N.currpid = M.currpid /\ N.alive = M.alive \ {p}
<1>. PICK X : X = FreeFrames(M, PagesOf(M, p))
  OBVIOUS
<1>. PICK L : L = UnmapStores(X, p)
  OBVIOUS
<1>1. N = [L EXCEPT !.alive = @ \ {p},
                    !.frame = [f \in Frames |-> IF @[f] = Owned("DIR", p) THEN Unmapped ELSE @[f]],
                    !.pd[p] = [t \in Tables |-> NONE],
                    !.pt[p] = [v \in VPages |-> NONE], !.dirty[p] = {}]
  BY DEF WithoutProcess
<1>2. ~Strays(X) => /\ Sound(X, D) /\ X.currpid = M.currpid /\ X.alive = M.alive
                          /\ PagesOf(X, p) = {}
  BY ZenonT(30), FreeFramesKeep DEF SameWorld, Strays
<1>3. ~Strays(L)
  <2>1. N.strayed = L.strayed
    BY <1>1
  <2>. QED
    BY <2>1 DEF Strays
<1>4. /\ Sound(L, D) /\ L.currpid = X.currpid /\ L.alive = X.alive /\ PagesOf(L, p) = {}
      /\ \A s \in Stores : L.bsm[s].vpno[p] = NONE
      /\ ~Strays(X)
  BY <1>2, <1>3, UnmapStoresKeep
<1>5. Removed(N, L, p)
  <2>1. IsRecord(L)
    BY <1>4 DEF Sound, Typed
  <2>2. IsRecord(N) /\ \A x \in Fields \ {"alive", "frame", "pd", "pt", "dirty"} : N[x] = L[x]
    BY <1>1, <2>1 DEF IsRecord, Fields
  <2>3. /\ N.alive = L.alive \ {p}
        /\ N.frame = [f \in Frames |-> IF L.frame[f] = Owned("DIR", p) THEN Unmapped ELSE L.frame[f]]
    BY <1>1, <2>1 DEF IsRecord, Fields
  <2>4. /\ N.pd = [L.pd EXCEPT ![p] = [t \in Tables |-> NONE]]
        /\ N.pt = [L.pt EXCEPT ![p] = [v \in VPages |-> NONE]]
        /\ N.dirty = [L.dirty EXCEPT ![p] = {}]
    BY <1>1, <2>1 DEF IsRecord, Fields
  <2>. QED
    BY <2>2, <2>3, <2>4 DEF Removed, Fields
<1>6. Sound(N, D)
  BY <1>4, <1>5, RemovedKeeps
<1>. QED
  BY <1>2, <1>4, <1>5, <1>6 DEF Removed

-------------------------------------------------------------------------------
(***************************************************************************)
(* vcreate().                                                              *)
(***************************************************************************)
\* More may be disputed.
LEMMA MoreDisputed ==
  ASSUME NEW M, NEW D, Sound(M, D), NEW E, D \subseteq E
  PROVE  Sound(M, E)
BY DEF Sound, Fresh

\* The pages of a heap that are in its first stores, and those that are left, and where
\* the next store comes.
LEMMA HeapFits ==
  ASSUME NEW h \in 1..NVP
  PROVE  /\ HeapStores(h) \in Nat
         /\ \A i \in 1..HeapStores(h) :
              /\ (i - 1) * NPBS \in VPages /\ h - (i - 1) * NPBS \in Nat \ {0}
              /\ (i - 1) * NPBS + NPBS = i * NPBS
<1>. PICK n, b, q : n = h + NPBS - 1 /\ b = NPBS /\ q = HeapStores(h)
  OBVIOUS
<1>0. n \in Nat /\ b \in Nat /\ b >= 1 /\ h \in Nat /\ NVP \in Nat /\ h <= NVP /\ h >= 1
  BY Sizes
<1>1. q = n \div b
  BY DEF HeapStores
<1>2. q \in Nat /\ q * b <= n
  BY <1>0, <1>1
<1>3. ASSUME NEW i \in 1..q
      PROVE  (i - 1) * b >= 0 /\ (i - 1) * b + b = i * b /\ (i - 1) * b <= h - 1
  <2>1. i \in Nat /\ i >= 1 /\ i <= q
    BY <1>2
  <2>2. (i - 1) * b + b = i * b
    BY <1>0, <2>1
  <2>3. i * b <= q * b
    BY <1>0, <1>2, <2>1
  <2>4. (i - 1) * b >= 0
    BY <1>0, <2>1
  <2>. QED
    BY <1>0, <1>2, <2>1, <2>2, <2>3, <2>4
<1>4. \A i \in 1..q : (i - 1) * b \in Int
  BY <1>0, <1>2
<1>. QED
  BY <1>0, <1>2, <1>3, <1>4 DEF VPages

\* P with store s private, and c in its first page; process p has it, or nobody.
Begun(P, s, c, p) ==
  [P EXCEPT !.store[<<s, 0>>] = c, !.bsm[s].mapped = TRUE, !.bsm[s].private = TRUE,
            !.doubtful = @ \/ p = SYSERR]

\* The same, field by field.
IsBegun(N, P, s, c) ==
  /\ IsRecord(N) /\ N.bsm \in [Stores -> StoreEntry]
  /\ \A x \in Fields \ {"bsm", "store", "doubtful"} : N[x] = P[x]
  /\ \A t \in Stores \ {s} : N.bsm[t] = P.bsm[t]
  /\ N.bsm[s].vpno = P.bsm[s].vpno /\ N.bsm[s].total = P.bsm[s].total
  /\ N.bsm[s].npages = P.bsm[s].npages
  /\ N.bsm[s].private /\ N.bsm[s].mapped
  /\ N.store = [k \in StorePages |-> N.store[k]]
  /\ N.store[<<s, 0>>] = c
  /\ \A k \in StorePages : k # <<s, 0>> => N.store[k] = P.store[k]

\* That is what vcreate() does to the entry of the store it took.
LEMMA BegunEntry ==
  ASSUME NEW P, Typed(P), NEW s \in Stores, NEW c, NEW p,
         NEW N, N = Begun(P, s, c, p)
  PROVE  IsBegun(N, P, s, c)
<1>. PICK e : e = P.bsm[s]
  OBVIOUS
<1>. PICK y : y = [e EXCEPT !.mapped = TRUE, !.private = TRUE]
  OBVIOUS
<1>0. IsRecord(P) /\ P.bsm \in [Stores -> StoreEntry] /\ e \in StoreEntry
      /\ P.store = [k \in StorePages |-> P.store[k]] /\ <<s, 0>> \in StorePages
  BY StoreFields, Sizes DEF Typed, StorePages
<1>1. y \in StoreEntry /\ y.vpno = e.vpno /\ y.total = e.total
      /\ y.npages = e.npages /\ y.private /\ y.mapped
  BY <1>0 DEF StoreEntry
<1>. PICK d : d = (P.doubtful \/ p = SYSERR)
  OBVIOUS
<1>2. N = [P EXCEPT !.store[<<s, 0>>] = c, !.bsm[s] = y, !.doubtful = d]
  BY <1>0 DEF Begun, IsRecord, Fields
<1>3. IsRecord(N) /\ \A x \in Fields \ {"bsm", "store", "doubtful"} : N[x] = P[x]
  BY <1>0, <1>2 DEF IsRecord, Fields
<1>4. N.bsm = [P.bsm EXCEPT ![s] = y]
  BY <1>0, <1>2 DEF IsRecord, Fields
<1>5. N.store = [P.store EXCEPT ![<<s, 0>>] = c]
  BY <1>0, <1>2 DEF IsRecord, Fields
<1>6. N.bsm \in [Stores -> StoreEntry] /\ N.bsm[s] = y /\ \A t \in Stores \ {s} : N.bsm[t] = P.bsm[t]
  BY <1>0, <1>1, <1>4
<1>7. /\ N.store = [k \in StorePages |-> N.store[k]]
      /\ N.store[<<s, 0>>] = c
      /\ \A k \in StorePages : k # <<s, 0>> => N.store[k] = P.store[k]
  BY <1>0, <1>5
<1>. QED
  BY <1>1, <1>3, <1>6, <1>7 DEF IsBegun

\* The tables that stay.
LEMMA BegunFields ==
  ASSUME NEW N, NEW P, NEW s, NEW c, IsBegun(N, P, s, c)
  PROVE  /\ N.policy = P.policy /\ N.frame = P.frame /\ N.fifo = P.fifo /\ N.index = P.index
         /\ N.pages = P.pages /\ N.pd = P.pd /\ N.pt = P.pt /\ N.dirty = P.dirty
         /\ N.alive = P.alive /\ N.currpid = P.currpid /\ N.strayed = P.strayed
         /\ N.content = P.content
<1>1. \A x \in Fields \ {"bsm", "store", "doubtful"} : N[x] = P[x]
  BY DEF IsBegun
<1>. QED
  BY <1>1 DEF Fields

\* Where no process maps the store of page k, no frame holds that page.
LEMMA NoFrame ==
  ASSUME NEW M, Typed(M), Framed(M), Apart(M), NEW k \in StorePages, Users(M, k[1]) = {}
  PROVE  \A f \in Frames : ~Counts(M, f, k) /\ ~Ahead(M, f, k)
<1>. SUFFICES ASSUME NEW f \in Frames, IsPage(M, f), Home(M, f) = k PROVE FALSE
  BY DEF Counts, Ahead
<1>. PICK q, w : q = M.frame[f].pid /\ w = M.frame[f].vpno
  OBVIOUS
<1>1. q \in Procs /\ w \in VPages /\ Lookup(M, q, w) = k /\ k # <<>>
  BY PageFacts, StorePageFacts
<1>2. PICK s \in Stores : q \in Users(M, s) /\ k[1] = s
  BY <1>1, LookupIs
<1>. QED
  BY <1>2

\* What get_bs(), release_bs() and vcreate() say of a store, whether it is mapped and whether
\* private, harms nobody, if all of its pages are in D or nobody maps it, or it stays as
\* private as it was; and so with what is put into a page of D.
StatusOf(N, M, s, D) ==
  /\ Remapped(N, M, s) /\ N.content = M.content
  /\ \A k \in StorePages \ D : N.store[k] = M.store[k]
  /\ N.bsm[s].vpno = M.bsm[s].vpno /\ N.bsm[s].total = M.bsm[s].total
  /\ N.bsm[s].npages = M.bsm[s].npages
  /\ N.bsm[s].private => N.bsm[s].mapped
  /\ \/ N.bsm[s].private = M.bsm[s].private
     \/ Users(M, s) = {}
     \/ \A k \in StorePages : k[1] = s => k \in D

LEMMA StatusKeeps ==
  ASSUME NEW M, NEW D, Sound(M, D), NEW s \in Stores, NEW N, StatusOf(N, M, s, D)
  PROVE  Sound(N, D)
<1>0. Typed(M) /\ Framed(M) /\ Stored(M) /\ Apart(M) /\ Fresh(M, D) /\ Remapped(N, M, s)
  BY DEF Sound, StatusOf
<1>1. /\ Typed(N) /\ Framed(N) /\ Directed(N) /\ Queued(N)
      /\ \A f : (IsPage(N, f) <=> IsPage(M, f)) /\ (IsDirty(N, f) <=> IsDirty(M, f))
  BY <1>0, RemappedCarries
<1>2. /\ N.alive = M.alive /\ N.frame = M.frame /\ N.currpid = M.currpid
      /\ \A t \in Stores : N.bsm[t].vpno = M.bsm[t].vpno /\ N.bsm[t].npages = M.bsm[t].npages
  BY DEF Remapped, StatusOf
<1>3. \A q, w : \A t \in Stores : Covers(N, q, t, w) <=> Covers(M, q, t, w)
  BY <1>2 DEF Covers
<1>4. \A t \in Stores : Users(N, t) = Users(M, t)
  BY <1>2 DEF Users
<1>5. \A q, w : Lookup(N, q, w) = Lookup(M, q, w)
  BY <1>2, <1>3, LookupCarries
<1>6. Apart(N)
  BY <1>0, <1>3 DEF Apart
<1>7. Stored(N)
  <2>. SUFFICES ASSUME NEW t \in Stores
                PROVE  /\ Users(N, t) \subseteq N.alive
                       /\ Cardinality(Users(N, t)) <= N.bsm[t].total
                       /\ N.bsm[t].npages = NONE <=> N.bsm[t].total = 0
                       /\ N.bsm[t].private => N.bsm[t].mapped
    BY <1>0, <1>2 DEF Stored
  <2>1. CASE t = s
    BY <1>0, <1>2, <1>4, <2>1 DEF Stored, StatusOf
  <2>2. CASE t # s
    <3>1. N.bsm[t] = M.bsm[t]
      BY <1>0, <2>2 DEF Remapped
    <3>. QED
      BY <1>0, <1>2, <1>4, <3>1 DEF Stored
  <2>. QED
    BY <2>1, <2>2
<1>8. ASSUME NEW k \in StorePages \ D PROVE FreshPage(N, k)
  <2>0. FreshPage(M, k) /\ k[1] \in Stores /\ N.content = M.content /\ N.store[k] = M.store[k]
    BY <1>0 DEF Fresh, StorePages, StatusOf
  <2>1. CASE Users(M, k[1]) = {}
    <3>1. /\ \A f \in Frames : ~Counts(M, f, k) /\ ~Ahead(M, f, k)
          /\ \A f \in Frames : ~Counts(N, f, k) /\ ~Ahead(N, f, k)
      BY <1>0, <1>1, <1>4, <1>6, <2>0, <2>1, NoFrame
    <3>. QED
      BY <1>4, <2>0, <2>1, <3>1 DEF FreshPage
  <2>2. CASE Users(M, k[1]) # {}
    <3>1. N.bsm[k[1]].private <=> M.bsm[k[1]].private
      <4>1. CASE k[1] = s
        BY <2>2, <4>1 DEF StatusOf
      <4>2. CASE k[1] # s
        BY <1>0, <2>0, <4>2 DEF Remapped
      <4>. QED
        BY <4>1, <4>2
    <3>2. \A f \in Frames : Home(N, f) = Home(M, f)
      BY <1>2, <1>5 DEF Home
    <3>3. \A f \in Frames : (Counts(N, f, k) <=> Counts(M, f, k)) /\ (Ahead(N, f, k) <=> Ahead(M, f, k))
      BY <1>1, <1>2, <3>1, <3>2 DEF Counts, Ahead
    <3>. QED
      BY <1>4, <2>0, <3>1, <3>3 DEF FreshPage
  <2>. QED
    BY <2>1, <2>2
<1>. QED
  BY <1>1, <1>6, <1>7, <1>8 DEF Sound, Fresh

\* A store is added to a heap.
HeapStore(M, p, v, s, n, c) == Begun(Map(Overtake(M, {<<s, 0>>}), p, v, s, n), s, c, p)

\* A store of the heap is mapped as by bsm_map(), and free no more; what else is known of the
\* stores' pages stays.
LEMMA HeapStoreAdds ==
  ASSUME NEW M, NEW D, Sound(M, D), NEW p \in M.alive, NEW v \in VPages, NEW s \in Stores,
         NEW n \in 1..NPBS, NEW c, NEW N, N = HeapStore(M, p, v, s, n, c)
  PROVE  /\ Added(N, M, p, v, s) /\ s \notin FreeStores(N)
         /\ Strays(N) <=> Strays(M)
         /\ N.store[<<s, 0>>] = c
         /\ \A k \in StorePages : k # <<s, 0>> /\ M.store[k] = k => N.store[k] = k
         /\ \A f \in Frames : \A k : k # <<s, 0>> /\ M.content[f] = k => N.content[f] = k
<1>. PICK K : K = {<<s, 0>>}
  OBVIOUS
<1>. PICK O : O = Overtake(M, K)
  OBVIOUS
<1>. PICK P : P = Map(O, p, v, s, n)
  OBVIOUS
<1>0. p \in Procs /\ Typed(M) /\ IsRecord(M) /\ N = Begun(P, s, c, p)
  BY DEF Sound, Typed, HeapStore
<1>1. /\ IsRecord(O) /\ \A x \in Fields \ {"content", "store"} : O[x] = M[x]
      /\ O.content = [f \in Frames |-> IF M.content[f] \in K THEN OLD ELSE M.content[f]]
      /\ O.store = [k \in StorePages |-> IF M.store[k] \in K THEN OLD ELSE M.store[k]]
  BY <1>0, OvertakeFields
<1>2. Sound(O, D \cup K)
  <2>1. Sound(M, D \cup K)
    BY MoreDisputed
  <2>. QED
    BY <2>1, OvertakeKeeps
<1>3. /\ Added(P, O, p, v, s)
      /\ P.strayed = O.strayed /\ P.content = O.content /\ P.store = O.store
  BY <1>0, <1>2, MapAdds DEF Sound
<1>4. Typed(P)
  BY <1>2, <1>3, RemappedCarries DEF Added
<1>5. IsBegun(N, P, s, c)
  BY <1>0, <1>4, BegunEntry
<1>6. /\ O.policy = M.policy /\ O.frame = M.frame /\ O.fifo = M.fifo /\ O.index = M.index
      /\ O.pages = M.pages /\ O.pd = M.pd /\ O.pt = M.pt /\ O.dirty = M.dirty
      /\ O.alive = M.alive /\ O.currpid = M.currpid /\ O.bsm = M.bsm /\ O.strayed = M.strayed
  BY <1>1 DEF Fields
<1>7. /\ N.policy = P.policy /\ N.frame = P.frame /\ N.fifo = P.fifo /\ N.index = P.index
      /\ N.pages = P.pages /\ N.pd = P.pd /\ N.pt = P.pt /\ N.dirty = P.dirty
      /\ N.alive = P.alive /\ N.currpid = P.currpid /\ N.strayed = P.strayed
      /\ N.content = P.content
  BY <1>5, BegunFields
<1>8. /\ P.policy = O.policy /\ P.frame = O.frame /\ P.fifo = O.fifo /\ P.index = O.index
      /\ P.pages = O.pages /\ P.pd = O.pd /\ P.pt = O.pt /\ P.dirty = O.dirty
      /\ P.alive = O.alive /\ P.currpid = O.currpid
      /\ \A t \in Stores \ {s} : P.bsm[t] = O.bsm[t]
  BY <1>3 DEF Added, Remapped
<1>9. /\ N.policy = M.policy /\ N.frame = M.frame /\ N.fifo = M.fifo /\ N.index = M.index
      /\ N.pages = M.pages /\ N.pd = M.pd /\ N.pt = M.pt /\ N.dirty = M.dirty
      /\ N.alive = M.alive /\ N.currpid = M.currpid /\ N.strayed = M.strayed
  BY <1>3, <1>6, <1>7, <1>8
<1>10. \A t \in Stores \ {s} : N.bsm[t] = M.bsm[t]
  <2>. TAKE t \in Stores \ {s}
  <2>1. N.bsm[t] = P.bsm[t] /\ P.bsm[t] = O.bsm[t]
    BY <1>5, <1>8 DEF IsBegun
  <2>. QED
    BY <1>6, <2>1
<1>11. N.content = [f \in Frames |-> IF M.content[f] \in K THEN OLD ELSE M.content[f]]
  BY <1>1, <1>3, <1>7
<1>12. \A k \in StorePages : k # <<s, 0>> => N.store[k] = IF M.store[k] \in K THEN OLD ELSE M.store[k]
  <2>. TAKE k \in StorePages
  <2>1. O.store[k] = IF M.store[k] \in K THEN OLD ELSE M.store[k]
    BY <1>1
  <2>2. k # <<s, 0>> => N.store[k] = P.store[k]
    BY <1>5 DEF IsBegun
  <2>. QED
    BY <1>3, <2>1, <2>2
<1>13. Remapped(N, M, s)
  <2>1. N.content = [f \in Frames |-> N.content[f]]
    BY <1>11
  <2>. QED
    BY <1>5, <1>9, <1>10, <2>1 DEF Remapped, IsBegun
<1>14. Added(N, M, p, v, s)
  <2>1. /\ P.bsm[s].vpno = [O.bsm[s].vpno EXCEPT ![p] = v]
        /\ P.bsm[s].total = O.bsm[s].total + 1 /\ P.bsm[s].npages \in 1..NPBS
        /\ O.bsm[s].npages # NONE => P.bsm[s].npages = O.bsm[s].npages
    BY <1>3 DEF Added
  <2>. QED
    BY <1>5, <1>6, <1>13, <2>1 DEF Added, IsBegun
<1>15. Strays(N) <=> Strays(M)
  BY <1>9 DEF Strays
<1>16. \A k \in StorePages : k # <<s, 0>> /\ M.store[k] = k => N.store[k] = k
  BY <1>12
<1>17. \A f \in Frames : \A k : k # <<s, 0>> /\ M.content[f] = k => N.content[f] = k
  BY <1>11
<1>. QED
  BY <1>5, <1>14, <1>15, <1>16, <1>17 DEF IsBegun, FreeStores

\* What process p has mapped is all before page v.
EndsAt(M, p, v) ==
  \A t \in Stores : M.bsm[t].vpno[p] # NONE => M.bsm[t].vpno[p] + NPBS <= v

\* Nobody maps store s, unless all its pages are in E.
UnusedBut(M, s, E) == M.bsm[s].total # 0 => \A k \in StorePages : k[1] = s => k \in E

\* Nobody else is the worse for it, but those who still map a store that get_bsm()
\* takes for free.
LEMMA HeapStoreKeeps ==
  ASSUME NEW M, NEW D, Sound(M, D), NEW p \in M.alive, PagesOf(M, p) = {}, NEW v \in VPages,
         NEW s \in FreeStores(M), NEW n \in 1..NPBS, EndsAt(M, p, v),
         NEW E, D \subseteq E, UnusedBut(M, s, E),
         NEW c, <<s, 0>> \notin E => c = <<s, 0>>,
         NEW N, N = HeapStore(M, p, v, s, n, c)
  PROVE  Sound(N, E) /\ N.currpid = M.currpid /\ N.alive = M.alive /\ PagesOf(N, p) = {}
<1>0. /\ Typed(M) /\ Framed(M) /\ Stored(M) /\ Apart(M) /\ p \in Procs /\ Fresh(M, D)
      /\ s \in Stores
  BY DEF Sound, Typed, FreeStores
<1>1. /\ Added(N, M, p, v, s)
      /\ N.store[<<s, 0>>] = c
      /\ \A k \in StorePages : k # <<s, 0>> /\ M.store[k] = k => N.store[k] = k
      /\ \A f \in Frames : \A k : k # <<s, 0>> /\ M.content[f] = k => N.content[f] = k
  BY <1>0, HeapStoreAdds
<1>2. /\ Remapped(N, M, s) /\ N.currpid = M.currpid /\ N.alive = M.alive /\ N.frame = M.frame
      /\ \A t \in Stores \ {s} : N.bsm[t] = M.bsm[t]
  BY <1>1 DEF Added, Remapped
<1>3. /\ Typed(N) /\ Framed(N) /\ Directed(N) /\ Queued(N)
      /\ \A f : (IsPage(N, f) <=> IsPage(M, f)) /\ (IsDirty(N, f) <=> IsDirty(M, f))
      /\ \A t \in Stores \ {s} : Users(N, t) = Users(M, t)
  BY <1>2, RemappedCarries
<1>4. ASSUME NEW w \in VPages, NEW t \in Stores, Covers(N, p, s, w) PROVE ~Covers(M, p, t, w)
  <2>1. N.bsm[s].vpno[p] = v
    <3>1. M.bsm[s].vpno \in [Procs -> VPages \cup {NONE}]
      BY <1>0, StoreFields
    <3>. QED
      BY <1>0, <1>1, <3>1 DEF Added
  <2>2. w >= v
    BY <1>4, <2>1 DEF Covers
  <2>3. M.bsm[t].npages \in (1..NPBS) \cup {NONE} /\ M.bsm[t].vpno[p] \in VPages \cup {NONE}
    BY <1>0, StoreFields
  <2>. PICK a, b : a = M.bsm[t].npages /\ b = M.bsm[t].vpno[p]
    OBVIOUS
  <2>4. b # NONE => b + a - 1 < v
    BY <2>3, Sizes DEF VPages, NONE, EndsAt
  <2>. QED
    BY <2>2, <2>3, <2>4, Sizes DEF Covers, VPages, NONE
<1>5. /\ Stored(N) /\ Apart(N) /\ Users(N, s) = Users(M, s) \cup {p}
      /\ \A q \in Procs \ {p} : \A w : Lookup(N, q, w) = Lookup(M, q, w)
  BY <1>0, <1>1, <1>4, AddedKeeps
<1>6. ASSUME NEW f \in Frames, IsPage(M, f)
      PROVE  /\ M.frame[f].pid \in Procs \ {p} /\ M.frame[f].vpno \in VPages
             /\ Home(M, f) = Lookup(M, M.frame[f].pid, M.frame[f].vpno)
             /\ Home(N, f) = Home(M, f)
  <2>1. /\ M.frame[f].pid \in Procs /\ M.frame[f].pid # p /\ M.frame[f].vpno \in VPages
        /\ Home(M, f) = Lookup(M, M.frame[f].pid, M.frame[f].vpno)
    BY <1>0, <1>6, PageFacts DEF PagesOf, IsPage
  <2>2. Home(N, f) = Lookup(N, M.frame[f].pid, M.frame[f].vpno)
    BY <1>2 DEF Home
  <2>. QED
    BY <1>5, <2>1, <2>2
<1>7. ASSUME NEW k \in StorePages \ E PROVE FreshPage(N, k)
  <2>0. FreshPage(M, k) /\ k # <<>> /\ k[1] \in Stores
    BY <1>0 DEF Fresh, StorePages
  <2>1. k # <<s, 0>> \/ c = k
    OBVIOUS
  <2>2. CASE k[1] = s
    <3>0. M.bsm[s].total = 0
      BY <2>2 DEF UnusedBut
    <3>1. Users(M, s) = {}
      BY <1>0, <3>0, StoredFacts
    <3>2. \A f \in Frames : ~(IsPage(M, f) /\ Home(M, f) = k)
      BY <1>0, <1>6, <2>0, <2>2, <3>1, LookupIs
    <3>3. \A f \in Frames : ~Counts(N, f, k) /\ ~Ahead(M, f, k)
      BY <1>3, <1>6, <3>2 DEF Counts, Ahead
    <3>4. N.store[k] = k
      BY <1>1, <2>0, <2>1, <3>3 DEF FreshPage
    <3>5. \A q, r \in Users(N, k[1]) : q = r
      BY <1>5, <2>2, <3>1
    <3>. QED
      BY <3>3, <3>4, <3>5 DEF FreshPage
  <2>3. CASE k[1] # s
    <3>1. N.bsm[k[1]] = M.bsm[k[1]] /\ Users(N, k[1]) = Users(M, k[1])
      BY <1>2, <1>3, <2>0, <2>3
    <3>2. \A f \in Frames : /\ Counts(N, f, k) <=> Counts(M, f, k)
                            /\ Ahead(N, f, k) <=> Ahead(M, f, k)
      BY <1>2, <1>3, <1>6, <3>1 DEF Counts, Ahead
    <3>3. k # <<s, 0>>
      BY <2>3
    <3>4. /\ N.store[k] # k => \E f \in Frames : Ahead(N, f, k)
          /\ \A f \in Frames : Counts(N, f, k) => N.content[f] = k
      BY <1>1, <2>0, <3>2, <3>3 DEF FreshPage
    <3>5. N.bsm[k[1]].private => \A q, r \in Users(N, k[1]) : q = r
      BY <2>0, <3>1 DEF FreshPage
    <3>. QED
      BY <3>4, <3>5 DEF FreshPage
  <2>. QED
    BY <2>2, <2>3
<1>8. PagesOf(N, p) = {}
  <2>1. PagesOf(N, p) = PagesOf(M, p)
    BY <1>2 DEF PagesOf
  <2>. QED
    BY <2>1
<1>. QED
  BY <1>2, <1>3, <1>5, <1>7, <1>8 DEF Sound, Fresh

\* A store that is taken for a process that there is not.
LEMMA TakenKeeps ==
  ASSUME NEW M, NEW D, Sound(M, D), NEW s \in FreeStores(M), NEW v, NEW n,
         NEW E, D \subseteq E, UnusedBut(M, s, E), NEW c, <<s, 0>> \notin E => c = <<s, 0>>,
         NEW N, N = HeapStore(M, SYSERR, v, s, n, c)
  PROVE  /\ Sound(N, E) /\ N.currpid = M.currpid /\ N.alive = M.alive
         /\ s \notin FreeStores(N) /\ \A t \in Stores \ {s} : N.bsm[t] = M.bsm[t]
         /\ Strays(N) <=> Strays(M)
<1>. PICK K, F : K = {<<s, 0>>} /\ F = E \cup K
  OBVIOUS
<1>. PICK O : O = Overtake(M, K)
  OBVIOUS
<1>0. /\ s \in Stores /\ <<s, 0>> \in StorePages /\ <<s, 0>>[1] = s
      /\ Typed(M) /\ Stored(M) /\ IsRecord(M)
  BY Sizes DEF Sound, Typed, FreeStores, StorePages
<1>1. N = Begun(O, s, c, SYSERR)
  BY DEF HeapStore, Map
<1>2. Sound(O, F) /\ O.bsm = M.bsm /\ O.currpid = M.currpid /\ O.alive = M.alive
      /\ O.strayed = M.strayed
  <2>1. Sound(M, F)
    BY MoreDisputed
  <2>. QED
    BY <2>1, OvertakeKeeps
<1>3. Typed(O) /\ Stored(O) /\ Framed(O) /\ Apart(O) /\ Fresh(O, F)
  BY <1>2 DEF Sound
<1>4. IsBegun(N, O, s, c)
  BY <1>0, <1>1, <1>3, BegunEntry
<1>5. /\ N.policy = O.policy /\ N.frame = O.frame /\ N.fifo = O.fifo /\ N.index = O.index
      /\ N.pages = O.pages /\ N.pd = O.pd /\ N.pt = O.pt /\ N.dirty = O.dirty
      /\ N.alive = O.alive /\ N.currpid = O.currpid /\ N.strayed = O.strayed
      /\ N.content = O.content
  BY <1>4, BegunFields
<1>6. Remapped(N, O, s)
  BY <1>3, <1>4, <1>5 DEF Remapped, IsBegun, Typed
<1>7. Users(O, s) = {} \/ \A k \in StorePages : k[1] = s => k \in E
  <2>1. CASE M.bsm[s].total = 0
    <3>1. Users(M, s) = {}
      BY <1>0, <2>1, StoredFacts
    <3>. QED
      BY <1>2, <3>1 DEF Users
  <2>2. CASE M.bsm[s].total # 0
    BY <2>2 DEF UnusedBut
  <2>. QED
    BY <2>1, <2>2
<1>8. StatusOf(N, O, s, F)
  BY <1>4, <1>5, <1>6, <1>7 DEF StatusOf, IsBegun
<1>9. Sound(N, F)
  BY <1>0, <1>2, <1>8, StatusKeeps
<1>10. ASSUME <<s, 0>> \notin E PROVE FreshPage(N, <<s, 0>>)
  <2>1. Users(O, s) = {} /\ N.store[<<s, 0>>] = <<s, 0>>
    BY <1>0, <1>4, <1>7, <1>10 DEF IsBegun
  <2>2. Users(N, s) = {}
    <3>1. N.bsm[s].vpno = O.bsm[s].vpno
      BY <1>4 DEF IsBegun
    <3>. QED
      BY <2>1, <3>1 DEF Users
  <2>3. \A f \in Frames : ~Counts(N, f, <<s, 0>>) /\ ~Ahead(N, f, <<s, 0>>)
    <3>1. Typed(N) /\ Framed(N) /\ Apart(N)
      BY <1>9 DEF Sound
    <3>. QED
      BY <1>0, <2>2, <3>1, NoFrame
  <2>. QED
    BY <1>0, <2>1, <2>2, <2>3 DEF FreshPage
<1>11. Fresh(N, E)
  <2>1. Fresh(N, F)
    BY <1>9 DEF Sound
  <2>. QED
    BY <1>10, <2>1 DEF Fresh
<1>12. Sound(N, E)
  BY <1>9, <1>11 DEF Sound
<1>13. s \notin FreeStores(N) /\ \A t \in Stores \ {s} : N.bsm[t] = M.bsm[t]
  BY <1>2, <1>4 DEF IsBegun, FreeStores
<1>14. Strays(N) <=> Strays(M)
  BY <1>2, <1>5 DEF Strays
<1>. QED
  BY <1>2, <1>5, <1>12, <1>13, <1>14

\* Pages of stores that were taken for free in M, and are not free in N, though somebody
\* maps them.
SharedBy(M, N) ==
  {k \in StorePages : k[1] \in FreeStores(M) \ FreeStores(N) /\ M.bsm[k[1]].total # 0}

\* What a heap of process p, if there is one, has become of M, with all of it before page v.
HeapOf(N, M, D, p, v) ==
  /\ Sound(N, D \cup SharedBy(M, N)) /\ N.currpid = M.currpid /\ N.alive = M.alive
  /\ p # SYSERR => PagesOf(N, p) = {} /\ EndsAt(N, p, v)
  /\ \A t \in FreeStores(N) : N.bsm[t] = M.bsm[t]

\* The heap grows by one store.
LEMMA HeapGrows ==
  ASSUME NEW M, NEW A, NEW D, NEW p \in M.alive \cup {SYSERR}, NEW v \in VPages,
         HeapOf(A, M, D, p, v),
         NEW s \in FreeStores(A), NEW n \in 1..NPBS, NEW c, <<s, 0>> \notin D => c = <<s, 0>>,
         NEW B, B = HeapStore(A, p, v, s, n, c)
  PROVE  HeapOf(B, M, D, p, v + NPBS) /\ (Strays(B) <=> Strays(A))
<1>. PICK E, F : E = D \cup SharedBy(M, B) /\ F = D \cup SharedBy(M, A)
  OBVIOUS
<1>0. /\ Sound(A, F) /\ A.currpid = M.currpid /\ A.alive = M.alive /\ s \in Stores
      /\ p # SYSERR => PagesOf(A, p) = {} /\ EndsAt(A, p, v) /\ p \in Procs /\ p \in A.alive
      /\ \A t \in FreeStores(A) : A.bsm[t] = M.bsm[t]
  BY DEF HeapOf, FreeStores, Sound, Typed
<1>1. s \notin FreeStores(B) /\ (Strays(B) <=> Strays(A)) /\ \A t \in Stores \ {s} : B.bsm[t] = A.bsm[t]
  <2>1. CASE p = SYSERR
    <3>1. UnusedBut(A, s, StorePages) /\ F \subseteq F \cup StorePages
          /\ UnusedBut(A, s, F \cup StorePages)
      BY DEF UnusedBut
    <3>2. <<s, 0>> \notin F \cup StorePages => c = <<s, 0>>
      BY <1>0, Sizes DEF StorePages
    <3>. QED
      BY <1>0, <2>1, <3>1, <3>2, TakenKeeps
  <2>2. CASE p # SYSERR
    <3>1. Added(B, A, p, v, s) /\ s \notin FreeStores(B) /\ (Strays(B) <=> Strays(A))
      BY <1>0, <2>2, HeapStoreAdds
    <3>. QED
      BY <3>1 DEF Added, Remapped
  <2>. QED
    BY <2>1, <2>2
<1>2. \A t \in Stores \ {s} : B.bsm[t] = A.bsm[t]
  BY <1>1
<1>3. FreeStores(B) = FreeStores(A) \ {s}
  <2>1. \A t \in Stores \ {s} : B.bsm[t].mapped = A.bsm[t].mapped
    BY <1>2
  <2>. QED
    BY <1>1, <2>1 DEF FreeStores
<1>4. s \in FreeStores(M) /\ A.bsm[s] = M.bsm[s]
  BY <1>0 DEF FreeStores
<1>5. F \subseteq E
  BY <1>3 DEF SharedBy
<1>6. UnusedBut(A, s, E)
  BY <1>1, <1>4 DEF SharedBy, UnusedBut
<1>7. /\ Sound(B, E) /\ B.currpid = A.currpid /\ B.alive = A.alive
      /\ p # SYSERR => PagesOf(B, p) = {}
  <2>1. <<s, 0>> \notin E => c = <<s, 0>>
    OBVIOUS
  <2>2. CASE p = SYSERR
    BY <1>0, <1>5, <1>6, <2>1, <2>2, TakenKeeps
  <2>3. CASE p # SYSERR
    BY <1>0, <1>5, <1>6, <2>1, <2>3, HeapStoreKeeps
  <2>. QED
    BY <2>2, <2>3
<1>8. \A t \in FreeStores(B) : B.bsm[t] = M.bsm[t]
  BY <1>0, <1>2, <1>3 DEF FreeStores
<1>9. p # SYSERR => EndsAt(B, p, v + NPBS)
  <2>. SUFFICES ASSUME p # SYSERR, NEW t \in Stores
                PROVE  B.bsm[t].vpno[p] # NONE => B.bsm[t].vpno[p] + NPBS <= v + NPBS
    BY DEF EndsAt
  <2>1. Typed(A) /\ v \in Int /\ NPBS \in Nat
    BY <1>0, Sizes DEF Sound, VPages
  <2>2. CASE t = s
    <3>1. A.bsm[s].vpno \in [Procs -> VPages \cup {NONE}]
      BY <1>0, <2>1, StoreFields
    <3>2. Added(B, A, p, v, s)
      BY <1>0, HeapStoreAdds
    <3>3. B.bsm[s].vpno[p] = v
      BY <1>0, <3>1, <3>2 DEF Added
    <3>. QED
      BY <2>1, <2>2, <3>3
  <2>3. CASE t # s
    <3>1. A.bsm[t].vpno \in [Procs -> VPages \cup {NONE}]
      BY <2>1, StoreFields
    <3>2. A.bsm[t].vpno[p] \in Int
      BY <1>0, <3>1, Sizes DEF VPages, NONE
    <3>3. A.bsm[t].vpno[p] # NONE => A.bsm[t].vpno[p] + NPBS <= v
      BY <1>0 DEF EndsAt
    <3>. QED
      BY <1>2, <2>1, <2>3, <3>2, <3>3
  <2>. QED
    BY <2>2, <2>3
<1>. QED
  BY <1>0, <1>1, <1>7, <1>8, <1>9 DEF HeapOf

\* N is M with one more store in the heap.
HeapStep(N, M, p, v) ==
  \E s \in FreeStores(M), n \in 1..NPBS : \E c :
    (<<s, 0>> \notin disputed => c = <<s, 0>>) /\ N = HeapStore(M, p, v, s, n, c)

\* The round of the model is that.
LEMMA WithHeapStoreIs ==
  ASSUME NEW M, NEW p, NEW h \in 1..NVP, NEW i \in 1..HeapStores(h), FreeStores(M) # {},
         ~Strays(M), NEW v, v = (i - 1) * NPBS, NEW N, N = WithHeapStore(M, p, h, i)
  PROVE  HeapStep(N, M, p, v)
<1>. PICK s : s = Min(FreeStores(M))
  OBVIOUS
<1>. PICK n, c : n = Min({NPBS, h - v}) /\ c = IF <<s, 0>> \in disputed THEN OLD ELSE <<s, 0>>
  OBVIOUS
<1>1. s \in FreeStores(M)
  <2>1. FreeStores(M) \in SUBSET Nat
    BY Sizes DEF FreeStores, Stores
  <2>. QED
    BY <2>1, MinIsLeast
<1>2. n \in 1..NPBS
  <2>1. {NPBS, h - v} \in SUBSET Nat /\ NPBS >= 1 /\ h - v >= 1
    BY HeapFits, Sizes
  <2>2. n \in {NPBS, h - v} /\ n <= NPBS
    BY <2>1, MinIsLeast
  <2>. QED
    BY <2>1, <2>2
<1>3. N = HeapStore(M, p, v, s, n, c)
  BY DEF WithHeapStore, HeapStore, Begun, Strays
<1>. QED
  BY <1>1, <1>2, <1>3 DEF HeapStep

\* Nobody, or a process that has nothing yet.
NewTo(M, p) ==
  \/ p = SYSERR
  \/ p \in M.alive /\ PagesOf(M, p) = {} /\ \A t \in Stores : M.bsm[t].vpno[p] = NONE

\* Who has nothing yet gets his heap.
LEMMA WithHeapKeeps ==
  ASSUME NEW M, IsRecord(M), NEW p, NEW h \in 1..NVP,
         ~Strays(M) => Sound(M, disputed) /\ NewTo(M, p),
         NEW N, N = WithHeap(M, p, h)
  PROVE  /\ IsRecord(N)
         /\ ~Strays(N) => /\ Sound(N, disputed \cup SharedBy(M, N)) /\ N.currpid = M.currpid
                          /\ N.alive = M.alive /\ ~Strays(M)
<1>0. HeapStores(h) \in Nat
  BY HeapFits
<1>. PICK last : last = HeapStores(h)
  OBVIOUS
<1>1. PICK f : Rounds(f, [kind |-> "heap", p |-> p, h |-> h], M, last) /\ N = f[last]
  BY <1>0, WithHeapRounds
<1>2. f[0] = M /\ \A i \in 1..last : f[i] = WithHeapStore(f[i - 1], p, h, i)
  BY <1>1 DEF Rounds, Round
<1>. DEFINE Lost(i) == IsRecord(f[i]) /\ Strays(f[i])
            Good(i) == HeapOf(f[i], M, disputed, p, i * NPBS) /\ ~Strays(f[i]) /\ ~Strays(M)
<1>3. Lost(0) \/ Good(0)
  <2>. SUFFICES ASSUME ~Strays(M) PROVE HeapOf(M, M, disputed, p, 0)
    BY <1>2, Sizes
  <2>1. SharedBy(M, M) = {} /\ disputed \cup {} = disputed
    BY DEF SharedBy
  <2>2. Sound(M, disputed \cup SharedBy(M, M))
    BY <2>1
  <2>. QED
    BY <2>2 DEF HeapOf, EndsAt, NewTo
<1>4. ASSUME NEW i \in 1..last, Lost(i - 1) \/ Good(i - 1) PROVE Lost(i) \/ Good(i)
  <2>. PICK A, B, v : A = f[i - 1] /\ B = f[i] /\ v = (i - 1) * NPBS
    OBVIOUS
  <2>1. B = WithHeapStore(A, p, h, i)
    BY <1>2
  <2>2. v \in VPages /\ v + NPBS = i * NPBS
    BY <1>0, HeapFits
  <2>3. CASE Lost(i - 1)
    <3>1. B = A
      BY <2>1, <2>3 DEF WithHeapStore, Strays
    <3>. QED
      BY <2>3, <3>1
  <2>4. CASE Good(i - 1)
    <3>0. HeapOf(A, M, disputed, p, v) /\ ~Strays(A) /\ ~Strays(M) /\ p \in M.alive \cup {SYSERR}
      BY <2>4 DEF NewTo
    <3>1. CASE A.strayed \/ FreeStores(A) = {}
      <4>1. B = A
        BY <2>1, <3>1 DEF WithHeapStore
      <4>2. Typed(A) /\ (p # SYSERR => EndsAt(A, p, v) /\ p \in Procs)
        BY <3>0 DEF HeapOf, Sound, Typed
      <4>3. p # SYSERR => EndsAt(A, p, v + NPBS)
        <5>. SUFFICES ASSUME p # SYSERR, NEW t \in Stores, A.bsm[t].vpno[p] # NONE
                      PROVE  A.bsm[t].vpno[p] + NPBS <= v + NPBS
          BY DEF EndsAt
        <5>1. A.bsm[t].vpno[p] + NPBS <= v
          BY <4>2 DEF EndsAt
        <5>2. A.bsm[t].vpno[p] \in Int /\ v \in Int /\ NPBS \in Nat
          BY <2>2, <4>2, StoreFields, Sizes DEF VPages, NONE
        <5>. QED
          BY <5>1, <5>2
      <4>4. HeapOf(A, M, disputed, p, v + NPBS)
        BY <3>0, <4>3 DEF HeapOf
      <4>. QED
        BY <2>2, <3>0, <4>1, <4>4
    <3>2. CASE ~A.strayed /\ FreeStores(A) # {}
      <4>1. HeapStep(B, A, p, v)
        BY <2>1, <3>0, <3>2, WithHeapStoreIs
      <4>2. PICK s \in FreeStores(A), n \in 1..NPBS : \E c :
              (<<s, 0>> \notin disputed => c = <<s, 0>>) /\ B = HeapStore(A, p, v, s, n, c)
        BY <4>1 DEF HeapStep
      <4>3. HeapOf(B, M, disputed, p, v + NPBS) /\ (Strays(B) <=> Strays(A))
        <5>1. PICK c : (<<s, 0>> \notin disputed => c = <<s, 0>>)
                       /\ B = HeapStore(A, p, v, s, n, c)
          BY <4>2
        <5>. QED
          BY <2>2, <3>0, <5>1, HeapGrows
      <4>. QED
        BY <2>2, <3>0, <4>3
    <3>. QED
      BY <3>1, <3>2
  <2>. QED
    BY <1>4, <2>3, <2>4
<1>5. Lost(last) \/ Good(last)
  <2>. HIDE DEF Lost, Good
  <2>1. PICK F : F = {i \in 0..last : Lost(i) \/ Good(i)}
    OBVIOUS
  <2>2. 0 \in F /\ \A i \in 1..last : i - 1 \in F => i \in F
    BY <1>0, <1>3, <1>4, <2>1
  <2>3. last \in F
    BY <1>0, <2>2, UpToTheLast
  <2>. QED
    BY <2>1, <2>3
<1>. QED
  BY <1>1, <1>5 DEF HeapOf, Sound, Typed

-------------------------------------------------------------------------------
(***************************************************************************)
(* What the other system calls do.                                         *)
(***************************************************************************)
\* What an operation removed, and whether the source said all, is not in the tables.
LEMMA SoundCarries ==
  ASSUME NEW M, NEW D, Sound(M, D), NEW N, IsRecord(N),
         \A x \in Fields \ {"policy", "strayed", "doubtful"} : N[x] = M[x],
         N.policy \in {"SC", "FIFO"}
  PROVE  Sound(N, D)
<1>1. /\ N.frame = M.frame /\ N.content = M.content /\ N.fifo = M.fifo /\ N.index = M.index
      /\ N.pages = M.pages /\ N.pd = M.pd /\ N.pt = M.pt /\ N.dirty = M.dirty
      /\ N.bsm = M.bsm /\ N.store = M.store /\ N.currpid = M.currpid /\ N.alive = M.alive
  BY DEF Fields
<1>2. Typed(M) /\ Framed(M) /\ Directed(M) /\ Queued(M) /\ Stored(M) /\ Apart(M) /\ Fresh(M, D)
  BY DEF Sound
<1>3. Typed(N)
  BY <1>1, <1>2 DEF Typed
<1>4. Framed(N) /\ Directed(N) /\ Queued(N)
  BY <1>1, <1>2 DEF Framed, Directed, Queued, IsPage
<1>5. Stored(N) /\ Apart(N)
  BY <1>1, <1>2, MappingsCarry
<1>6. Fresh(N, D)
  BY <1>1, <1>2, FreshCarries DEF IsPage, IsDirty
<1>. QED
  BY <1>3, <1>4, <1>5, <1>6 DEF Sound

\* Two processes have written to page k of a store, or somebody has it for himself that
\* is not alone with it.
Disputed(M, k) ==
  \E q \in M.alive \ {M.currpid} :
    \/ M.bsm[k[1]].private /\ M.bsm[k[1]].vpno[q] # NONE
    \/ \E f \in PagesOf(M, q) : IsDirty(M, f) /\ Home(M, f) = k

\* O with c in frame f, and page v of process p marked.
WithWrite(O, f, c, p, v) == [O EXCEPT !.content[f] = c, !.dirty[p] = @ \cup {v}]

\* N is M after a write of process p to its page v, in frame f, that is page k of a store.
Wrote(N, M, p, v, f, k, E) ==
  /\ IsRecord(N)
  /\ \A x \in Fields \ {"content", "store", "dirty"} : N[x] = M[x]
  /\ N.dirty = [M.dirty EXCEPT ![p] = M.dirty[p] \cup {v}]
  /\ N.store = [j \in StorePages |-> IF M.store[j] = k THEN OLD ELSE M.store[j]]
  /\ N.content = [g \in Frames |-> IF g = f THEN (IF k \in E THEN OLD ELSE k)
                                   ELSE IF M.content[g] = k THEN OLD ELSE M.content[g]]

\* That is what a write to a page that is present does.
LEMMA WriteWrites ==
  ASSUME NEW M, Typed(M), NEW p \in Procs, NEW v, NEW f \in Frames, NEW k, NEW E,
         NEW K, K = {k}, NEW O, O = Overtake(M, K), NEW c, c = IF k \in E THEN OLD ELSE k,
         NEW N, N = WithWrite(O, f, c, p, v)
  PROVE  Wrote(N, M, p, v, f, k, E)
<1>1. /\ IsRecord(O) /\ \A x \in Fields \ {"content", "store"} : O[x] = M[x]
      /\ O.content = [g \in Frames |-> IF M.content[g] \in K THEN OLD ELSE M.content[g]]
      /\ O.store = [j \in StorePages |-> IF M.store[j] \in K THEN OLD ELSE M.store[j]]
  <2>1. IsRecord(M)
    BY DEF Typed
  <2>. QED
    BY <2>1, OvertakeFields
<1>3. /\ IsRecord(N) /\ \A x \in Fields \ {"content", "dirty"} : N[x] = O[x]
      /\ N.content = [O.content EXCEPT ![f] = c]
      /\ N.dirty = [O.dirty EXCEPT ![p] = O.dirty[p] \cup {v}]
  BY <1>1 DEF WithWrite, IsRecord, Fields
<1>4. O.dirty = M.dirty /\ N.store = O.store
  BY <1>1, <1>3 DEF Fields
<1>5. N.content = [g \in Frames |-> IF g = f THEN (IF k \in E THEN OLD ELSE k)
                                   ELSE IF M.content[g] = k THEN OLD ELSE M.content[g]]
  BY SMTT(30), <1>1, <1>3
<1>6. N.store = [j \in StorePages |-> IF M.store[j] = k THEN OLD ELSE M.store[j]]
  BY <1>1, <1>4
<1>7. \A x \in Fields \ {"content", "store", "dirty"} : N[x] = M[x]
  <2>1. \A x \in Fields \ {"content", "store"} : O[x] = M[x]
    BY <1>1
  <2>2. \A x \in Fields \ {"content", "dirty"} : N[x] = O[x]
    BY <1>3
  <2>. QED
    BY <2>1, <2>2, Zenon
<1>8. IsRecord(N) /\ N.dirty = [M.dirty EXCEPT ![p] = M.dirty[p] \cup {v}]
  BY <1>3, <1>4
<1>. QED
  BY <1>5, <1>6, <1>7, <1>8 DEF Wrote

\* What was written last is in the frame written to, and nobody else counts on another
\* copy, unless the page is disputed from now on.
LEMMA WroteKeeps ==
  ASSUME NEW M, NEW D, Sound(M, D), NEW p \in M.alive, p = M.currpid, NEW v \in VPages,
         M.pt[p][v] # NONE, NEW f, f = M.pt[p][v], NEW k, k = Lookup(M, p, v),
         NEW E, D \subseteq E, k \in StorePages \ E => ~Disputed(M, k),
         NEW N, Wrote(N, M, p, v, f, k, E)
  PROVE  Sound(N, E)
<1>0. /\ Typed(M) /\ Framed(M) /\ Directed(M) /\ Queued(M) /\ Stored(M) /\ Apart(M) /\ Fresh(M, D)
      /\ p \in Procs
  BY DEF Sound, Typed
<1>1. /\ N.policy = M.policy /\ N.frame = M.frame /\ N.fifo = M.fifo /\ N.index = M.index
      /\ N.pages = M.pages /\ N.pd = M.pd /\ N.pt = M.pt /\ IsRecord(N)
      /\ N.bsm = M.bsm /\ N.currpid = M.currpid /\ N.alive = M.alive
  BY DEF Wrote, Fields
<1>2. /\ N.dirty = [M.dirty EXCEPT ![p] = M.dirty[p] \cup {v}]
      /\ N.store = [j \in StorePages |-> IF M.store[j] = k THEN OLD ELSE M.store[j]]
      /\ N.content = [g \in Frames |-> IF g = f THEN (IF k \in E THEN OLD ELSE k)
                                       ELSE IF M.content[g] = k THEN OLD ELSE M.content[g]]
  BY DEF Wrote
<1>3. /\ f \in Frames /\ IsPage(M, f) /\ M.frame[f].pid = p /\ M.frame[f].vpno = v
  <2>1. M.pt \in [Procs -> [VPages -> Frames \cup {NONE}]]
    BY <1>0 DEF Typed
  <2>. QED
    BY <1>0, <2>1 DEF Framed
<1>4. N.dirty \in [Procs -> SUBSET VPages] /\ M.dirty \in [Procs -> SUBSET VPages]
  <2>1. M.dirty \in [Procs -> SUBSET VPages]
    BY <1>0 DEF Typed
  <2>. QED
    BY <1>0, <1>2, <2>1
<1>5. Typed(N)
  <2>1. N.content = [g \in Frames |-> N.content[g]] /\ N.store = [j \in StorePages |-> N.store[j]]
    BY <1>2
  <2>. QED
    BY <1>0, <1>1, <1>4, <2>1 DEF Typed
<1>6. Framed(N) /\ Directed(N) /\ Queued(N)
  BY SMTT(30), <1>0, <1>1 DEF Framed, Directed, Queued, IsPage
<1>7. Stored(N) /\ Apart(N) /\ (\A s : Users(N, s) = Users(M, s))
  BY <1>0, <1>1, MappingsCarry
<1>8. ASSUME NEW g \in Frames
      PROVE  /\ IsPage(N, g) <=> IsPage(M, g)
             /\ Home(N, g) = Home(M, g)
             /\ IsPage(M, g) => (IsDirty(N, g) <=> IsDirty(M, g) \/ g = f)
  <2>1. (IsPage(N, g) <=> IsPage(M, g)) /\ Home(N, g) = Home(M, g)
    BY <1>1, HomeCarries DEF IsPage
  <2>2. ASSUME IsPage(M, g) PROVE IsDirty(N, g) <=> IsDirty(M, g) \/ g = f
    <3>. PICK q, w : q = M.frame[g].pid /\ w = M.frame[g].vpno
      OBVIOUS
    <3>1. q \in Procs /\ M.pt[q][w] = g
      BY <1>0, <2>2, PageFacts
    <3>2. g = f <=> q = p /\ w = v
      BY <1>3, <3>1
    <3>3. N.dirty[q] = IF q = p THEN M.dirty[q] \cup {v} ELSE M.dirty[q]
      BY <1>0, <1>2, <1>4, <3>1
    <3>. QED
      BY <1>1, <3>2, <3>3 DEF IsDirty
  <2>. QED
    BY <2>1, <2>2
<1>9. Home(M, f) = k
  BY <1>3 DEF Home
<1>10. ASSUME NEW j \in StorePages \ E, j # k PROVE FreshPage(N, j)
  <2>0. FreshPage(M, j) /\ j # OLD
    <3>1. j \in StorePages \ D
      BY <1>10
    <3>2. FreshPage(M, j)
      BY <1>0, <3>1 DEF Fresh
    <3>3. j # OLD
      BY <3>1, StorePageFacts DEF OLD
    <3>. QED
      BY <3>2, <3>3
  <2>1. \A g \in Frames : /\ Counts(N, g, j) <=> Counts(M, g, j)
                          /\ Ahead(N, g, j) <=> Ahead(M, g, j)
                          /\ Counts(M, g, j) => g # f
    BY <1>1, <1>8, <1>9, <1>10 DEF Counts, Ahead
  <2>2. /\ M.store[j] = j => N.store[j] = j
        /\ \A g \in Frames : g # f /\ M.content[g] = j => N.content[g] = j
    BY <1>2, <1>10
  <2>. QED
    BY <1>1, <1>7, <2>0, <2>1, <2>2 DEF FreshPage
<1>11. ASSUME k \in StorePages \ E PROVE FreshPage(N, k)
  <2>0. FreshPage(M, k) /\ ~Disputed(M, k) /\ k # <<>>
    <3>1. k \in StorePages \ D
      BY <1>11
    <3>2. FreshPage(M, k)
      BY <1>0, <3>1 DEF Fresh
    <3>3. k # <<>>
      BY <3>1, StorePageFacts
    <3>. QED
      BY <1>11, <3>2, <3>3
  <2>1. Ahead(N, f, k)
    BY <1>1, <1>3, <1>8, <1>9 DEF Ahead
  <2>2. ASSUME NEW g \in Frames, Counts(N, g, k) PROVE N.content[g] = k
    <3>1. CASE g = f
      BY <1>2, <1>3, <1>11, <3>1
    <3>2. CASE g # f
      <4>. PICK q, w : q = M.frame[g].pid /\ w = M.frame[g].vpno
        OBVIOUS
      <4>1. /\ IsPage(M, g) /\ Home(M, g) = k
            /\ IsDirty(M, g) \/ q = p \/ M.bsm[k[1]].private
        BY <1>1, <1>8, <2>2, <3>2 DEF Counts
      <4>2. q \in M.alive /\ q \in Procs /\ w \in VPages /\ k = Lookup(M, q, w)
        BY <1>0, <4>1, PageFacts
      <4>3. q # p
        BY <1>0, <1>3, <1>9, <2>0, <3>2, <4>1, HomeOnce
      <4>4. ~IsDirty(M, g)
        <5>1. g \in PagesOf(M, q)
          BY <4>1 DEF PagesOf, IsPage
        <5>. QED
          BY <2>0, <4>1, <4>2, <4>3, <5>1 DEF Disputed
      <4>5. M.bsm[k[1]].vpno[q] # NONE
        <5>1. q \in Users(M, k[1])
          BY <1>0, <2>0, <4>2, LookupIs
        <5>. QED
          BY <5>1 DEF Users
      <4>6. M.bsm[k[1]].private
        BY <4>1, <4>3, <4>4
      <4>. QED
        BY <2>0, <4>2, <4>3, <4>5, <4>6 DEF Disputed
    <3>. QED
      BY <3>1, <3>2
  <2>. QED
    BY <1>1, <1>3, <1>7, <2>0, <2>1, <2>2 DEF FreshPage
<1>. QED
  BY <1>5, <1>6, <1>7, <1>10, <1>11 DEF Sound, Fresh

-------------------------------------------------------------------------------
(***************************************************************************)
(* Every step keeps the invariant.                                         *)
(***************************************************************************)
\* The record that the operations begin with.
LEMMA MemoryFields ==
  /\ IsRecord(Memory) /\ ~Strays(Memory)
  /\ Memory.policy = policy /\ Memory.frame = frame_tab /\ Memory.content = content
  /\ Memory.fifo = fifo /\ Memory.index = sc_index /\ Memory.pages = sc_queue_pages
  /\ Memory.pd = pd /\ Memory.pt = pt /\ Memory.dirty = dirty /\ Memory.bsm = bsm_tab
  /\ Memory.store = store /\ Memory.currpid = currpid /\ Memory.alive = alive
BY DEF Memory, IsRecord, Fields, Strays

\* What an operation made of the tables is installed, or the source says no more.
LEMMA InstallKeeps ==
  ASSUME PagingInv, ~strayed, NEW M, Install(M), disputed \subseteq disputed',
         ~Strays(M) /\ ~strayed' =>
           Sound(M, disputed') /\ M.currpid \in M.alive \cup {NULLPROC}
  PROVE  PagingInv'
<1>1. CASE /\ ~M.strayed
           /\ policy' = M.policy /\ frame_tab' = M.frame /\ content' = M.content
           /\ fifo' = M.fifo /\ sc_index' = M.index /\ sc_queue_pages' = M.pages
           /\ pd' = M.pd /\ pt' = M.pt /\ dirty' = M.dirty
           /\ bsm_tab' = M.bsm /\ store' = M.store
           /\ currpid' = M.currpid /\ alive' = M.alive
           /\ UNCHANGED strayed
  <2>1. Sound(M, disputed') /\ M.currpid \in M.alive \cup {NULLPROC}
    BY <1>1 DEF Strays
  <2>. PICK N : N = Memory'
    OBVIOUS
  <2>2. /\ IsRecord(N) /\ N.policy = M.policy
        /\ \A x \in Fields \ {"policy", "strayed", "doubtful"} : N[x] = M[x]
    BY <1>1 DEF Memory, IsRecord, Fields
  <2>3. M.policy \in {"SC", "FIFO"}
    BY <2>1 DEF Sound, Typed
  <2>4. Sound(N, disputed')
    BY <2>1, <2>2, <2>3, SoundCarries
  <2>. QED
    BY <1>1, <2>1, <2>4 DEF PagingInv
<1>2. CASE /\ strayed' = TRUE
           /\ UNCHANGED <<policy, frame_tab, content, fifo, sc_index, sc_queue_pages, pd, pt,
                          dirty, bsm_tab, store, currpid, alive>>
  <2>. PICK M0, N : M0 = Memory /\ N = Memory'
    OBVIOUS
  <2>1. N = M0
    BY <1>2 DEF Memory
  <2>2. Sound(M0, disputed)
    BY DEF PagingInv
  <2>3. Sound(N, disputed')
    BY <2>1, <2>2, MoreDisputed
  <2>. QED
    BY <1>2, <2>3 DEF PagingInv
<1>. QED
  BY <1>1, <1>2 DEF Install

\* create()
LEMMA CreateKeeps ==
  ASSUME PagingInv, NEW p \in Procs, Create(p)
  PROVE  PagingInv'
<1>. PICK D, M, N : D = disputed /\ M = Memory /\ N = WithProcess(M, p)
  OBVIOUS
<1>1. /\ Sound(M, D) /\ ~strayed /\ disputed' = D /\ Install(N)
      /\ p \notin M.alive /\ M.currpid \in M.alive \cup {NULLPROC}
  BY MemoryFields DEF PagingInv, Create, MayCreate, Running
<1>2. ~N.strayed => Sound(N, D) /\ N.alive = M.alive \cup {p} /\ N.currpid = M.currpid
  BY <1>1, WithProcessKeeps
<1>. QED
  BY <1>1, <1>2, InstallKeeps DEF Strays

\* vcreate(): who maps a store that it takes for free shares its pages from now on.
LEMMA VCreateKeeps ==
  ASSUME PagingInv, NEW p \in Procs \cup {SYSERR}, NEW h \in HeapSizes, VCreate(p, h)
  PROVE  PagingInv'
<1>. PICK D, M : D = disputed /\ M = Memory
  OBVIOUS
<1>. PICK W : W = IF p = SYSERR THEN M ELSE WithProcess(M, p)
  OBVIOUS
<1>. PICK H : H = WithHeap(W, p, h)
  OBVIOUS
<1>. PICK K : K = {k \in StorePages : /\ k[1] \in FreeStores(M) \ FreeStores(H)
                                      /\ bsm_tab[k[1]].total # 0}
  OBVIOUS
<1>. PICK N : N = Overtake(H, K)
  OBVIOUS
<1>1. /\ Sound(M, D) /\ ~strayed /\ (p # SYSERR => p \in Procs /\ p \notin M.alive)
      /\ M.currpid \in M.alive \cup {NULLPROC} /\ M.bsm = bsm_tab /\ ~Strays(M) /\ IsRecord(M)
  BY MemoryFields DEF PagingInv, VCreate, MayCreate, Running
<1>2. Install(N) /\ disputed' = IF strayed' THEN D ELSE D \cup K
  BY DEF VCreate
<1>3. /\ IsRecord(W)
      /\ ~Strays(W) => /\ Sound(W, D) /\ NewTo(W, p) /\ M.alive \subseteq W.alive
                       /\ W.bsm = M.bsm /\ W.currpid = M.currpid
  <2>1. CASE p = SYSERR
    BY <1>1, <2>1 DEF NewTo
  <2>2. CASE p # SYSERR
    <3>1. \A t \in Stores : M.bsm[t].vpno[p] = NONE
      BY <1>1, <2>2 DEF Sound, Stored, Users
    <3>2. /\ IsRecord(W)
          /\ ~Strays(W) => /\ Sound(W, D) /\ PagesOf(W, p) = {} /\ W.alive = M.alive \cup {p}
                           /\ W.bsm = M.bsm /\ W.currpid = M.currpid
      BY <1>1, <2>2, WithProcessKeeps DEF Strays
    <3>. QED
      BY <3>1, <3>2 DEF NewTo
  <2>. QED
    BY <2>1, <2>2
<1>5. /\ IsRecord(H)
      /\ ~Strays(H) => /\ Sound(H, D \cup SharedBy(W, H)) /\ H.currpid = W.currpid
                       /\ H.alive = W.alive /\ ~Strays(W)
  <2>1. h \in 1..NVP
    BY HeapsAssumption
  <2>2. IsRecord(W) /\ (~Strays(W) => Sound(W, disputed) /\ NewTo(W, p))
    BY <1>3
  <2>. QED
    BY <2>1, <2>2, WithHeapKeeps
<1>6. N.strayed = H.strayed
  <2>1. /\ IsRecord(N) /\ \A x \in Fields \ {"content", "store"} : N[x] = H[x]
        /\ N.content = [f \in Frames |-> IF H.content[f] \in K THEN OLD ELSE H.content[f]]
        /\ N.store = [k \in StorePages |-> IF H.store[k] \in K THEN OLD ELSE H.store[k]]
    BY <1>5, OvertakeFields
  <2>. QED
    BY <2>1 DEF Fields
<1>7. ASSUME ~Strays(N), ~strayed'
      PROVE  Sound(N, disputed') /\ N.currpid \in N.alive \cup {NULLPROC}
  <2>1. ~Strays(H) /\ ~Strays(W)
    BY <1>5, <1>6, <1>7 DEF Strays
  <2>2. W.bsm = M.bsm
    BY <1>3, <2>1
  <2>3. FreeStores(W) = FreeStores(M)
    BY <2>2 DEF FreeStores
  <2>4. SharedBy(W, H) = K
    BY <1>1, <2>2, <2>3 DEF SharedBy
  <2>5. disputed' = D \cup K /\ K \subseteq D \cup K
    BY <1>2, <1>7
  <2>6. Sound(H, disputed') /\ K \subseteq disputed'
    BY <1>5, <2>1, <2>4, <2>5
  <2>7. Sound(N, disputed') /\ N.currpid = H.currpid /\ N.alive = H.alive
    BY <2>6, OvertakeKeeps
  <2>. QED
    BY <1>1, <1>3, <1>5, <2>1, <2>7
<1>8. disputed \subseteq disputed'
  BY <1>2
<1>. QED
  BY <1>1, <1>2, <1>7, <1>8, InstallKeeps

\* kill(), of another process or of the one that runs.
LEMMA KillKeeps ==
  ASSUME PagingInv, NEW p \in Procs, Kill(p)
  PROVE  PagingInv'
<1>. PICK D, M, L : D = disputed /\ M = Memory /\ L = WithoutProcess(M, p)
  OBVIOUS
<1>1. /\ Sound(M, D) /\ ~strayed /\ disputed' = D /\ M.alive = alive /\ M.currpid = currpid
      /\ currpid \in alive \cup {NULLPROC}
      /\ IF p # currpid \/ L.strayed THEN Install([L EXCEPT !.doubtful = TRUE])
         ELSE \E q \in (alive \cup {NULLPROC}) \ {p} : Install(SwitchTo(L, q))
  BY MemoryFields DEF PagingInv, Kill, Running
<1>2. ~L.strayed => Sound(L, D) /\ L.currpid = M.currpid /\ L.alive = M.alive \ {p}
  BY <1>1, WithoutProcessKeeps
<1>3. CASE p # currpid \/ L.strayed
  <2>. PICK N : N = [L EXCEPT !.doubtful = TRUE]
    OBVIOUS
  <2>1. Install(N) /\ N.strayed = L.strayed
    BY <1>1, <1>3
  <2>2. ASSUME ~Strays(N) PROVE Sound(N, D) /\ N.currpid \in N.alive \cup {NULLPROC}
    <3>1. Sound(L, D) /\ IsRecord(L) /\ L.policy \in {"SC", "FIFO"}
      BY <1>2, <2>1, <2>2 DEF Strays, Sound, Typed
    <3>2. IsRecord(N) /\ N.policy = L.policy /\ N.currpid = L.currpid /\ N.alive = L.alive
          /\ \A x \in Fields \ {"policy", "strayed", "doubtful"} : N[x] = L[x]
      BY <3>1 DEF IsRecord, Fields
    <3>3. Sound(N, D)
      BY <3>1, <3>2, SoundCarries
    <3>. QED
      BY <1>1, <1>2, <1>3, <2>1, <2>2, <3>2, <3>3 DEF Strays
  <2>. QED
    BY <1>1, <2>1, <2>2, InstallKeeps
<1>4. CASE ~(p # currpid \/ L.strayed)
  <2>1. PICK q \in (alive \cup {NULLPROC}) \ {p} : Install(SwitchTo(L, q))
    BY <1>1, <1>4
  <2>. PICK N : N = SwitchTo(L, q)
    OBVIOUS
  <2>2. q \in Procs \cup {NULLPROC}
    BY <1>1, <2>1 DEF Sound, Typed
  <2>3. ~N.strayed => Sound(N, D) /\ N.currpid = q /\ N.alive = L.alive
    BY <1>2, <1>4, <2>2, SwitchToKeeps
  <2>4. ~N.strayed => N.currpid \in N.alive \cup {NULLPROC}
    BY <1>1, <1>2, <1>4, <2>1, <2>3
  <2>. QED
    BY <1>1, <2>1, <2>3, <2>4, InstallKeeps DEF Strays
<1>. QED
  BY <1>3, <1>4

\* get_bs()
LEMMA GetBsKeeps ==
  ASSUME PagingInv, NEW s \in Stores, GetBs(s)
  PROVE  PagingInv'
<1>. PICK D, M, N : D = disputed /\ M = Memory /\ N = [M EXCEPT !.bsm[s].mapped = TRUE]
  OBVIOUS
<1>1. /\ Sound(M, D) /\ Typed(M) /\ ~strayed /\ disputed' = D /\ Install(N)
      /\ M.currpid \in M.alive \cup {NULLPROC}
  BY MemoryFields DEF PagingInv, GetBs, Running, Sound
<1>. PICK e, x : e = M.bsm[s] /\ x = [e EXCEPT !.mapped = TRUE]
  OBVIOUS
<1>2. IsRecord(M) /\ M.bsm \in [Stores -> StoreEntry] /\ e \in StoreEntry
  BY <1>1, StoreFields DEF Typed
<1>3. /\ x \in StoreEntry /\ x.vpno = e.vpno /\ x.total = e.total
      /\ x.npages = e.npages /\ x.private = e.private /\ x.mapped
  BY <1>2 DEF StoreEntry
<1>4. N.bsm = [M.bsm EXCEPT ![s] = x] /\ IsRecord(N) /\ \A y \in Fields \ {"bsm"} : N[y] = M[y]
  BY <1>2 DEF IsRecord, Fields
<1>5. N.bsm \in [Stores -> StoreEntry] /\ N.bsm[s] = x /\ \A t \in Stores \ {s} : N.bsm[t] = M.bsm[t]
  BY <1>2, <1>3, <1>4
<1>6. /\ N.policy = M.policy /\ N.frame = M.frame /\ N.fifo = M.fifo /\ N.index = M.index
      /\ N.pages = M.pages /\ N.pd = M.pd /\ N.pt = M.pt /\ N.dirty = M.dirty
      /\ N.alive = M.alive /\ N.currpid = M.currpid
      /\ N.content = M.content /\ N.store = M.store
  BY <1>4 DEF Fields
<1>7. Remapped(N, M, s)
  BY <1>1, <1>4, <1>5, <1>6 DEF Remapped, Typed
<1>8. StatusOf(N, M, s, D)
  BY <1>3, <1>5, <1>6, <1>7 DEF StatusOf
<1>9. Sound(N, D)
  BY <1>1, <1>8, StatusKeeps
<1>. QED
  BY <1>1, <1>6, <1>9, InstallKeeps

\* release_bs(): only of a store that nobody maps.
LEMMA ReleaseBsKeeps ==
  ASSUME PagingInv, NEW s \in Stores, ReleaseBs(s)
  PROVE  PagingInv'
<1>. PICK D, M, N : D = disputed /\ M = Memory /\ N = FreeStore(M, s)
  OBVIOUS
<1>1. /\ Sound(M, D) /\ Typed(M) /\ ~strayed /\ disputed' = D /\ Install(N)
      /\ M.bsm[s].total = 0 /\ M.currpid \in M.alive \cup {NULLPROC}
  BY MemoryFields DEF PagingInv, ReleaseBs, Running, Sound
<1>2. /\ IsRecord(N) /\ N.bsm \in [Stores -> StoreEntry]
      /\ \A x \in Fields \ {"bsm"} : N[x] = M[x]
      /\ \A t \in Stores \ {s} : N.bsm[t] = M.bsm[t]
      /\ N.bsm[s].vpno = M.bsm[s].vpno /\ N.bsm[s].total = M.bsm[s].total
      /\ N.bsm[s].npages = M.bsm[s].npages
      /\ ~N.bsm[s].private /\ ~N.bsm[s].mapped
  <2>1. IsRecord(M) /\ M.bsm \in [Stores -> StoreEntry]
    BY <1>1 DEF Typed
  <2>. QED
    BY <2>1, FreeStoreEntry
<1>3. Users(M, s) = {}
  BY <1>1, StoredFacts DEF Sound
<1>4. /\ N.policy = M.policy /\ N.frame = M.frame /\ N.fifo = M.fifo /\ N.index = M.index
      /\ N.pages = M.pages /\ N.pd = M.pd /\ N.pt = M.pt /\ N.dirty = M.dirty
      /\ N.alive = M.alive /\ N.currpid = M.currpid
      /\ N.content = M.content /\ N.store = M.store
  BY <1>2 DEF Fields
<1>5. Remapped(N, M, s)
  BY <1>1, <1>2, <1>4 DEF Remapped, Typed
<1>6. StatusOf(N, M, s, D)
  BY <1>2, <1>3, <1>4, <1>5 DEF StatusOf
<1>7. Sound(N, D)
  BY <1>1, <1>6, StatusKeeps
<1>. QED
  BY <1>1, <1>4, <1>7, InstallKeeps

\* xmmap()
LEMMA XmmapKeeps ==
  ASSUME PagingInv, NEW v \in VPages, NEW s \in Stores, NEW n \in 1..NPBS, Xmmap(v, s, n)
  PROVE  PagingInv'
<1>. PICK D, M, p : D = disputed /\ M = Memory /\ p = currpid
  OBVIOUS
<1>. PICK A : A = Map(M, p, v, s, n)
  OBVIOUS
<1>. PICK K, E : K = WrittenTo(M, p, s) /\ E = D \cup K
  OBVIOUS
<1>. PICK N : N = Overtake(A, K)
  OBVIOUS
<1>1. /\ Sound(M, D) /\ ~strayed /\ p \in M.alive /\ M.currpid = p
      /\ M.bsm = bsm_tab /\ M.pt = pt
  BY MemoryFields DEF PagingInv, Xmmap, Running
<1>2. /\ Install(N) /\ disputed' = E /\ ~M.bsm[s].private
      /\ Clear(M, p, v, A.bsm[s].npages)
  BY <1>1 DEF Xmmap, Clear, WrittenTo
<1>3. D \subseteq E /\ K \subseteq E
  OBVIOUS
<1>4. Sound(A, E) /\ A.currpid = M.currpid /\ A.alive = M.alive
  BY <1>1, <1>2, <1>3, MapKeeps
<1>5. Sound(N, E) /\ N.currpid = A.currpid /\ N.alive = A.alive
  BY <1>3, <1>4, OvertakeKeeps
<1>. QED
  BY <1>1, <1>2, <1>3, <1>4, <1>5, InstallKeeps

\* xmunmap()
LEMMA XmunmapKeeps ==
  ASSUME PagingInv, NEW v \in VPages, Xmunmap(v)
  PROVE  PagingInv'
<1>. PICK D, M, p : D = disputed /\ M = Memory /\ p = currpid
  OBVIOUS
<1>. PICK N : N = Unmap(M, p, v)
  OBVIOUS
<1>1. /\ Sound(M, D) /\ ~strayed /\ p \in M.alive /\ M.currpid = p
      /\ StoresOf(M, p, v) # {} /\ Install(N) /\ disputed' = D
  BY MemoryFields DEF PagingInv, Xmunmap, Running
<1>2. p \in Procs
  BY <1>1 DEF Sound, Typed
<1>3. ~Strays(N) => Sound(N, D) /\ N.currpid = M.currpid /\ N.alive = M.alive
  BY <1>1, <1>2, UnmapKeeps
<1>. QED
  BY <1>1, <1>3, InstallKeeps

\* srpolicy(): both queues are kept under either policy.
LEMMA SrpolicyKeeps ==
  ASSUME PagingInv, NEW new \in {"SC", "FIFO"}, Srpolicy(new)
  PROVE  PagingInv'
<1>. PICK D, M : D = disputed /\ M = Memory
  OBVIOUS
<1>. PICK N : N = [M EXCEPT !.policy = new]
  OBVIOUS
<1>1. /\ Sound(M, D) /\ IsRecord(M) /\ ~strayed /\ M.currpid \in M.alive \cup {NULLPROC}
      /\ Install(N) /\ disputed' = D
  BY MemoryFields DEF PagingInv, Srpolicy, Running
<1>2. /\ IsRecord(N) /\ N.policy = new
      /\ \A x \in Fields \ {"policy", "strayed", "doubtful"} : N[x] = M[x]
  BY <1>1 DEF IsRecord, Fields
<1>3. Sound(N, D)
  BY <1>1, <1>2, SoundCarries
<1>4. N.currpid = M.currpid /\ N.alive = M.alive
  BY <1>2 DEF Fields
<1>. QED
  BY <1>1, <1>3, <1>4, InstallKeeps

\* pfint()
LEMMA PageFaultStep ==
  ASSUME PagingInv, NEW v \in VPages, PageFault(v)
  PROVE  PagingInv'
<1>. PICK D, M, p : D = disputed /\ M = Memory /\ p = currpid
  OBVIOUS
<1>. PICK G : G = GetFrame(WithPageTable(M, p, v))
  OBVIOUS
<1>. PICK N : N = Load(G.M, p, v, G.f)
  OBVIOUS
<1>1. /\ Sound(M, D) /\ ~strayed /\ p \in M.alive /\ p = M.currpid
      /\ M.pt[p][v] = NONE /\ StoresOf(M, p, v) # {} /\ disputed' = D
      /\ IF G.M.strayed THEN Install(G.M) ELSE Install(N)
  BY MemoryFields DEF PagingInv, PageFault, Running
<1>2. ~Strays(G.M) => Sound(N, D) /\ N.currpid = M.currpid /\ N.alive = M.alive
  BY <1>1, PageFaultKeeps
<1>3. CASE G.M.strayed
  <2>. PICK X : X = G.M
    OBVIOUS
  <2>1. Install(X) /\ Strays(X)
    BY <1>1, <1>3 DEF Strays
  <2>. QED
    BY <1>1, <2>1, InstallKeeps
<1>4. CASE ~G.M.strayed
  <2>1. ~Strays(G.M) /\ Install(N)
    BY <1>1, <1>4 DEF Strays
  <2>. QED
    BY <1>1, <1>2, <2>1, InstallKeeps
<1>. QED
  BY <1>3, <1>4

\* A write to a page that is present.
LEMMA WriteKeeps ==
  ASSUME PagingInv, NEW v \in Written, Write(v)
  PROVE  PagingInv'
<1>. PICK D, M, p : D = disputed /\ M = Memory /\ p = currpid
  OBVIOUS
<1>. PICK f, k : f = M.pt[p][v] /\ k = Lookup(M, p, v)
  OBVIOUS
<1>. PICK E : E = D \cup {j \in {k} \cap StorePages : Dispute(j)}
  OBVIOUS
<1>. PICK K, c : K = {k} /\ c = IF k \in E THEN OLD ELSE k
  OBVIOUS
<1>. PICK O : O = Overtake(M, K)
  OBVIOUS
<1>. PICK N : N = WithWrite(O, f, c, p, v)
  OBVIOUS
<1>1. /\ Sound(M, D) /\ ~strayed /\ p \in M.alive /\ p = M.currpid
      /\ M.pt[p][v] # NONE /\ M.pt = pt /\ M.alive = alive /\ M.bsm = bsm_tab
  BY MemoryFields DEF PagingInv, Write, Running
<1>2. Install(N) /\ disputed' = E
  BY <1>1 DEF Write, WithWrite
<1>3. v \in VPages /\ p \in Procs /\ Typed(M)
  BY <1>1, BoundsAssumption DEF VPages, Sound, Typed
<1>4. f \in Frames
  <2>1. M.pt \in [Procs -> [VPages -> Frames \cup {NONE}]]
    BY <1>3 DEF Typed
  <2>2. M.pt[p] \in [VPages -> Frames \cup {NONE}]
    BY <1>3, <2>1
  <2>. QED
    BY <1>1, <1>3, <2>2
<1>5. k \in StorePages \ E => ~Disputed(M, k)
  <2>1. Dispute(k) <=> Disputed(M, k)
    BY <1>1 DEF Dispute, Disputed
  <2>. QED
    BY <2>1
<1>6. Wrote(N, M, p, v, f, k, E)
  BY <1>3, <1>4, WriteWrites
<1>7. D \subseteq E
  OBVIOUS
<1>8. Sound(N, E)
  BY <1>1, <1>3, <1>5, <1>6, <1>7, WroteKeeps
<1>9. N.currpid = M.currpid /\ N.alive = M.alive
  BY <1>6 DEF Wrote, Fields
<1>. QED
  BY <1>1, <1>2, <1>7, <1>8, <1>9, InstallKeeps

\* resched()
LEMMA SwitchStep ==
  ASSUME PagingInv, NEW q \in Procs \cup {NULLPROC}, Switch(q)
  PROVE  PagingInv'
<1>. PICK D, M, N : D = disputed /\ M = Memory /\ N = SwitchTo(M, q)
  OBVIOUS
<1>1. /\ Sound(M, D) /\ ~strayed /\ q \in M.alive \cup {NULLPROC} /\ disputed' = D /\ Install(N)
  BY MemoryFields DEF PagingInv, Switch
<1>2. ~N.strayed => Sound(N, D) /\ N.currpid = q /\ N.alive = M.alive
  BY <1>1, SwitchToKeeps
<1>. QED
  BY <1>1, <1>2, InstallKeeps DEF Strays

\* No operation breaks the invariant, whatever the tables are that it finds.
LEMMA StepKeeps ==
  ASSUME PagingInv, [Next]_vars
  PROVE  PagingInv'
<1>1. CASE UNCHANGED vars
  <2>1. Memory' = Memory /\ disputed' = disputed /\ alive' = alive
        /\ currpid' = currpid /\ strayed' = strayed
    BY <1>1 DEF vars, Memory
  <2>. QED
    BY <2>1 DEF PagingInv
<1>2. CASE Next
  <2>1. CASE \E p \in Procs : Create(p) \/ Kill(p)
    BY <2>1, CreateKeeps, KillKeeps
  <2>2. CASE \E p \in Procs \cup {SYSERR}, h \in HeapSizes : VCreate(p, h)
    BY <2>2, VCreateKeeps
  <2>3. CASE \E s \in Stores : GetBs(s) \/ ReleaseBs(s)
    BY <2>3, GetBsKeeps, ReleaseBsKeeps
  <2>4. CASE \E v \in VPages, s \in Stores, n \in 1..NPBS : Xmmap(v, s, n)
    BY <2>4, XmmapKeeps
  <2>5. CASE \E v \in VPages : Xmunmap(v)
    BY <2>5, XmunmapKeeps
  <2>6. CASE \E new \in {"SC", "FIFO"} : Srpolicy(new)
    BY <2>6, SrpolicyKeeps
  <2>7. CASE \E v \in VPages : PageFault(v)
    BY <2>7, PageFaultStep
  <2>8. CASE \E v \in Written : Write(v)
    BY <2>8, WriteKeeps
  <2>9. CASE \E q \in Procs \cup {NULLPROC} : Switch(q)
    BY <2>9, SwitchStep
  <2>. QED
    BY <1>2, <2>1, <2>2, <2>3, <2>4, <2>5, <2>6, <2>7, <2>8, <2>9 DEF Next
<1>. QED
  BY <1>1, <1>2

\* At first main() has a directory, and there is nothing else.
LEMMA StartHolds == Init => PagingInv
<1>. SUFFICES ASSUME Init PROVE PagingInv
  OBVIOUS
<1>. PICK M : M = Memory
  OBVIOUS
<1>0. /\ M.policy = "SC" /\ M.content = [f \in Frames |-> OLD]
      /\ M.fifo = <<>> /\ M.index = NONE /\ M.pages = 0
      /\ M.pd = [p \in Procs |-> [t \in Tables |-> NONE]]
      /\ M.pt = [p \in Procs |-> [v \in VPages |-> NONE]]
      /\ M.dirty = [p \in Procs |-> {}] /\ M.store = [k \in StorePages |-> k]
      /\ M.currpid \in Procs /\ M.alive = {M.currpid} /\ IsRecord(M)
  BY MemoryFields DEF Init
<1>1. /\ M.frame = [f \in Frames |-> IF f = 0 THEN Owned("DIR", M.currpid) ELSE Unmapped]
      /\ M.bsm = [s \in Stores |-> [mapped |-> FALSE, private |-> FALSE, npages |-> NONE,
                                    total |-> 0, vpno |-> [p \in Procs |-> NONE]]]
  BY MemoryFields DEF Init
<1>2. /\ M.frame \in [Frames -> FrameEntry]
      /\ \A f \in Frames : M.frame[f] = Unmapped \/ M.frame[f] = Owned("DIR", M.currpid)
      /\ \A f \in Frames : M.frame[f] = Owned("DIR", M.currpid) <=> f = 0
  BY <1>0, <1>1, UnmappedFacts
<1>3. \A f \in Frames : ~IsPage(M, f)
  BY <1>2, UnmappedFacts DEF IsPage
<1>4. \A s \in Stores : /\ M.bsm[s] \in StoreEntry /\ ~M.bsm[s].private
                        /\ M.bsm[s].total = 0 /\ M.bsm[s].npages = NONE
                        /\ \A p \in Procs : M.bsm[s].vpno[p] = NONE
  BY <1>1 DEF StoreEntry
<1>5. Typed(M)
  <2>1. M.bsm \in [Stores -> StoreEntry]
    BY <1>1, <1>4
  <2>. QED
    BY <1>0, <1>2, <2>1 DEF Typed
<1>6. Framed(M)
  BY <1>0, <1>2, UnmappedFacts DEF Framed
<1>7. Directed(M)
  <2>1. 0 \in Frames
    BY Sizes DEF Frames
  <2>. QED
    BY <1>0, <1>2, <2>1 DEF Directed
<1>8. Queued(M)
  <2>1. {f \in Frames : IsPage(M, f)} = {}
    BY <1>3
  <2>2. \A x \in Frames : ~Contains(<<>>, x)
    BY DEF Contains
  <2>. QED
    BY <1>0, <2>1, <2>2 DEF Queued, HoldsIn
<1>9. \A s \in Stores : Users(M, s) = {}
  BY <1>4 DEF Users
<1>10. Stored(M)
  <2>1. IsFiniteSet(M.alive)
    <3>1. M.alive = {M.currpid}
      BY <1>0
    <3>. QED
      BY <3>1, FS_Singleton, Zenon
  <2>2. \A s \in Stores : Cardinality(Users(M, s)) = 0
    BY <1>9, FS_EmptySet
  <2>. QED
    BY <1>4, <1>9, <2>1, <2>2 DEF Stored
<1>11. Apart(M)
  BY <1>4 DEF Apart, Covers
<1>12. Fresh(M, disputed)
  <2>. SUFFICES ASSUME NEW k \in StorePages PROVE FreshPage(M, k)
    BY DEF Fresh
  <2>1. M.store[k] = k /\ Users(M, k[1]) = {}
    BY <1>0, <1>9, StorePageFacts
  <2>. QED
    BY <1>3, <2>1 DEF FreshPage, Counts
<1>. QED
  BY <1>0, <1>5, <1>6, <1>7, <1>8, <1>10, <1>11, <1>12, MemoryFields DEF Sound, PagingInv, Init

\* So it holds all the time.
LEMMA PagingInvHolds == Spec => []PagingInv
<1>. QED
  BY StartHolds, StepKeeps, PTL DEF Spec

-------------------------------------------------------------------------------
(***************************************************************************)
(* What that says of the tables.                                           *)
(***************************************************************************)
\* Frames and page tables tell the same story.
LEMMA FramesFit == PagingInv => FramesMatchTables
<1>. SUFFICES ASSUME PagingInv PROVE FramesMatchTables
  OBVIOUS
<1>. PICK M : M = Memory
  OBVIOUS
<1>0. /\ Typed(M) /\ Framed(M) /\ Directed(M)
      /\ M.frame = frame_tab /\ M.pt = pt /\ M.pd = pd /\ M.alive = alive
  BY MemoryFields DEF PagingInv, Sound
<1>1. Pages = {f \in Frames : IsPage(M, f)}
  BY <1>0 DEF Pages, IsPage
<1>2. \A f \in Pages : pt[frame_tab[f].pid][frame_tab[f].vpno] = f
  BY <1>0, <1>1, PageFacts
<1>3. \A p \in Procs, v \in VPages : pt[p][v] # NONE =>
        /\ p \in alive /\ pd[p][v \div NPTE] # NONE
        /\ pt[p][v] \in Pages
        /\ frame_tab[pt[p][v]].pid = p /\ frame_tab[pt[p][v]].vpno = v
  <2>. TAKE p \in Procs, v \in VPages
  <2>1. pt[p][v] \in Frames \cup {NONE}
    <3>1. M.pt \in [Procs -> [VPages -> Frames \cup {NONE}]]
      BY <1>0 DEF Typed
    <3>. QED
      BY <1>0, <3>1
  <2>. QED
    BY <1>0, <1>1, <2>1 DEF Framed
<1>4. ASSUME NEW p \in Procs
      PROVE  Cardinality({f \in Frames : frame_tab[f] = Owned("DIR", p)})
               = IF p \in alive THEN 1 ELSE 0
  <2>. PICK S : S = {f \in Frames : frame_tab[f] = Owned("DIR", p)}
    OBVIOUS
  <2>1. CASE p \in alive
    <3>1. PICK f \in Frames : \A g \in Frames : M.frame[g] = Owned("DIR", p) <=> g = f
      BY <1>0, <2>1 DEF Directed
    <3>2. S = {f}
      BY <1>0, <3>1
    <3>. QED
      BY <2>1, <3>2, FS_Singleton
  <2>2. CASE p \notin alive
    <3>1. S = {}
      BY <1>0, <2>2, UnmappedFacts DEF Framed
    <3>. QED
      BY <2>2, <3>1, FS_EmptySet
  <2>. QED
    BY <2>1, <2>2
<1>5. \A p \in alive, t \in Tables :
        pd[p][t] # NONE => /\ frame_tab[pd[p][t]] = Owned("TBL", p)
                           /\ \A u \in Tables \ {t} : pd[p][u] # pd[p][t]
  BY <1>0 DEF Directed
<1>. QED
  BY <1>2, <1>3, <1>4, <1>5 DEF FramesMatchTables

\* A list that holds each entry once is as long as it has entries.
LEMMA OnceEach ==
  ASSUME NEW A, NEW list \in Seq(A), NEW S \in SUBSET A, HoldsIn(A, list, S)
  PROVE  ToSet(list) = S /\ Cardinality(S) = Len(list)
<1>1. ToSet(list) = S
  <2>1. DOMAIN list = 1..Len(list) /\ \A i \in 1..Len(list) : list[i] \in A
    OBVIOUS
  <2>2. \A x \in A : (\E i \in 1..Len(list) : list[i] = x) <=> x \in S
    BY DEF HoldsIn, Contains
  <2>. QED
    BY <2>1, <2>2 DEF ToSet
<1>2. list \in Bijection(1..Len(list), S)
  BY <1>1 DEF HoldsIn, ToSet, Bijection, Injection, Surjection, IsInjective
<1>3. ExistsBijection(1..Len(list), S)
  BY <1>2 DEF ExistsBijection
<1>. QED
  BY <1>1, <1>3, FS_CountingElements

\* The queues know the pages.
LEMMA QueuesFit == PagingInv => QueuesKnowPages
<1>. SUFFICES ASSUME PagingInv PROVE QueuesKnowPages
  OBVIOUS
<1>. PICK M : M = Memory
  OBVIOUS
<1>0. /\ Typed(M) /\ Queued(M) /\ M.frame = frame_tab /\ M.fifo = fifo
      /\ M.pages = sc_queue_pages /\ M.index = sc_index
  BY MemoryFields DEF PagingInv, Sound
<1>1. Pages = {f \in Frames : IsPage(M, f)} /\ Pages \in SUBSET Frames
  BY <1>0 DEF Pages, IsPage
<1>2. HoldsIn(Frames, fifo, Pages) /\ fifo \in Seq(Frames)
  BY <1>0, <1>1 DEF Queued, Typed
<1>3. ToSet(fifo) = Pages /\ Cardinality(Pages) = Len(fifo)
  BY <1>1, <1>2, OnceEach
<1>. QED
  BY <1>0, <1>3 DEF QueuesKnowPages, Queued

\* The stores are kept.
LEMMA StoresFit == PagingInv => StoresKept
<1>. SUFFICES ASSUME PagingInv PROVE StoresKept
  OBVIOUS
<1>. PICK M : M = Memory
  OBVIOUS
<1>0. Stored(M) /\ M.bsm = bsm_tab /\ M.alive = alive
  BY MemoryFields DEF PagingInv, Sound
<1>. QED
  BY <1>0 DEF Stored, Users, StoresKept

\* What a process finds was last written: it is in its frame, in the frame that will be
\* copied out before it runs, or in the store.
LEMMA ReadsFit == PagingInv => ReadsLastWrite
<1>. SUFFICES ASSUME PagingInv, NEW p \in alive, NEW v \in VPages,
                     Lookup(Memory, p, v) # <<>>, Lookup(Memory, p, v) \notin disputed
              PROVE  Finds(Memory, p, v, Lookup(Memory, p, v)) = Lookup(Memory, p, v)
  BY DEF ReadsLastWrite
<1>. PICK M, k : M = Memory /\ k = Lookup(M, p, v)
  OBVIOUS
<1>. PICK own, pending : /\ own = pt[p][v]
                         /\ pending = {f \in PagesOf(M, currpid) : IsDirty(M, f) /\ Home(M, f) = k}
  OBVIOUS
<1>0. /\ Typed(M) /\ Framed(M) /\ Apart(M) /\ Fresh(M, disputed)
      /\ M.pt = pt /\ M.alive = alive /\ M.bsm = bsm_tab /\ M.currpid = currpid
      /\ M.content = content /\ M.store = store /\ p \in Procs
  BY MemoryFields DEF PagingInv, Sound, Typed
<1>1. k \in StorePages /\ p \in Users(M, k[1]) /\ k # <<>>
  BY <1>0, LookupIs
<1>2. FreshPage(M, k)
  BY <1>0, <1>1 DEF Fresh
<1>3. CASE own # NONE /\ (p = currpid \/ bsm_tab[k[1]].private)
  <2>1. /\ own \in Frames /\ IsPage(M, own) /\ M.frame[own].pid = p /\ M.frame[own].vpno = v
    <3>1. M.pt \in [Procs -> [VPages -> Frames \cup {NONE}]]
      BY <1>0 DEF Typed
    <3>. QED
      BY <1>0, <1>3, <3>1 DEF Framed
  <2>2. Counts(M, own, k)
    BY <1>0, <1>3, <2>1 DEF Counts, Home
  <2>3. content[own] = k
    BY <1>0, <1>2, <2>1, <2>2 DEF FreshPage
  <2>. QED
    BY <1>3, <2>3 DEF Finds
<1>4. CASE /\ ~(own # NONE /\ (p = currpid \/ bsm_tab[k[1]].private))
           /\ p # currpid /\ pending # {} /\ ~bsm_tab[k[1]].private
  <2>. PICK f : f = CHOOSE g \in pending : TRUE
    OBVIOUS
  <2>1. f \in pending
    BY <1>4
  <2>2. f \in Frames /\ Counts(M, f, k)
    BY <2>1 DEF Counts, PagesOf, IsPage
  <2>3. content[f] = k
    BY <1>0, <1>2, <2>2 DEF FreshPage
  <2>. QED
    BY <1>4, <2>3 DEF Finds
<1>5. CASE /\ ~(own # NONE /\ (p = currpid \/ bsm_tab[k[1]].private))
           /\ ~(p # currpid /\ pending # {} /\ ~bsm_tab[k[1]].private)
  <2>1. ASSUME NEW f \in Frames, Ahead(M, f, k), M.frame[f].pid = p PROVE FALSE
    <3>1. IsPage(M, f) /\ Home(M, f) = k /\ (p = currpid \/ bsm_tab[k[1]].private)
      BY <1>0, <2>1 DEF Ahead
    <3>2. M.frame[f].vpno \in VPages /\ M.pt[p][M.frame[f].vpno] = f
          /\ Lookup(M, p, M.frame[f].vpno) = k
      BY <1>0, <2>1, <3>1, PageFacts
    <3>3. M.frame[f].vpno = v
      BY <1>0, <1>1, <3>2, LookupOnce
    <3>. QED
      BY <1>0, <1>5, <3>1, <3>2, <3>3, Sizes
  <2>2. ASSUME NEW f \in Frames, Ahead(M, f, k) PROVE FALSE
    <3>. PICK q : q = M.frame[f].pid
      OBVIOUS
    <3>1. /\ IsPage(M, f) /\ Home(M, f) = k /\ IsDirty(M, f)
          /\ q = currpid \/ bsm_tab[k[1]].private
      BY <1>0, <2>2 DEF Ahead
    <3>2. CASE bsm_tab[k[1]].private
      <4>1. q \in Procs /\ M.frame[f].vpno \in VPages /\ Lookup(M, q, M.frame[f].vpno) = k
        BY <1>0, <3>1, PageFacts
      <4>2. q \in Users(M, k[1])
        BY <1>0, <1>1, <4>1, LookupIs
      <4>3. q = p
        BY <1>0, <1>1, <1>2, <3>2, <4>2 DEF FreshPage
      <4>. QED
        BY <2>1, <2>2, <4>3
    <3>3. CASE q = currpid /\ ~bsm_tab[k[1]].private
      <4>1. f \in pending
        BY <3>1, <3>3 DEF PagesOf, IsPage
      <4>. QED
        BY <1>5, <2>1, <2>2, <3>3, <4>1
    <3>. QED
      BY <3>1, <3>2, <3>3
  <2>3. store[k] = k
    BY <1>0, <1>2, <2>2 DEF FreshPage
  <2>. QED
    BY <1>5, <2>3 DEF Finds
<1>. QED
  BY <1>3, <1>4, <1>5

-------------------------------------------------------------------------------
(***************************************************************************)
(* The theorems.                                                           *)
(***************************************************************************)
\* A page is present exactly where a frame says it is, and nothing of a dead process is:
\* whatever pfint(), free_frm() (frame.c), create() and kill() do, in whatever order.
THEOREM FramesAlwaysMatchTables == Spec => []FramesMatchTables
<1>. QED
  BY PagingInvHolds, FramesFit, PTL

\* Both replacement policies know exactly the frames that hold pages, whichever of them
\* srpolicy() has put in force.
THEOREM QueuesAlwaysKnowPages == Spec => []QueuesKnowPages
<1>. QED
  BY PagingInvHolds, QueuesFit, PTL

\* A store that somebody maps keeps its length and its users are counted, and one that is
\* private stays taken, whatever bsm_map(), bsm_unmap(), release_bs(), get_bs() and vcreate()
\* do: also when vcreate() makes a store private after create() has failed.
THEOREM StoresAlwaysKept == Spec => []StoresKept
<1>. QED
  BY PagingInvHolds, StoresFit, PTL

\* Through replacement, switches, unmapping and death every process reads what was last
\* written to its pages, but for those that two had dirty copies of at a time (resched.c:76),
\* that were dirty where the store was mapped anew, or that vcreate() took from under others.
THEOREM EveryoneReadsLastWrite == Spec => []ReadsLastWrite
<1>. QED
  BY PagingInvHolds, ReadsFit, PTL
===============================================================================
