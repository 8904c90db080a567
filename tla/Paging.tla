--------------------------------- MODULE Paging ---------------------------------
(***************************************************************************)
(* Demand paging of lab 3 (csc501-lab3/paging, with the resched(), create()*)
(* and kill() of csc501-lab3/sys): backing stores that processes map into  *)
(* their memory and share, frames, the page fault handler, replacement,    *)
(* and the copies made at a context switch.                                *)
(*                                                                         *)
(* Every operation but get_bs() disables interrupts, and each is one step; *)
(* kill() may be cut by its send() before it does what is modelled here.   *)
(* The frames that sysinit() gives to the four global page tables and to   *)
(* the null process never change hands and are not counted.  Virtual page  *)
(* 0 of the model is page 4096, the first that may be mapped.              *)
(*                                                                         *)
(* Of what a page holds the model tells only this: page k of a store, or a *)
(* copy of it in a frame, holds k if it holds what was last written to k,  *)
(* and OLD if it was overtaken.  Programs touch pages only where they map  *)
(* a store.  Where the source no longer says what happens next, strayed is *)
(* set and the model stops.                                                *)
(***************************************************************************)
EXTENDS Integers, Sequences, FiniteSets, SequencesExt, FiniteSetsExt

CONSTANTS
  Procs,       \* process slots
  NULLPROC,    \* the null process, which has no pages
  NFRAMES,     \* frames for directories, page tables and pages
  NBS,         \* backing stores
  NPBS,        \* pages of a backing store
  NVP,         \* virtual pages that may be mapped
  NPTE,        \* entries of a page table
  HeapSizes,   \* pages of heap that vcreate() is asked for
  Written,     \* bound: virtual pages that programs write to
  MaxTotal,    \* bound: how often a store is mapped at a time
  MaxLeaked    \* bound: page tables lost when the last process is created

SYSERR == -1

ASSUME ProcsAssumption == NULLPROC \notin Procs /\ SYSERR \notin Procs
ASSUME SizesAssumption == {NFRAMES, NBS, NPBS, NVP, NPTE} \subseteq Nat \ {0}
ASSUME BoundsAssumption == Written \subseteq 0..NVP - 1 /\ {MaxTotal, MaxLeaked} \subseteq Nat
ASSUME HeapsAssumption == HeapSizes \subseteq 1..NVP

VARIABLES
  policy,          \* page_replace_policy
  frame_tab,       \* frame_tab[]: fr_type, fr_pid, fr_vpno, fr_sc
  content,         \* what each page frame holds
  fifo,            \* the list at fifohead
  sc_index,
  sc_queue_pages,
  pd,              \* page tables in each process's directory
  pt,              \* page table entries: frame of a present page
  dirty,           \* page table entries with pt_dirty set
  bsm_tab,         \* bsm_tab[]: bs_status, bs_vpno, bs_npages, bs_shared_priv, bs_total_proc
  store,           \* what the pages of the backing stores hold
  currpid,
  alive,           \* processes that are not PRFREE
  strayed,         \* the source says no more
  disputed         \* history: store pages of which two copies claimed the last write

vars == <<policy, frame_tab, content, fifo, sc_index, sc_queue_pages, pd, pt, dirty,
          bsm_tab, store, currpid, alive, strayed, disputed>>

NONE == -1
Frames == 0..NFRAMES - 1
Stores == 0..NBS - 1
StorePages == Stores \X (0..NPBS - 1)
VPages == 0..NVP - 1
OLD == <<>>
Tables == {v \div NPTE : v \in VPages}

Unmapped == [type |-> "UNMAPPED", pid |-> NULLPROC, vpno |-> NONE, sc |-> FALSE]
Owned(type, p) == [Unmapped EXCEPT !.type = type, !.pid = p]

\* main() runs in one of the slots.
Init ==
  /\ policy = "SC"
  /\ currpid \in Procs /\ alive = {currpid}
  /\ frame_tab = [f \in Frames |-> IF f = 0 THEN Owned("DIR", currpid) ELSE Unmapped]
  /\ content = [f \in Frames |-> OLD]
  /\ fifo = <<>> /\ sc_index = NONE /\ sc_queue_pages = 0
  /\ pd = [p \in Procs |-> [t \in Tables |-> NONE]]
  /\ pt = [p \in Procs |-> [v \in VPages |-> NONE]]
  /\ dirty = [p \in Procs |-> {}]
  /\ bsm_tab = [s \in Stores |-> [mapped |-> FALSE, private |-> FALSE, npages |-> NONE,
                                  total |-> 0, vpno |-> [p \in Procs |-> NONE]]]
  /\ store = [k \in StorePages |-> k]
  /\ strayed = FALSE
  /\ disputed = {}

-------------------------------------------------------------------------------
(***************************************************************************)
(* The kernel's functions, on a record of the tables they work on.         *)
(***************************************************************************)
Memory == [policy |-> policy, frame |-> frame_tab, content |-> content, fifo |-> fifo,
           index |-> sc_index, pages |-> sc_queue_pages, pd |-> pd, pt |-> pt,
           dirty |-> dirty, bsm |-> bsm_tab, store |-> store, currpid |-> currpid,
           alive |-> alive, strayed |-> FALSE, doubtful |-> FALSE]

\* After what is doubtful the model may stop as well, as when a page is removed:
\* remove_page_table_entry() counts down a word behind frame_tab[], and clears pd_pres
\* if that becomes 0: what the word belongs to is not known.  And nothing tells the
\* processor: until CR3 is loaded it may go on using the frame for the page, whosever
\* the frame is by then.
Install(M) ==
  \/ /\ ~M.strayed
     /\ policy' = M.policy /\ frame_tab' = M.frame /\ content' = M.content
     /\ fifo' = M.fifo /\ sc_index' = M.index /\ sc_queue_pages' = M.pages
     /\ pd' = M.pd /\ pt' = M.pt /\ dirty' = M.dirty
     /\ bsm_tab' = M.bsm /\ store' = M.store
     /\ currpid' = M.currpid /\ alive' = M.alive
     /\ UNCHANGED strayed
  \/ /\ M.strayed \/ M.doubtful
     /\ strayed' = TRUE
     /\ UNCHANGED <<policy, frame_tab, content, fifo, sc_index, sc_queue_pages, pd, pt,
                    dirty, bsm_tab, store, currpid, alive>>

Covers(M, p, s, v) ==
  M.bsm[s].vpno[p] # NONE /\ v \in M.bsm[s].vpno[p]..M.bsm[s].vpno[p] + M.bsm[s].npages - 1

StoresOf(M, p, v) == {s \in Stores : Covers(M, p, s, v)}

\* bsm_lookup(): the store and the page of it that p sees at v, or nothing.
Lookup(M, p, v) ==
  IF StoresOf(M, p, v) = {} THEN <<>>
  ELSE LET s == Min(StoresOf(M, p, v)) IN <<s, v - M.bsm[s].vpno[p]>>

\* What was last written to the pages K of the stores is so no longer.
Overtake(M, K) ==
  LET Past(c) == IF c \in K THEN OLD ELSE c
  IN  [M EXCEPT !.content = [f \in Frames |-> Past(@[f])], !.store = [k \in StorePages |-> Past(@[k])]]

PagesOf(M, p) == {f \in Frames : M.frame[f].type = "PAGE" /\ M.frame[f].pid = p}

\* Where frame f is kept, if its process still maps it.
Home(M, f) == Lookup(M, M.frame[f].pid, M.frame[f].vpno)
IsDirty(M, f) == M.frame[f].vpno \in M.dirty[M.frame[f].pid]
IsShared(M, f) == ~M.bsm[Home(M, f)[1]].private

\* Faulty: the frame is taken away, its page table entry stays.
FreeFrameOnly(M, f) ==
  [M EXCEPT !.frame[f] = Unmapped, !.content[f] = OLD,
            !.fifo = RemoveFirst(@, f), !.pages = @ - 1,
            !.index = IF M.pages = 1 THEN NONE ELSE @]

\* Faulty: the frame stays in the replacement queue.
FreeFrameStaysQueued(M, f) ==
  IF M.frame[f].type # "PAGE" THEN [M EXCEPT !.frame[f] = Unmapped]
  ELSE [M EXCEPT !.frame[f] = Unmapped, !.content[f] = OLD,
                 !.pt[M.frame[f].pid][M.frame[f].vpno] = NONE,
                 !.pages = @ - 1, !.index = IF M.pages = 1 THEN NONE ELSE @]

\* free_frm(), with remove_page_table_entry(): a dirty page goes back to its
\* store.  For one that is not mapped any more bsm_lookup() fails, the process is
\* killed in the midst of this, and the page written over some page of a store.
FreeFrame(M, f) ==
  LET fr == M.frame[f]
      writes == IsDirty(M, f)
  IN  IF fr.type # "PAGE" THEN [M EXCEPT !.frame[f] = Unmapped]
      ELSE IF writes /\ Home(M, f) = <<>> THEN [M EXCEPT !.strayed = TRUE]
      ELSE [M EXCEPT !.store = IF writes THEN [@ EXCEPT ![Home(M, f)] = M.content[f]] ELSE @,
                     !.pt[fr.pid][fr.vpno] = NONE,
                     !.fifo = RemoveFirst(@, f),
                     !.pages = @ - 1,
                     !.index = IF M.pages = 1 THEN NONE ELSE @,
                     !.frame[f] = Unmapped,
                     !.content[f] = OLD,
                     !.doubtful = TRUE]

\* The loop of kill() and bsm_unmap(): free_frm() on those of S, in the order of the table.
FreeFrames(M, S) ==
  LET upto[n \in 0..NFRAMES] == IF n = 0 THEN M
                                ELSE IF n - 1 \in S THEN FreeFrame(upto[n - 1], n - 1)
                                ELSE upto[n - 1]
  IN  upto[NFRAMES]

-------------------------------------------------------------------------------
(***************************************************************************)
(* Replacement.                                                            *)
(***************************************************************************)
IsPage(M, f) == M.frame[f].type = "PAGE"
Stray(M) == [f |-> 0, M |-> [M EXCEPT !.strayed = TRUE]]

\* The frame k places after f, round the frame table.
After(f, k) == (f + k) % NFRAMES

\* update_sc_index(): on to the next page, if there is another.
UpdateScIndex(M) ==
  LET later == {k \in 1..NFRAMES - 1 : IsPage(M, After(M.index, k))}
  IN  IF later = {} THEN M ELSE [M EXCEPT !.index = After(@, Min(later))]

\* Second chance.  The pages passed over lose theirs; when all had one, the frame
\* that sc_index is at is taken, whatever is in it by then.
SecondChance(M) ==
  LET taken == {k \in 0..NFRAMES - 1 :
                  IsPage(M, After(M.index, k)) /\ ~M.frame[After(M.index, k)].sc}
      last == IF taken = {} THEN NFRAMES ELSE Min(taken)
      passed == {After(M.index, k) : k \in 0..last - 1}
  IN  [f |-> IF taken = {} THEN M.index ELSE After(M.index, last),
       M |-> UpdateScIndex([M EXCEPT !.frame = [f \in Frames |->
               IF f \in passed /\ IsPage(M, f) THEN [@[f] EXCEPT !.sc = FALSE] ELSE @[f]]])]

\* get_page_to_replace(), when every frame is mapped.
GetPageToReplace(M) ==
  IF M.fifo = <<>> THEN Stray(M)
  ELSE IF M.policy = "FIFO" THEN [f |-> Head(M.fifo), M |-> M]
  ELSE SecondChance(M)

\* get_frm()
GetFrame(M) ==
  LET free == {f \in Frames : M.frame[f].type = "UNMAPPED"}
      victim == GetPageToReplace(M)
  IN  IF M.strayed THEN Stray(M)
      ELSE IF free # {} THEN [f |-> Min(free), M |-> M]
      ELSE IF victim.M.strayed THEN victim
      ELSE IF ~IsPage(victim.M, victim.f) THEN Stray(M)
      ELSE [f |-> victim.f, M |-> FreeFrame(victim.M, victim.f)]

\* allocate_page_dir(), allocate_page_table()
Allocate(M, p, type) ==
  LET got == GetFrame(M) IN [got EXCEPT !.M.frame[got.f] = Owned(type, p)]

\* The page table of v, made when the directory has none.
WithPageTable(M, p, v) ==
  LET t == v \div NPTE
      got == Allocate(M, p, "TBL")
      InTable(w) == w \div NPTE = t
  IN  IF M.pd[p][t] # NONE THEN M
      ELSE [got.M EXCEPT !.pd[p][t] = got.f,
                         !.pt[p] = [w \in VPages |-> IF InTable(w) THEN NONE ELSE @[w]],
                         !.dirty[p] = {w \in @ : ~InTable(w)}]

\* The end of pfint(): frame f gets the page, from its store.
Load(M, p, v, f) ==
  [M EXCEPT !.frame[f] = [type |-> "PAGE", pid |-> p, vpno |-> v, sc |-> TRUE],
            !.content[f] = M.store[Lookup(M, p, v)],
            !.pages = @ + 1,
            !.index = IF M.pages = 0 THEN f ELSE @,
            !.fifo = Append(@, f),
            !.pt[p][v] = f]

-------------------------------------------------------------------------------
(***************************************************************************)
(* The context switch.                                                     *)
(***************************************************************************)

\* Faulty: nothing is written back.
FlushNothing(M) == M

\* The dirty pages of the process switched out go to the stores it shares.
Flush(M) ==
  LET out == {f \in PagesOf(M, M.currpid) : IsDirty(M, f)}
  IN  IF \E f \in out : Home(M, f) = <<>> THEN [M EXCEPT !.strayed = TRUE]
      ELSE [M EXCEPT !.store = [k \in StorePages |->
              LET from == {f \in out : Home(M, f) = k /\ IsShared(M, f)}
              IN  IF from = {} THEN @[k] ELSE M.content[CHOOSE f \in from : TRUE]]]

\* The pages of the process switched in are read again from the stores it shares.
\* The first that is not mapped makes resched() kill it, inside resched().
Refresh(M) ==
  LET in == PagesOf(M, M.currpid)
  IN  IF \E f \in in : Home(M, f) = <<>> THEN [M EXCEPT !.strayed = TRUE]
      ELSE [M EXCEPT !.content = [f \in Frames |->
              IF f \in in /\ IsShared(M, f) THEN M.store[Home(M, f)] ELSE @[f]]]

\* resched() with q the next; write_cr3() drops all the processor has cached.
SwitchTo(M, q) ==
  LET flushed == Flush(M)
  IN  IF flushed.strayed THEN flushed
      ELSE Refresh([flushed EXCEPT !.currpid = q])

-------------------------------------------------------------------------------
(***************************************************************************)
(* Backing store mappings.                                                 *)
(***************************************************************************)

\* free_bsm()
FreeStore(M, s) == [M EXCEPT !.bsm[s].mapped = FALSE, !.bsm[s].private = FALSE]

\* Faulty: a store that is mapped already is not counted again.
MapFirst(M, p, v, s, n) ==
  IF p = SYSERR THEN M ELSE
  [M EXCEPT !.bsm[s].vpno[p] = v, !.bsm[s].total = 1,
            !.bsm[s].npages = IF @ = NONE THEN n ELSE @]

\* bsm_map(), of a store that is not private.
Map(M, p, v, s, n) ==
  IF p = SYSERR THEN M ELSE
  [M EXCEPT !.bsm[s].vpno[p] = v, !.bsm[s].total = @ + 1,
            !.bsm[s].npages = IF @ = NONE THEN n ELSE @]

\* bsm_unmap(), on the mapping that it finds at v: it takes all pages of p away,
\* and the last process gives the store up.
Unmap(M, p, v) ==
  LET s == Min(StoresOf(M, p, v))
      freed == FreeFrames(M, PagesOf(M, p))
      left == [freed EXCEPT !.bsm[s].vpno[p] = NONE, !.bsm[s].total = @ - 1]
  IN  IF freed.strayed THEN freed
      ELSE IF left.bsm[s].total # 0 THEN left
      ELSE FreeStore([left EXCEPT !.bsm[s].npages = NONE], s)

-------------------------------------------------------------------------------
(***************************************************************************)
(* What processes do.                                                      *)
(***************************************************************************)
Running == ~strayed /\ currpid # NULLPROC

\* Page tables that kill() has left behind.
Leaked == {f \in Frames : frame_tab[f].type = "TBL" /\ \A p \in alive, t \in Tables : pd[p][t] # f}

MayCreate(p) == Running /\ p \notin alive /\ Cardinality(Leaked) <= MaxLeaked

\* create(), of a process in slot p.
WithProcess(M, p) ==
  LET got == Allocate(M, p, "DIR")
  IN  [got.M EXCEPT !.alive = @ \cup {p},
                    !.pd[p] = [t \in Tables |-> NONE],
                    !.pt[p] = [v \in VPages |-> NONE], !.dirty[p] = {}]

Create(p) ==
  /\ MayCreate(p)
  /\ Install(WithProcess(Memory, p))
  /\ UNCHANGED disputed

\* get_bsm()
FreeStores(M) == {s \in Stores : ~M.bsm[s].mapped}

\* The next store of the heap of p, if get_bsm() finds one: mapped behind the others,
\* the list of free blocks begun in it, and private from now on.  After a failed
\* create() p is SYSERR: bsm_map() refuses it, and the list is hung up in proctab[-1].
WithHeapStore(M, p, h, i) ==
  LET s == Min(FreeStores(M))
      v == (i - 1) * NPBS
  IN  IF M.strayed \/ FreeStores(M) = {} THEN M
      ELSE [Map(Overtake(M, {<<s, 0>>}), p, v, s, Min({NPBS, h - v})) EXCEPT
              !.store[<<s, 0>>] = IF <<s, 0>> \in disputed THEN OLD ELSE <<s, 0>>,
              !.bsm[s].mapped = TRUE, !.bsm[s].private = TRUE,
              !.doubtful = @ \/ p = SYSERR]

\* The stores that a heap of h pages needs.
HeapStores(h) == (h + NPBS - 1) \div NPBS

WithHeap(M, p, h) ==
  LET upto[i \in 0..HeapStores(h)] == IF i = 0 THEN M ELSE WithHeapStore(upto[i - 1], p, h, i)
  IN  upto[HeapStores(h)]

\* vcreate().  It does not ask whether create() failed, and takes the stores all the
\* same.  When these run out it reports an error and leaves the process and the stores
\* it has given it.
VCreate(p, h) ==
  /\ Running /\ (p = SYSERR \/ MayCreate(p))
  /\ LET made == WithHeap(IF p = SYSERR THEN Memory ELSE WithProcess(Memory, p), p, h)
         taken == FreeStores(Memory) \ FreeStores(made)
         shared == {k \in StorePages : k[1] \in taken /\ bsm_tab[k[1]].total # 0}
     IN  /\ Install(Overtake(made, shared))
         /\ disputed' = IF strayed' THEN disputed ELSE disputed \cup shared

\* kill(): pages, mappings, directory; its page tables stay taken.
UnmapStore(M, p, s) ==
  IF M.bsm[s].vpno[p] = NONE \/ M.strayed THEN M ELSE Unmap(M, p, M.bsm[s].vpno[p])

UnmapStores(M, p) ==
  LET upto[n \in 0..NBS] == IF n = 0 THEN M ELSE UnmapStore(upto[n - 1], p, n - 1)
  IN  upto[NBS]

WithoutProcess(M, p) ==
  LET left == UnmapStores(FreeFrames(M, PagesOf(M, p)), p)
  IN  [left EXCEPT !.alive = @ \ {p},
                   !.frame = [f \in Frames |->
                                IF @[f] = Owned("DIR", p) THEN Unmapped ELSE @[f]],
                   !.pd[p] = [t \in Tables |-> NONE],
                   !.pt[p] = [v \in VPages |-> NONE], !.dirty[p] = {}]

\* send() may switch to the next of kin before: what others do then is a Switch, and
\* theirs.  If they kill p, there is no directory left to free (pdfrm has no value).
Kill(p) ==
  /\ Running /\ p \in alive
  /\ LET left == WithoutProcess(Memory, p)
     IN  IF p # currpid \/ left.strayed THEN Install([left EXCEPT !.doubtful = TRUE])
         ELSE \E q \in (alive \cup {NULLPROC}) \ {p} : Install(SwitchTo(left, q))
  /\ UNCHANGED disputed

\* get_bs() marks the store.  Interrupts are enabled: since its test for a private store
\* vcreate() may have made this one private, so the test is no guard of this step.
\* (Every store was not private once, and a private one that is marked again stays as it
\* is.  Those that are mapped and have a length are left alone, which is the same.)
GetBs(s) ==
  /\ Running
  /\ Install([Memory EXCEPT !.bsm[s].mapped = TRUE])
  /\ UNCHANGED disputed

ReleaseBs(s) ==
  /\ Running
  /\ bsm_tab[s].total = 0 /\ bsm_tab[s].mapped
  /\ \A p \in Procs : bsm_tab[s].vpno[p] = NONE
  /\ Install(FreeStore(Memory, s))
  /\ UNCHANGED disputed

\* xmmap(), by a program that maps a store where it has nothing yet.  (The pages
\* are as many as the store was first mapped with, whatever n.)  A store that it
\* maps again is no longer found at its old place, where dirty pages may be.
Xmmap(v, s, n) ==
  /\ Running
  /\ bsm_tab[s].npages = NONE \/ bsm_tab[s].npages >= n
  /\ ~bsm_tab[s].private
  /\ bsm_tab[s].total < MaxTotal
  /\ LET mapped == Map(Memory, currpid, v, s, n)
         kept == {Home(Memory, f) : f \in {g \in PagesOf(Memory, currpid) : IsDirty(Memory, g)}}
         orphans == {k \in kept : k # <<>> /\ k[1] = s}
     IN  /\ \A w \in v..v + mapped.bsm[s].npages - 1 :
              /\ w \in VPages
              /\ StoresOf(Memory, currpid, w) = {} /\ pt[currpid][w] = NONE
         /\ Install(Overtake(mapped, orphans))
         /\ disputed' = disputed \cup orphans

Xmunmap(v) ==
  /\ Running
  /\ StoresOf(Memory, currpid, v) # {}
  /\ Install(Unmap(Memory, currpid, v))
  /\ UNCHANGED disputed

Srpolicy(new) ==
  /\ Running /\ policy # new
  /\ Install([Memory EXCEPT !.policy = new])
  /\ UNCHANGED disputed

\* pfint(): the running process touches a page that is not present.
PageFault(v) ==
  /\ Running
  /\ pt[currpid][v] = NONE /\ StoresOf(Memory, currpid, v) # {}
  /\ LET got == GetFrame(WithPageTable(Memory, currpid, v))
     IN  IF got.M.strayed THEN Install(got.M)
         ELSE Install(Load(got.M, currpid, v, got.f))
  /\ UNCHANGED disputed

\* What was written last to page k of a store is disputed once the running process
\* and another have dirty copies of it, or k is private and another maps it.
Dispute(k) ==
  \E q \in alive \ {currpid} :
    \/ bsm_tab[k[1]].private /\ bsm_tab[k[1]].vpno[q] # NONE
    \/ \E f \in PagesOf(Memory, q) : IsDirty(Memory, f) /\ Home(Memory, f) = k

\* The running process writes to a page that is present.
Write(v) ==
  /\ Running
  /\ pt[currpid][v] # NONE
  /\ LET at == Lookup(Memory, currpid, v)
         now == disputed \cup {k \in {at} \cap StorePages : Dispute(k)}
         overtaken == Overtake(Memory, {at})
     IN  /\ Install([overtaken EXCEPT !.content[pt[currpid][v]] = IF at \in now THEN OLD ELSE at,
                                      !.dirty[currpid] = @ \cup {v}])
         /\ disputed' = now

\* The running process waits, or is preempted.
Switch(q) ==
  /\ ~strayed
  /\ q \in (alive \cup {NULLPROC}) \ {currpid}
  /\ Install(SwitchTo(Memory, q))
  /\ UNCHANGED disputed

Next ==
  \/ \E p \in Procs : Create(p) \/ Kill(p)
  \/ \E p \in Procs \cup {SYSERR}, h \in HeapSizes : VCreate(p, h)
  \/ \E s \in Stores : GetBs(s) \/ ReleaseBs(s)
  \/ \E v \in VPages, s \in Stores, n \in 1..NPBS : Xmmap(v, s, n)
  \/ \E v \in VPages : Xmunmap(v)
  \/ \E new \in {"SC", "FIFO"} : Srpolicy(new)
  \/ \E v \in VPages : PageFault(v)
  \/ \E v \in Written : Write(v)
  \/ \E q \in Procs \cup {NULLPROC} : Switch(q)

Spec == Init /\ [][Next]_vars

-------------------------------------------------------------------------------
(***************************************************************************)
(* Properties.                                                             *)
(***************************************************************************)

\* Page tables and frames tell the same story: a page is present exactly where a
\* frame says it is, so no frame holds two pages, no page has two frames, and
\* nothing of a dead process can be written to; every live process has one
\* directory, and its page tables are frames of its own.
Pages == {f \in Frames : frame_tab[f].type = "PAGE"}

FramesMatchTables ==
  /\ \A f \in Pages : pt[frame_tab[f].pid][frame_tab[f].vpno] = f
  /\ \A p \in Procs, v \in VPages : pt[p][v] # NONE =>
       /\ p \in alive /\ pd[p][v \div NPTE] # NONE
       /\ pt[p][v] \in Pages
       /\ frame_tab[pt[p][v]].pid = p /\ frame_tab[pt[p][v]].vpno = v
  /\ \A p \in Procs : Cardinality({f \in Frames : frame_tab[f] = Owned("DIR", p)})
                          = IF p \in alive THEN 1 ELSE 0
  /\ \A p \in alive, t \in Tables :
       pd[p][t] # NONE => /\ frame_tab[pd[p][t]] = Owned("TBL", p)
                          /\ \A u \in Tables \ {t} : pd[p][u] # pd[p][t]

\* Both replacement policies know exactly the frames that hold pages, whichever is
\* in force when they come and go.
QueuesKnowPages ==
  /\ ToSet(fifo) = Pages
  /\ Len(fifo) = Cardinality(ToSet(fifo))
  /\ sc_queue_pages = Len(fifo)
  /\ sc_index = NONE <=> fifo = <<>>

\* A store that somebody maps is not given up under him: it keeps its length, and
\* a private one stays taken, so that get_bsm() does not hand it out again: also when
\* vcreate() has made it private to nobody, or while get_bs() was cut (get_bs.c:8).
StoresKept ==
  \A s \in Stores :
    LET users == {p \in Procs : bsm_tab[s].vpno[p] # NONE}
    IN  /\ users \subseteq alive
        /\ Cardinality(users) <= bsm_tab[s].total
        /\ bsm_tab[s].npages = NONE <=> bsm_tab[s].total = 0
        /\ bsm_tab[s].private => bsm_tab[s].mapped

\* What p would find at v, page at of a store, if it ran next, or runs now.
Finds(M, p, v, at) ==
  LET own == pt[p][v]
      pending == {f \in PagesOf(M, currpid) : IsDirty(M, f) /\ Home(M, f) = at}
  IN  IF own # NONE /\ (p = currpid \/ bsm_tab[at[1]].private) THEN content[own]
      ELSE IF p # currpid /\ pending # {} /\ ~bsm_tab[at[1]].private
           THEN content[CHOOSE f \in pending : TRUE]
      ELSE store[at]

\* Every process finds in its pages what was last written to them, by itself or by
\* one it shares the store with, through replacement, switches, unmapping and
\* death.  Not so a page that two had dirty copies of at a time, of which the older
\* may be written over the newer (pt_dirty is never cleared, resched.c:76); nor one
\* that was dirty where its process maps its store at another place (bsm_map());
\* nor those of a store that vcreate() makes private while others map it.
ReadsLastWrite ==
  LET M == Memory
  IN  \A p \in alive, v \in VPages :
        LET at == Lookup(M, p, v)
        IN  at # <<>> /\ at \notin disputed => Finds(M, p, v, at) = at
===============================================================================
