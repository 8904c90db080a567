--------------------------------- MODULE Memory ---------------------------------
(***************************************************************************)
(* The free memory list (csc501-lab1/sys/getmem.c, freemem.c, getstk.c and *)
(* the macros of csc501-lab1/h/mem.h).  Addresses count bytes.  Each       *)
(* operation disables interrupts and is one step.  The list is kept in the *)
(* order of addresses, so it is modelled as the set of its blocks.         *)
(*                                                                         *)
(* Programs give back what they were given, once, and write only to what   *)
(* they hold.  Only a stack may be given back twice: a process may be      *)
(* killed twice.  The first eight bytes of a free block are its header.    *)
(* When a header comes to lie in memory in use, or memory in use is put on *)
(* the free list, strayed is set and the model stops.                      *)
(***************************************************************************)
EXTENDS Integers, FiniteSets

CONSTANTS
  Regions,     \* the free memory that sysinit() finds
  Sizes,       \* what getmem() is asked for
  StackSizes   \* what getstk() is asked for

Blocks == [at : Nat, len : Nat \ {0}]
End(b) == b.at + b.len
Apart(a, b) == End(a) <= b.at \/ End(b) <= a.at
\* With something between them: freemem() leaves no two free blocks that touch.
Separate(a, b) == End(a) < b.at \/ End(b) < a.at

ASSUME RegionsAssumption ==
  /\ Regions \subseteq {r \in Blocks : r.at % 8 = 0 /\ r.len % 4 = 0}
  /\ \A a, b \in Regions : a # b => Separate(a, b)
ASSUME SizesAssumption == Sizes \cup StackSizes \subseteq Nat \ {0}

VARIABLES
  memlist,     \* the free blocks
  held,        \* memory given away, and what for
  strayed,     \* memory is in use twice
  uneven,      \* history: a region or a stack not of a multiple of 8 bytes
  twice        \* history: a stack was put on the list when it was no longer its process's

memory == <<memlist, held, strayed, uneven, twice>>

roundmb(n) == ((7 + n) \div 8) * 8
roundew(n) == ((3 + n) \div 4) * 4

Block(at, len) == [at |-> at, len |-> len]
Area(at, len, use) == [at |-> at, len |-> len, use |-> use]

MemoryInit ==
  /\ memlist = Regions
  /\ held = {}
  /\ strayed = FALSE
  /\ uneven = (\E r \in Regions : r.len % 8 # 0)
  /\ twice = FALSE

\* What stays free of a block.
Rest(at, len) == IF len = 0 THEN {} ELSE {Block(at, len)}

\* The header of the rest of a block reaches into memory in use.
Spills(rest, areas) == \E b \in rest, h \in areas : ~Apart(Block(b.at, 8), h)

-------------------------------------------------------------------------------
\* getmem() takes the front of the first block that is large enough.
FirstFit(b, n) == b.len >= n /\ \A c \in memlist : c.len >= n => b.at <= c.at

Getmem(n, use) ==
  \E b \in memlist :
    LET rest == Rest(b.at + roundmb(n), b.len - roundmb(n)) IN
    /\ FirstFit(b, roundmb(n))
    /\ held' = held \cup {Area(b.at, roundmb(n), use)}
    /\ memlist' = (memlist \ {b}) \cup rest
    /\ strayed' = Spills(rest, held')
    /\ UNCHANGED <<uneven, twice>>

GetmemFails(n) == \A b \in memlist : b.len < roundmb(n)

\* getstk() takes the top of the last block that is large enough.
LastFit(b, n) == b.len >= n /\ \A c \in memlist : c.len >= n => b.at >= c.at

Getstk(n, use) ==
  \E b \in memlist :
    LET rest == Rest(b.at, b.len - roundew(n)) IN
    /\ LastFit(b, roundew(n))
    /\ held' = held \cup {Area(End(b) - roundew(n), roundew(n), use)}
    /\ memlist' = (memlist \ {b}) \cup rest
    /\ strayed' = Spills(rest, held')
    /\ uneven' = (uneven \/ roundew(n) % 8 # 0)
    /\ UNCHANGED twice

-------------------------------------------------------------------------------
\* freemem() refuses a block that begins below the memory it manages, or overlaps a
\* free one.
Refused(block) ==
  \/ \A r \in Regions : block.at < r.at
  \/ \E b \in memlist : ~Apart(b, block)

Within(b, r) == r.at <= b.at /\ End(b) <= End(r)

\* The list with the block in it, merged with the blocks that touch it.
Start(block) == IF \E b \in memlist : End(b) = block.at
                THEN (CHOOSE b \in memlist : End(b) = block.at).at
                ELSE block.at
Stop(block) == IF \E b \in memlist : b.at = End(block)
               THEN End(CHOOSE b \in memlist : b.at = End(block))
               ELSE End(block)
\* Faulty: the block behind is not merged.
MergedBelow(block) ==
  {b \in memlist : End(b) # block.at} \cup {Block(Start(block), End(block) - Start(block))}
Merged(block) ==
  {b \in memlist : End(b) # block.at /\ b.at # End(block)}
    \cup {Block(Start(block), Stop(block) - Start(block))}

\* The block is put on the list.
PutBack(block) ==
  /\ ~Refused(block)
  /\ memlist' = Merged(block)
  /\ strayed' = \/ \E g \in held' : ~Apart(g, block)
                \/ \A r \in Regions : ~Within(block, r)
  /\ UNCHANGED uneven

\* With it, h is given back.
GiveBack(h, block) == held' = held \ {h} /\ PutBack(block) /\ UNCHANGED twice

\* Nobody tries again: what freemem() refuses is lost.
Lose(h) ==
  /\ held' = (held \ {h}) \cup {[h EXCEPT !.use = "lost"]}
  /\ UNCHANGED <<memlist, strayed, uneven, twice>>

Freemem(h) ==
  LET block == Block(h.at, roundmb(h.len)) IN
  \/ GiveBack(h, block)
  \/ Refused(block) /\ Lose(h)

\* Faulty: the address of the stack's last word is taken for its end.
FreestkBelowTop(h) ==
  LET block == Block(End(h) - 4 - roundmb(h.len), roundmb(h.len)) IN
  \/ GiveBack(h, block)
  \/ Refused(block) /\ Lose(h)

\* freestk(): the size is rounded up to 8, though getstk() rounds it up to 4.
StackBlock(h) == Block(End(h) - roundmb(h.len), roundmb(h.len))

Freestk(h) ==
  \/ GiveBack(h, StackBlock(h))
  \/ Refused(StackBlock(h)) /\ Lose(h)

\* freestk() of a stack that was given back.  While its memory is free, freemem()
\* refuses it; when somebody else has it, it is put on the list all the same.
FreestkAgain(h) == twice' = TRUE /\ held' = held /\ PutBack(StackBlock(h))

-------------------------------------------------------------------------------
\* create() takes a stack first: when no process is free, or the priority is below 1,
\* it returns without it, and the stack is leaked.
\* A stack that is given back again may have been anywhere.
MemoryNext ==
  /\ ~strayed
  /\ \/ \E n \in Sizes : Getmem(n, "heap")
     \/ \E n \in StackSizes, use \in {"stack", "leaked"} : Getstk(n, use)
     \/ \E h \in held : h.use = "heap" /\ Freemem(h)
     \/ \E h \in held : h.use = "stack" /\ Freestk(h)
     \/ \E r \in Regions, n \in StackSizes : \E at \in r.at..End(r) :
          FreestkAgain(Area(at, roundew(n), "stack"))

MemorySpec == MemoryInit /\ [][MemoryNext]_memory

-------------------------------------------------------------------------------
(* Safety *)

\* Free blocks neither overlap nor touch, and no byte is free and in use, or in
\* use twice (freemem() merging with the blocks on both sides, getmem() and
\* getstk() cutting blocks).
MemoryApart ==
  /\ \A a, b \in memlist : a # b => Separate(a, b)
  /\ ~strayed => /\ \A b \in memlist, h \in held : Apart(b, h)
                 /\ \A g, h \in held : g # h => Apart(g, h)

\* freestk() frees the very stack that getstk() gave, and no header of a free block
\* reaches into memory in use, as long as the sizes of the regions and of the stacks
\* are multiples of 8 and no process is killed twice: memory strays, or a stack is
\* lost, only after an uneven one, or when the stack of a process killed before
\* (kill.c:40) is freed under whoever has the memory by then.
StraysExplained == strayed \/ (\E h \in held : h.use = "lost") => uneven \/ twice
===============================================================================
