-------------------------------- MODULE Terminal --------------------------------
(***************************************************************************)
(* The console: lines typed at it (csc501-lab1/tty/ttyiin.c, ttyread.c,    *)
(* ttycntl.c) and characters written to it through the ring buffer of the  *)
(* serial line (csc501-lab1/com/comoutput.c, comintr.c).  Of the modes,    *)
(* only what the code ever sets is modelled: lines are edited and echoed,  *)
(* and output is buffered.  A character of input is what ttyiin() does     *)
(* with it ("/", a kind of its own, and the characters that print the line *)
(* again and send a message are left out); the ring it is kept in is a     *)
(* sequence.                                                               *)
(*                                                                         *)
(* The echo is written by the interrupted process with computc(), and is   *)
(* here one of the calls to it.  It may wait there for room in the ring,   *)
(* and what ttyiin() does after the echo waits with it.  The rest of a     *)
(* delword() that waits is then an erase for each character still to go.   *)
(***************************************************************************)
EXTENDS Tasks

CONSTANTS
  IBLEN,
  MaxEchoes    \* bound: line ends being echoed at a time

ASSUME IBLENAssumption == IBLEN \in Nat \ {0} /\ MaxEchoes \in Nat

VARIABLES
  line,        \* tty_in[], tty_istart, tty_icount
  eof,         \* TIF_EOF
  rest,        \* history: a read left something of what is in line
  echoing,     \* how many line ends are being echoed, and will be announced
  com,         \* com_buf[], com_start, com_count
  thre,        \* the line's transmitter is empty
  ier,         \* and is to interrupt when it is
  written,     \* history: what was written and not yet sent
  overtaken    \* history: somebody wrote while '\n' waited for its second place

input == <<line, eof, rest, echoing>>
output == <<com, thre, ier, written, overtaken>>

TerminalInit ==
  /\ line = <<>> /\ eof = FALSE /\ rest = FALSE /\ echoing = 0
  /\ com = [start |-> 0, count |-> 0, buf |-> [i \in 0..COMBUFSZ - 1 |-> <<>>]]
  /\ thre = TRUE /\ ier = FALSE /\ written = <<>> /\ overtaken = FALSE

-------------------------------------------------------------------------------
(* Input *)

iputchar(ch) == IF Len(line) < IBLEN THEN Append(line, ch) ELSE line

LastTyped == line[Len(line)]

delchar == IF line = <<>> \/ LastTyped = "\n" THEN line ELSE SubSeq(line, 1, Len(line) - 1)

KIND(ch) == IF ch = " " THEN 0 ELSE 1

\* Back to a character of another kind, or to the last line.
delword ==
  IF line = <<>> \/ LastTyped = "\n" THEN line
  ELSE LET Ends == {i \in 1..Len(line) : line[i] = "\n" \/ KIND(line[i]) # KIND(LastTyped)} IN
       SubSeq(line, 1, IF Ends = {} THEN 0 ELSE CHOOSE i \in Ends : \A j \in Ends : j <= i)

\* Typed at the terminal.
Typed(ch) ==
  line' = CASE ch = "erase" -> delchar
            [] ch = "werase" -> delword
            [] OTHER -> iputchar(ch)

LineEnds == {"\n", "eof"}

\* ttyiin() up to the echo (or the bell, when there is no room for the character).
ttyiin(ch) ==
  /\ Typed(ch)
  /\ eof' = (eof \/ ch = "eof")
  /\ rest' = (rest /\ line' # <<>>)
  /\ \/ ch \notin LineEnds /\ UNCHANGED echoing
     \/ ch \in LineEnds /\ echoing < MaxEchoes /\ echoing' = echoing + 1
  /\ UNCHANGED tasks

\* Faulty: a line is announced to those that wait already.
AnnouncedToWaiting == IF semaph[ISEMA].semcnt < 0 THEN signal(ISEMA) ELSE semaph

\* A line is announced once, however many there are.
Announced == IF semaph[ISEMA].semcnt <= 0 THEN signal(ISEMA) ELSE semaph

\* ttyiin() behind the echo of a line end.
ttyiinAnnounces ==
  /\ echoing > 0
  /\ echoing' = echoing - 1
  /\ semaph' = Announced
  /\ UNCHANGED <<doing, line, eof, rest>>

\* Once the end of the file was typed and all is read, that is what is read next: the
\* test and the reset of the flag are two steps.
ttyread(p, len) ==
  /\ Calls(p)
  /\ Goes(p, IF eof /\ line = <<>> THEN [call |-> "ttyreadEnd"]
             ELSE [call |-> "ttyread", len |-> len])
  /\ UNCHANGED <<semaph, input>>

ttyreadEnds(p) ==
  /\ At(p, "ttyreadEnd")
  /\ eof' = FALSE
  /\ Returns(p)
  /\ UNCHANGED <<semaph, line, rest, echoing>>

\* Takes what there is, be it nothing.
Takes(p, len) ==
  LET count == IF Len(line) < len THEN Len(line) ELSE len IN
  /\ line' = SubSeq(line, count + 1, Len(line))
  /\ rest' = (line' # <<>>)
  /\ Returns(p)
  /\ UNCHANGED <<eof, echoing>>

ttyreadWaits(p) ==
  /\ At(p, "ttyread")
  /\ semaph' = wait(p, ISEMA)
  /\ IF semaph[ISEMA].semcnt > 0 THEN Takes(p, doing[p].len)
     ELSE Goes(p, [doing[p] EXCEPT !.call = "ttyreadTakes"]) /\ UNCHANGED input

ttyreadTakes(p) ==
  /\ At(p, "ttyreadTakes")
  /\ Takes(p, doing[p].len)
  /\ UNCHANGED semaph

\* control(TTC_NEXTC) looks at the next character.
nextc(p) ==
  /\ Calls(p)
  /\ IF semaph[ISEMA].semcnt > 0 THEN UNCHANGED <<doing, semaph>>
     ELSE semaph' = wait(p, ISEMA) /\ Goes(p, [call |-> "nextc"])
  /\ UNCHANGED input

nextcEnds(p) ==
  /\ At(p, "nextc")
  /\ semaph' = signal(ISEMA)
  /\ Returns(p)
  /\ UNCHANGED input

InputNext ==
  \/ \E ch \in {"x", " ", "\n", "eof", "erase", "werase"} : ttyiin(ch)
  \/ ttyiinAnnounces
  \/ \E p \in Procs :
       \/ \E len \in {1, IBLEN} : ttyread(p, len)
       \/ ttyreadEnds(p) \/ ttyreadWaits(p) \/ ttyreadTakes(p)
       \/ nextc(p) \/ nextcEnds(p)

-------------------------------------------------------------------------------
(* Output *)

Ring(i) == i % COMBUFSZ

\* comwstrt(): the first character of the buffer goes to the transmitter.
Sent(C) == [C EXCEPT !.start = Ring(@ + 1), !.count = @ - 1]

\* Puts the characters into the buffer at pos, and starts the transmitter.
Puts(p, chars, pos, table) ==
  LET At1(i) == CHOOSE k \in DOMAIN chars : Ring(pos + k - 1) = i
      Mine == {Ring(pos + k - 1) : k \in DOMAIN chars}
      C == [com EXCEPT !.count = @ + Len(chars),
                       !.buf = [i \in DOMAIN @ |-> IF i \in Mine THEN <<p, chars[At1(i)]>>
                                                   ELSE @[i]]]
      all == written \o [k \in DOMAIN chars |-> <<p, chars[k]>>]
  IN
  /\ IF thre
     THEN /\ com' = Sent(C)
          /\ semaph' = Signalled(table, OSEMA)
          /\ ier' = (com'.count # 0)
          /\ written' = Tail(all)
     ELSE /\ com' = C
          /\ semaph' = table
          /\ ier' = TRUE
          /\ written' = all
  /\ thre' = FALSE
  /\ overtaken' = (overtaken \/ Ring(pos) # Ring(com.start + com.count))
  /\ Returns(p)

\* Faulty: the second place is taken without waiting for it.
SecondPlaceTaken(p, ch, table) ==
  Puts(p, IF ch = "\n" THEN <<"\r", "\n">> ELSE <<ch>>, com.start + com.count, table)

\* A line end takes two places.  Where it goes is settled before the second is had.
SecondPlace(p, ch, table) ==
  LET pos == com.start + com.count IN
  \/ ch # "\n" /\ Puts(p, <<ch>>, pos, table)
  \/ ch = "\n" /\ table[OSEMA].semcnt > 0
       /\ Puts(p, <<"\r", "\n">>, pos, Waited(table, p, OSEMA))
  \/ ch = "\n" /\ table[OSEMA].semcnt <= 0
       /\ semaph' = Waited(table, p, OSEMA)
       /\ Goes(p, [call |-> "computcLine", pos |-> pos])
       /\ UNCHANGED output

\* computc() disables interrupts, so it is one step unless it waits.
computc(p, ch) ==
  /\ Calls(p)
  /\ IF semaph[OSEMA].semcnt > 0 THEN SecondPlace(p, ch, wait(p, OSEMA))
     ELSE /\ semaph' = wait(p, OSEMA)
          /\ Goes(p, [call |-> "computc", ch |-> ch])
          /\ UNCHANGED output

computcGoesOn(p) == At(p, "computc") /\ SecondPlace(p, doing[p].ch, semaph)

computcLineEnds(p) ==
  At(p, "computcLine") /\ Puts(p, <<"\r", "\n">>, doing[p].pos, semaph)

\* The transmitter is empty again, and interrupts if it is to.
Transmitted == ~thre /\ thre' = TRUE /\ UNCHANGED <<tasks, com, ier, written, overtaken>>

comintr ==
  /\ thre /\ ier /\ com.count > 0
  /\ com' = Sent(com)
  /\ semaph' = signal(OSEMA)
  /\ thre' = FALSE
  /\ ier' = (com'.count # 0)
  /\ written' = Tail(written)
  /\ UNCHANGED <<doing, overtaken>>

OutputNext ==
  \/ Transmitted
  \/ comintr
  \/ \E p \in Procs :
       \/ \E ch \in {"x", "\n"} : computc(p, ch)
       \/ computcGoesOn(p) \/ computcLineEnds(p)

-------------------------------------------------------------------------------
(* Safety *)

\* A line that is typed is not slept over: while one is in the buffer, and no reader
\* took only a part of it, the semaphore lets the next reader in, or somebody was let
\* in and has not yet gone on.  A reader may sleep over it only while a line end is
\* being echoed, which may take until the ring has room (ttyiin.c:79, before :54);
\* its announcement makes good for that, also when readers and other lines came between.
LineAnnounced ==
  (\E i \in DOMAIN line : line[i] \in LineEnds) /\ ~rest /\ echoing = 0 =>
    \/ semaph[ISEMA].semcnt > 0
    \/ \E p \in Procs : At(p, "ttyreadTakes") \/ At(p, "nextc")

\* Every place of the buffer is free, or filled, or was promised to a process, or is
\* waited for; and what is sent is what was written, in that order, as long as nobody
\* is overtaken who waits for the second place of a line end.
OutputKept ==
  /\ semaph[OSEMA].semcnt =
       COMBUFSZ - com.count - Cardinality({p \in Procs : doing[p].call = "computc"})
                            - 2 * Cardinality({p \in Procs : doing[p].call = "computcLine"})
  /\ com.count = Len(written)
  /\ ~overtaken => \A i \in DOMAIN written : com.buf[Ring(com.start + i - 1)] = written[i]
===============================================================================
