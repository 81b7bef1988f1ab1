------------------------------ MODULE Console -------------------------------
(***************************************************************************)
(* The console's input (kernel/console.c): a ring that the keyboard        *)
(* interrupt fills and edits, and that readers empty a line at a time, or  *)
(* as much as there is in raw mode.                                        *)
(*                                                                         *)
(* The interrupt handler and the readers hold cons.lock, and a reader      *)
(* gives it up only to sleep, so each runs in one step from taking the     *)
(* lock to sleeping or releasing it.                                       *)
(***************************************************************************)
EXTENDS Integers, Sequences, FiniteSets, FiniteSetsExt

CONSTANTS
    Proc,        \* processes
    Key,         \* characters that are typed
    RawKey,      \* and those that are typed in raw mode
    NEWLINE, EOF, ERASE, KILL,
    INPUT_BUF,   \* INPUT_BUF: characters in the ring
    UintMod,     \* the indices wrap at 2^32, a multiple of INPUT_BUF
    Size,        \* sizes of read() calls
    Killable     \* processes that may be killed

ASSUME ConsoleAssumption ==
    /\ RawKey \subseteq Key
    /\ INPUT_BUF \in Nat \ {0}
    /\ UintMod \in Nat /\ UintMod > INPUT_BUF /\ UintMod % INPUT_BUF = 0
    /\ Size \subseteq Nat \ {0}
    /\ Killable \subseteq Proc

VARIABLES
    buf, r, w, e,   \* input: ring, read, write and edit index
    rawmode,        \* ICANON is off
    vmin,           \* contermios.c_cc[VMIN]; matters in raw mode only
    pc,             \* where each process is
    left,           \* n: bytes its read() still wants
    target,         \* and how many it wanted
    killed          \* p->killed

input == <<buf, r, w, e>>
mode == <<rawmode, vmin>>
consoleVars == <<buf, r, w, e, rawmode, vmin, pc, left, target, killed>>

ConsoleInit ==
    /\ buf = [i \in 0..INPUT_BUF - 1 |-> NEWLINE]
    /\ r = 0 /\ w = 0 /\ e = 0
    /\ rawmode = FALSE /\ vmin = 1
    /\ pc = [p \in Proc |-> "user"]
    /\ left = [p \in Proc |-> 0]
    /\ target = [p \in Proc |-> 0]
    /\ killed = [p \in Proc |-> FALSE]

\* uint arithmetic
Plus(i, n) == (i + n) % UintMod
Minus(i, j) == (i - j) % UintMod
At(i) == buf[i % INPUT_BUF]

\* wakeup(&input.r)
Awake_One == LET s == {p \in Proc : pc[p] = "console sleep"}    \* mutant: one sleeper
             IN  IF s = {} THEN pc ELSE [pc EXCEPT ![CHOOSE p \in s : TRUE] = "console"]

Awake == [p \in Proc |-> IF pc[p] = "console sleep" THEN "console" ELSE pc[p]]

-----------------------------------------------------------------------------
(* consoleintr() with one character; one for which there is no room is lost *)

Store(k) ==
    /\ Minus(e, r) < INPUT_BUF
    /\ buf' = [buf EXCEPT ![e % INPUT_BUF] = k]
    /\ e' = Plus(e, 1)
    /\ UNCHANGED r

TypeRaw(k) ==
    /\ rawmode /\ k \in RawKey
    /\ Store(k)
    /\ w' = Plus(e, 1) /\ pc' = Awake

\* With the character, the line is over: its last, or there is no more room.
EndsLine_NoLimit(k) == k \in {NEWLINE, EOF}     \* mutant: a full ring is not entered

EndsLine(k) == k \in {NEWLINE, EOF} \/ Minus(Plus(e, 1), r) = INPUT_BUF

TypeCooked(k) ==
    /\ ~rawmode /\ k \notin {ERASE, KILL}
    /\ Store(k)
    /\ IF EndsLine(k) THEN w' = Plus(e, 1) /\ pc' = Awake
       ELSE UNCHANGED <<w, pc>>

Erase(k) ==
    /\ ~rawmode /\ k = ERASE /\ e # w
    /\ e' = Minus(e, 1)
    /\ UNCHANGED <<buf, r, w, pc>>

\* Back to the start of what is not entered, or to a newline in it.
KillLine(k) ==
    /\ ~rawmode /\ k = KILL /\ e # w
    /\ e' = Plus(w, Max({0} \cup {n \in 1..Minus(e, w) : At(w + n - 1) = NEWLINE}))
    /\ UNCHANGED <<buf, r, w, pc>>

Keystroke == \E k \in Key :
    /\ TypeRaw(k) \/ TypeCooked(k) \/ Erase(k) \/ KillLine(k)
    /\ UNCHANGED <<mode, left, target, killed>>

-----------------------------------------------------------------------------
(* consoleread(), tcsetattr(), kill() *)

ReadConsole(p, n) ==
    /\ pc[p] = "user" /\ ~killed[p]
    /\ pc' = [pc EXCEPT ![p] = "console"]
    /\ left' = [left EXCEPT ![p] = n]
    /\ target' = [target EXCEPT ![p] = n]
    /\ UNCHANGED <<input, mode, killed>>

\* It has taken some already.
Some(p) == left[p] < target[p]

Available == Minus(w, r)
InReach(p) == 1..Min({left[p], Available})
LineEnds(p) == {i \in InReach(p) : At(r + i - 1) \in {NEWLINE, EOF}}

\* How many characters leave the ring before the reader stops.  A ^D that
\* comes after others stays, to give the next read() its 0.
Taken(p) ==
    IF rawmode \/ LineEnds(p) = {} THEN Cardinality(InReach(p))
    ELSE LET i == Min(LineEnds(p))
         IN  IF At(r + i - 1) = EOF /\ (i > 1 \/ Some(p)) THEN i - 1 ELSE i

\* The read() is over with these: a line, all it wanted, all there was.
Satisfied(p) ==
    \/ Taken(p) = left[p]
    \/ rawmode /\ Taken(p) > 0
    \/ ~rawmode /\ LineEnds(p) # {}

\* It finds the ring empty, and does not sleep.
GivesUp(p) == killed[p] \/ (rawmode /\ vmin = 0)

\* kill() takes no lock but ptable.lock: it may come between the test of
\* p->killed and sleep(), and then wakes nobody.
KillBeforeSleep(p) ==
    \/ UNCHANGED killed
    \/ p \in Killable /\ killed' = [killed EXCEPT ![p] = TRUE]

\* A killed reader that is not satisfied returns -1, and fileread() calls
\* consoleread() once more, from the start and inside a transaction.
Retries(p) == pc[p] = "console" /\ killed[p] /\ ~Satisfied(p)

ConsoleStep(p) ==
    /\ pc[p] \in {"console", "console again"}
    /\ r' = Plus(r, Taken(p))
    /\ \/ /\ Retries(p)
          /\ pc' = [pc EXCEPT ![p] = "console again"]
          /\ left' = [left EXCEPT ![p] = target[p]]
          /\ UNCHANGED <<target, killed>>
       \/ /\ ~Retries(p) /\ (Satisfied(p) \/ GivesUp(p))
          /\ pc' = [pc EXCEPT ![p] = "user"]
          /\ left' = [left EXCEPT ![p] = 0] /\ target' = [target EXCEPT ![p] = 0]
          /\ UNCHANGED killed
       \/ /\ ~Satisfied(p) /\ ~GivesUp(p)
          /\ pc' = [pc EXCEPT ![p] = "console sleep"]
          /\ left' = [left EXCEPT ![p] = @ - Taken(p)]
          /\ KillBeforeSleep(p) /\ UNCHANGED target
    /\ UNCHANGED <<buf, w, e, mode>>

\* consolesettermios(): nobody is woken, nothing is flushed.
SetMode ==
    /\ rawmode' \in BOOLEAN /\ vmin' \in (IF rawmode' THEN 0..1 ELSE {1}) /\ mode' # mode
    /\ UNCHANGED <<input, pc, left, target, killed>>

Kill(p) ==
    /\ p \in Killable /\ ~killed[p]
    /\ killed' = [killed EXCEPT ![p] = TRUE]
    /\ pc' = [pc EXCEPT ![p] = CASE @ = "console sleep" -> "console"
                                 [] @ = "mouse sleep" -> "mouse"
                                 [] @ = "ticks sleep" -> "scan"
                                 [] OTHER -> @]
    /\ UNCHANGED <<input, mode, left, target>>

\* consolereadable()
ConsoleReadable_Typed == r # e             \* mutant: the line may still be edited

ConsoleReadable == r # w
=============================================================================
