--------------------------- MODULE ReadPassphrase --------------------------
(***************************************************************************)
(* kdf of signify.c and readpassphrase of libbsd, on a terminal: the echo  *)
(* is turned off, signals are caught, a line is read, and then everything  *)
(* is put back and the signals that came are sent again; after one that    *)
(* stopped the job all of it begins anew.  Around them the terminal, whose *)
(* modes all programs share, a user who types and sends signals, and a     *)
(* shell with job control that leaves the modes as it finds them.          *)
(*                                                                         *)
(* Where standard input is no terminal, or no terminal can be opened, the  *)
(* line comes from standard input, here a pipe, and no modes are changed.  *)
(*                                                                         *)
(* INT stands for the signals that end a program, TSTP for a stop.  TTIN   *)
(* and TTOU come from the terminal, to a background job that reads from it *)
(* or changes its modes.                                                   *)
(***************************************************************************)
EXTENDS Naturals, Sequences, FiniteSets, SequencesExt

CONSTANTS
  Chars,       \* what can be typed in a line
  BufSize,     \* sizeof(pass)
  LineMax,     \* bound on the length of a line
  PipeMax,     \* bound on what is sent through the pipe
  MaxSignals   \* bound on the signals a user sends

ASSUME ReadPassphraseAssumption ==
  /\ BufSize \in Nat \ {0}
  /\ {LineMax, PipeMax, MaxSignals} \subseteq Nat
  /\ {"newline", "eof", "none"} \cap Chars = {}  \* a line has no end in it

VARIABLES
  echo,      \* the terminal's ECHO mode
  input,     \* where the line comes from: "tty" or "stdin"
  queue,     \* the characters typed, or sent, and not yet read
  fg,        \* is this job in the foreground?
  run,       \* "running", "stopped" or "killed"
  pc,        \* where the program is
  confirm,   \* kdf: is the passphrase asked for twice? Not with RPP_STDIN, but
             \* where no terminal could be opened the line is from a pipe too
  oterm,     \* ECHO in the saved modes
  caught,    \* the signals whose handler is installed
  signo,     \* the signals that came
  nr,        \* what the last read returned: "line", "eof" or "error"
  p,         \* the buffer, up to p
  restart,   \* need_restart
  i,         \* the signal that is sent again next, an index of Order
  pass,      \* the passphrase of the first call, or NoPass
  signals,   \* signals that the user sent so far
  line,      \* ghost: what was typed since the terminal was last flushed,
             \* or all that was sent
  lost,      \* ghost: some of that was read before a restart
  exposed    \* ghost: a signal came after the echo was turned off
             \* and before its handler was installed

vars == <<echo, queue, fg, run, pc, confirm, oterm, caught, signo, nr, p, restart, i, pass, signals, line, exposed, input, lost>>
terminal == <<echo, queue, fg, line>>
program == <<confirm, input, oterm, nr, p, pass>>

Order == <<"INT", "TSTP", "TTIN", "TTOU">>
Stops == {"TSTP", "TTIN", "TTOU"}
End == "newline"
Eof == "eof"
NoPass == <<"none">>
Ended == {"ok", "fail"}

Init ==
  /\ echo = TRUE /\ queue = << >> /\ fg \in BOOLEAN /\ run = "running"
  /\ pc = "open" /\ confirm \in BOOLEAN /\ input \in {"tty", "stdin"} /\ oterm = TRUE
  /\ caught = {} /\ signo = {} /\ nr = "line" /\ p = << >> /\ restart = FALSE /\ i = 1 /\ pass = NoPass
  /\ signals = 0 /\ line = << >> /\ exposed = FALSE /\ lost = FALSE

(* A signal whose handler is not installed has its default effect; the     *)
(* shell takes the terminal back.                                          *)
Default(s) ==
  /\ run' = IF s \in Stops THEN "stopped" ELSE "killed"
  /\ fg' = FALSE

Running == run = "running"

-----------------------------------------------------------------------------
(* readpassphrase *)

(* Mutant of Open: the signals are not forgotten at a restart.             *)
OpenRemembers ==
  /\ Running /\ pc = "open"
  /\ restart' = FALSE /\ i' = 1 /\ oterm' = (echo \/ input = "stdin")
  /\ pc' = IF input = "tty" THEN "noecho" ELSE "catch"
  /\ UNCHANGED <<terminal, run, confirm, input, caught, signo, nr, p, pass, signals, exposed, lost>>

(* open and tcgetattr; restart begins here.                                *)
Open ==
  /\ Running /\ pc = "open"
  /\ signo' = {} /\ restart' = FALSE /\ i' = 1 /\ oterm' = (echo \/ input = "stdin")
  /\ pc' = IF input = "tty" THEN "noecho" ELSE "catch"
  /\ UNCHANGED <<terminal, run, confirm, input, caught, nr, p, pass, signals, exposed, lost>>

Flush == queue' = << >> /\ line' = << >>

(* tcsetattr flushes what was typed ahead; a background job is stopped, and*)
(* tries again when it goes on.                                            *)
EchoOff ==
  /\ Running /\ pc = "noecho"
  /\ \/ /\ fg
        /\ echo' = FALSE /\ Flush
        /\ pc' = "catch"
        /\ UNCHANGED <<fg, run>>
     \/ /\ ~ fg /\ Default("TTOU")
        /\ UNCHANGED <<echo, queue, line, pc>>
  /\ UNCHANGED <<program, caught, signo, restart, i, signals, exposed, lost>>

(* The handlers are installed one by one.                                  *)
Catch ==
  /\ Running /\ pc = "catch"
  /\ caught' = caught \cup {Order[Cardinality(caught) + 1]}
  /\ pc' = IF Cardinality(caught') = Len(Order) THEN "prompt" ELSE "catch"
  /\ UNCHANGED <<terminal, run, program, signo, restart, i, signals, exposed, lost>>

(* Mutant of Prompt: what was read before a restart stays in the buffer.   *)
PromptKeeps ==
  /\ Running /\ pc = "prompt"
  /\ pc' = "read"
  /\ UNCHANGED <<terminal, run, program, caught, signo, restart, i, signals, exposed, lost>>

Prompt ==
  /\ Running /\ pc = "prompt"
  /\ p' = << >> /\ pc' = "read"
  /\ UNCHANGED <<terminal, run, confirm, input, oterm, nr, pass, caught, signo, restart, i, signals, exposed, lost>>

(* The terminal hands out a line when it is complete, a pipe whatever there*)
(* is.                                                                     *)
HasLine == {End, Eof} \cap Range(queue) # {}
Waiting == IF input = "tty" THEN ~ HasLine ELSE queue = << >>

Read ==
  /\ Running /\ pc = "read" /\ (fg \/ input = "stdin") /\ ~ Waiting
  /\ LET ch == Head(queue) IN
       CASE ch = End -> nr' = "line" /\ pc' = "restore" /\ UNCHANGED p
         [] ch = Eof -> nr' = "eof" /\ pc' = "restore" /\ UNCHANGED p
         [] OTHER ->
              /\ p' = IF Len(p) < BufSize - 1 THEN Append(p, ch) ELSE p
              /\ UNCHANGED <<nr, pc>>
  /\ queue' = IF input = "stdin" /\ Head(queue) = Eof THEN queue ELSE Tail(queue)
  /\ UNCHANGED <<echo, fg, line, run, confirm, input, oterm, pass, caught, signo, restart, i, signals, exposed, lost>>

(* A job that is in the background cannot read.                            *)
ReadInBackground ==
  /\ Running /\ pc = "read" /\ ~ fg /\ input = "tty"
  /\ signo' = signo \cup {"TTIN"}
  /\ nr' = "error" /\ pc' = "restore"
  /\ UNCHANGED <<terminal, run, confirm, input, oterm, p, pass, caught, restart, i, signals, exposed, lost>>

(* Mutant of EchoBack: the terminal is only put back after a whole line.   *)
EchoBackAfterLine ==
  /\ Running /\ pc = "restore"
  /\ IF input = "tty" /\ fg /\ nr = "line"
       THEN echo' = oterm /\ Flush
       ELSE UNCHANGED <<echo, queue, line>>
  /\ pc' = "uncatch"
  /\ UNCHANGED <<fg, run, program, caught, signo, restart, i, signals, exposed, lost>>

(* Only if the modes were changed; the TTOU that a background job draws on *)
(* itself ends the loop and is forgotten.                                  *)
EchoBack ==
  /\ Running /\ pc = "restore"
  /\ IF input = "tty" /\ fg /\ oterm
       THEN echo' = oterm /\ Flush
       ELSE UNCHANGED <<echo, queue, line>>
  /\ pc' = "uncatch"
  /\ UNCHANGED <<fg, run, program, caught, signo, restart, i, signals, exposed, lost>>

Uncatch ==
  /\ Running /\ pc = "uncatch"
  /\ caught' = caught \ {Order[Len(Order) + 1 - Cardinality(caught)]}
  /\ pc' = IF caught' = {} THEN "resend" ELSE "uncatch"
  /\ UNCHANGED <<terminal, run, program, signo, restart, i, signals, exposed, lost>>

(* Mutant of Resend: nothing is sent again before a restart.               *)
ResendUnlessRestart ==
  /\ Running /\ pc = "resend"
  /\ IF i > Len(Order) \/ signo \cap Stops # {}
       THEN /\ pc' = IF signo \cap Stops # {} THEN "open" ELSE "return"
            /\ UNCHANGED <<fg, run, restart, i>>
       ELSE /\ IF Order[i] \in signo THEN Default(Order[i]) ELSE UNCHANGED <<fg, run>>
            /\ i' = i + 1
            /\ UNCHANGED <<pc, restart>>
  /\ UNCHANGED <<echo, queue, line, program, caught, signo, signals, exposed, lost>>

Resend ==
  /\ Running /\ pc = "resend"
  /\ IF i > Len(Order)
       THEN /\ pc' = IF restart THEN "open" ELSE "return"
            /\ lost' = (lost \/ (restart /\ input = "stdin" /\ queue # line))
            /\ UNCHANGED <<fg, run, restart, i>>
       ELSE /\ IF Order[i] \in signo THEN Default(Order[i]) ELSE UNCHANGED <<fg, run>>
            /\ restart' = (restart \/ (Order[i] \in signo \cap Stops))
            /\ i' = i + 1
            /\ UNCHANGED <<pc, lost>>
  /\ UNCHANGED <<echo, queue, line, program, caught, signo, signals, exposed>>

-----------------------------------------------------------------------------
(* kdf *)

Return ==
  /\ Running /\ pc = "return"
  /\ IF pass = NoPass
       THEN IF nr = "error" \/ p = << >>
              THEN pc' = "fail" /\ UNCHANGED pass
              ELSE pass' = p /\ pc' = IF confirm THEN "open" ELSE "ok"
       ELSE /\ pc' = IF nr # "error" /\ p = pass THEN "ok" ELSE "fail"
            /\ UNCHANGED pass
  /\ UNCHANGED <<terminal, run, confirm, input, oterm, nr, p, caught, signo, restart, i, signals, exposed, lost>>

-----------------------------------------------------------------------------
(* The user and the shell *)

Alive == run # "killed" /\ pc \notin Ended

Type(ch) ==
  /\ Alive /\ input = "tty" /\ fg /\ Running /\ Len(line) < LineMax /\ ~ HasLine
  /\ queue' = Append(queue, ch) /\ line' = Append(line, ch)
  /\ UNCHANGED <<echo, fg, run, pc, program, caught, signo, restart, i, signals, exposed, lost>>

TypeEnd(ch) ==
  /\ Alive /\ input = "tty" /\ fg /\ Running /\ ~ HasLine
  /\ queue' = Append(queue, ch) /\ line' = Append(line, ch)
  /\ UNCHANGED <<echo, fg, run, pc, program, caught, signo, restart, i, signals, exposed, lost>>

(* The other end of the pipe writes, or closes it.                         *)
Send(ch) ==
  /\ Alive /\ input = "stdin" /\ Eof \notin Range(queue)
  /\ ch # Eof => Len(line) < PipeMax
  /\ queue' = Append(queue, ch) /\ line' = Append(line, ch)
  /\ UNCHANGED <<echo, fg, run, pc, program, caught, signo, restart, i, signals, exposed, lost>>

(* A signal from the keyboard flushes the line, one from kill(1) does not. *)
(* It interrupts a read that waits; otherwise it only runs the handler.    *)
Signal(s) ==
  /\ Alive /\ Running /\ signals < MaxSignals
  /\ signals' = signals + 1
  /\ \/ input = "tty" /\ Flush
     \/ UNCHANGED <<queue, line>>
  /\ IF s \in caught
       THEN /\ signo' = signo \cup {s}
            /\ \/ pc = "read" /\ Waiting /\ pc' = "restore" /\ nr' = "error"
               \/ UNCHANGED <<pc, nr>>
            /\ UNCHANGED <<fg, run, exposed>>
       ELSE /\ Default(s) /\ exposed' = (exposed \/ pc = "catch")
            /\ UNCHANGED <<pc, nr, signo>>
  /\ UNCHANGED <<echo, confirm, input, oterm, p, pass, caught, restart, i, lost>>

(* The shell continues the job, or brings it to the foreground.            *)
Continue(foreground) ==
  /\ Alive /\ (run = "stopped" \/ (foreground /\ ~ fg))
  /\ run' = "running" /\ fg' = foreground
  /\ UNCHANGED <<echo, queue, line, pc, program, caught, signo, restart, i, signals, exposed, lost>>

Step ==
  \/ Open \/ EchoOff \/ Catch \/ Prompt
  \/ Read \/ ReadInBackground
  \/ EchoBack \/ Uncatch \/ Resend \/ Return

User ==
  \/ \E ch \in Chars : Type(ch)
  \/ \E ch \in {End, Eof} : TypeEnd(ch)
  \/ \E ch \in Chars \cup {End, Eof} : Send(ch)
  \/ \E s \in {"INT", "TSTP"} : Signal(s)
  \/ \E foreground \in BOOLEAN : Continue(foreground)

Done == ~ Alive /\ UNCHANGED vars

Next == Step \/ User \/ Done

Spec == Init /\ [][Next]_vars

(* The program runs on; the user ends the line when he is asked, and at    *)
(* some time takes up a stopped job again; the pipe is closed at some time.*)
FairSpec ==
  /\ Spec
  /\ WF_vars(Step)
  /\ WF_vars(Continue(TRUE))
  /\ WF_vars(pc = "read" /\ TypeEnd(End))
  /\ WF_vars(Send(Eof))

-----------------------------------------------------------------------------
(* Whenever the user is back in the shell, because the program has ended,  *)
(* was killed or was stopped, the terminal echoes, if no signal came in    *)
(* the short time before the handlers were there. SIGKILL and SIGSTOP,     *)
(* which no program can catch, are not among the signals here.             *)
EchoIsBack == (~ Running \/ pc \in Ended) /\ ~ exposed => echo

(* Signals are caught that would otherwise cause the user to end up with   *)
(* echo turned off in the shell (the comment at readpassphrase.c:109).     *)
NeverLeftSilent == run = "killed" => echo

(* The passphrase is one line that was typed in answer to the prompt, cut  *)
(* to the size of the buffer: nothing typed ahead of it, and nothing of a  *)
(* line that was begun before an interruption. From a pipe it is the first *)
(* line, unless a stop came when some of that had been read: the rest of   *)
(* it, or what comes after, is taken for the passphrase then.              *)
Answer(l) ==
  LET end == CHOOSE k \in 1..Len(l) : l[k] \in {End, Eof} /\ \A m \in 1..(k - 1) : l[m] \in Chars
  IN SubSeq(l, 1, IF end < BufSize THEN end - 1 ELSE BufSize - 1)
PassphraseIsLine ==
  /\ input = "tty" => (pc = "restore" /\ nr # "error" /\ signo = {} => p = Answer(line))
  /\ input = "stdin" /\ ~ lost =>
       /\ pc = "return" /\ pass = NoPass /\ nr # "error" => p = Answer(line)
       /\ pass # NoPass => pass = Answer(line)

(* No passphrase is used after a signal that ends programs: it is not lost *)
(* when a signal that stops the job, and a restart, come with it.          *)
InterruptNotLost ==
  []["INT" \in signo => "INT" \in signo' /\ pc' \notin {"open", "return"}]_vars

(* The program ends if the user answers and continues stopped jobs.        *)
Terminates == <>(~ Alive)
=============================================================================
