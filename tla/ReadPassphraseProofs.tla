------------------------ MODULE ReadPassphraseProofs -----------------------
(* Proofs about ReadPassphrase, for every buffer, every length of a line   *)
(* and any number of signals: the terminal echoes whenever the user is back*)
(* in the shell, no signal that ends the program is lost, and what is used *)
(* as a passphrase is a line.                                              *)
EXTENDS ReadPassphrase, FiniteSetTheorems, SequenceTheorems, TLAPS

Reasons == {"INT", "TSTP", "TTIN", "TTOU"}

(* The handlers are installed one after the other, and removed in the same *)
(* order.                                                                  *)
Installing == {{}, {"INT"}, {"INT", "TSTP"}, {"INT", "TSTP", "TTIN"}, Reasons}
Removing == {Reasons, {"TSTP", "TTIN", "TTOU"}, {"TTIN", "TTOU"}, {"TTOU"}, {}}

Places == {"open", "noecho", "catch", "prompt", "read", "restore", "uncatch", "resend", "return", "ok", "fail"}

ControlType ==
  /\ echo \in BOOLEAN /\ fg \in BOOLEAN /\ oterm \in BOOLEAN /\ exposed \in BOOLEAN /\ lost \in BOOLEAN
  /\ input \in {"tty", "stdin"} /\ run \in {"running", "stopped", "killed"}
  /\ pc \in Places /\ caught \in Installing \cup Removing /\ signo \subseteq Reasons /\ i \in 1..5

(* Where which handlers are installed.                                     *)
HandlersAtPlace ==
  /\ pc \in {"prompt", "read", "restore"} => caught = Reasons
  /\ pc \in {"open", "noecho", "resend", "return"} \cup Ended => caught = {}
  /\ pc = "catch" => caught \in Installing \ {Reasons}
  /\ pc = "uncatch" => caught \in Removing \ {{}}

(* The echo is off exactly in between, where the job is in the foreground  *)
(* and is neither stopped nor killed, if no signal came too early.         *)
Silent == input = "tty" /\ pc \in {"catch", "prompt", "read", "restore"}
EchoKept ==
  /\ pc = "noecho" => input = "tty"
  /\ ~ exposed =>
       /\ echo <=> ~ Silent
       /\ Silent => fg /\ run = "running"
       /\ Silent \/ pc = "noecho" => oterm

(* An interrupt that was caught waits to be sent again, which kills.       *)
InterruptKept ==
  /\ pc \in {"noecho", "catch", "prompt", "read", "restore", "uncatch"} => i = 1
  /\ "INT" \in signo =>
       /\ pc \in {"catch", "prompt", "read", "restore", "uncatch", "resend"}
       /\ i = 1 \/ run = "killed"

ControlInv == ControlType /\ HandlersAtPlace /\ EchoKept /\ InterruptKept

USE DEF Running, Ended, Stops, terminal, program

LEMMA OrderLen == Len(Order) = 4 /\ Order[1] = "INT" /\ Order[2] = "TSTP" /\ Order[3] = "TTIN" /\ Order[4] = "TTOU"
  BY DEF Order

LEMMA HandlersCounted ==
  /\ Cardinality({}) = 0
  /\ Cardinality({"INT"}) = 1 /\ Cardinality({"TTOU"}) = 1
  /\ Cardinality({"INT", "TSTP"}) = 2 /\ Cardinality({"TTIN", "TTOU"}) = 2
  /\ Cardinality({"INT", "TSTP", "TTIN"}) = 3 /\ Cardinality({"TSTP", "TTIN", "TTOU"}) = 3
  /\ Cardinality(Reasons) = 4
  <1>1. IsFiniteSet({}) /\ Cardinality({}) = 0
    BY FS_EmptySet
  <1>2. ASSUME NEW S, IsFiniteSet(S), NEW x, x \notin S
        PROVE  IsFiniteSet(S \cup {x}) /\ Cardinality(S \cup {x}) = Cardinality(S) + 1
    BY <1>2, FS_AddElement
  <1>3. ASSUME NEW a
        PROVE  IsFiniteSet({a}) /\ Cardinality({a}) = 1
    <2>1. {} \cup {a} = {a}
      OBVIOUS
    <2> QED BY <1>1, <1>2, <2>1
  <1>4. ASSUME NEW a, NEW b, a # b
        PROVE  IsFiniteSet({a, b}) /\ Cardinality({a, b}) = 2
    <2>1. {a} \cup {b} = {a, b} /\ b \notin {a}
      BY <1>4
    <2>2. IsFiniteSet({a}) /\ Cardinality({a}) = 1
      BY <1>3
    <2>3. IsFiniteSet({a} \cup {b}) /\ Cardinality({a} \cup {b}) = Cardinality({a}) + 1
      BY <1>2, <2>1, <2>2
    <2> QED BY <2>1, <2>2, <2>3
  <1>5. ASSUME NEW a, NEW b, NEW c, a # b, c \notin {a, b}
        PROVE  IsFiniteSet({a, b, c}) /\ Cardinality({a, b, c}) = 3
    <2>1. {a, b} \cup {c} = {a, b, c}
      OBVIOUS
    <2>2. IsFiniteSet({a, b}) /\ Cardinality({a, b}) = 2
      BY <1>4, <1>5
    <2>3. /\ IsFiniteSet({a, b} \cup {c})
          /\ Cardinality({a, b} \cup {c}) = Cardinality({a, b}) + 1
      BY <1>2, <1>5, <2>2
    <2> QED BY <2>1, <2>2, <2>3
  <1>6. Cardinality(Reasons) = 4
    <2>1. {"INT", "TSTP", "TTIN"} \cup {"TTOU"} = Reasons /\ "TTOU" \notin {"INT", "TSTP", "TTIN"}
      BY DEF Reasons
    <2>2. IsFiniteSet({"INT", "TSTP", "TTIN"}) /\ Cardinality({"INT", "TSTP", "TTIN"}) = 3
      <3>1. "INT" # "TSTP" /\ "TTIN" \notin {"INT", "TSTP"}
        OBVIOUS
      <3> QED BY <1>5, <3>1
    <2>3. /\ Cardinality({"INT", "TSTP", "TTIN"} \cup {"TTOU"})
               = Cardinality({"INT", "TSTP", "TTIN"}) + 1
      BY <1>2, <2>1, <2>2
    <2> QED BY <2>1, <2>2, <2>3
  <1>7. Cardinality({"INT", "TSTP", "TTIN"}) = 3 /\ Cardinality({"TSTP", "TTIN", "TTOU"}) = 3
    <2>1. "INT" # "TSTP" /\ "TTIN" \notin {"INT", "TSTP"} /\ "TSTP" # "TTIN" /\ "TTOU" \notin {"TSTP", "TTIN"}
      OBVIOUS
    <2> QED BY <1>5, <2>1
  <1>8. Cardinality({"INT", "TSTP"}) = 2 /\ Cardinality({"TTIN", "TTOU"}) = 2
    BY <1>4
  <1> QED BY <1>1, <1>3, <1>6, <1>7, <1>8

(* What Catch makes of the handlers.                                       *)
LEMMA MoreHandlers ==
  ASSUME NEW h \in Installing \ {Reasons}
  PROVE  LET more == h \cup {Order[Cardinality(h) + 1]}
         IN more \in Installing \ {{}} /\ (Cardinality(more) = 4 <=> more = Reasons)
  <1> DEFINE more == h \cup {Order[Cardinality(h) + 1]}
  <1>1. CASE h = {}
    <2>1. more = {"INT"}
      BY <1>1, HandlersCounted, OrderLen
    <2> QED BY <2>1, HandlersCounted DEF Installing, Reasons
  <1>2. CASE h = {"INT"}
    <2>1. more = {"INT", "TSTP"}
      BY <1>2, HandlersCounted, OrderLen
    <2> QED BY <2>1, HandlersCounted DEF Installing, Reasons
  <1>3. CASE h = {"INT", "TSTP"}
    <2>1. more = {"INT", "TSTP", "TTIN"}
      BY <1>3, HandlersCounted, OrderLen
    <2> QED BY <2>1, HandlersCounted DEF Installing, Reasons
  <1>4. CASE h = {"INT", "TSTP", "TTIN"}
    <2>1. more = Reasons
      BY <1>4, HandlersCounted, OrderLen DEF Reasons
    <2> QED BY <2>1, HandlersCounted DEF Installing, Reasons
  <1> QED BY <1>1, <1>2, <1>3, <1>4 DEF Installing

(* What Uncatch leaves of them.                                            *)
LEMMA FewerHandlers ==
  ASSUME NEW h \in Removing \ {{}}
  PROVE  h \ {Order[5 - Cardinality(h)]} \in Removing \ {Reasons}
  <1> DEFINE fewer == h \ {Order[5 - Cardinality(h)]}
  <1>1. CASE h = Reasons
    <2>1. fewer = {"TSTP", "TTIN", "TTOU"}
      BY <1>1, HandlersCounted, OrderLen DEF Reasons
    <2> QED BY <2>1 DEF Removing, Reasons
  <1>2. CASE h = {"TSTP", "TTIN", "TTOU"}
    <2>1. fewer = {"TTIN", "TTOU"}
      BY <1>2, HandlersCounted, OrderLen
    <2> QED BY <2>1 DEF Removing, Reasons
  <1>3. CASE h = {"TTIN", "TTOU"}
    <2>1. fewer = {"TTOU"}
      BY <1>3, HandlersCounted, OrderLen
    <2> QED BY <2>1 DEF Removing, Reasons
  <1>4. CASE h = {"TTOU"}
    <2>1. fewer = {}
      BY <1>4, HandlersCounted, OrderLen
    <2> QED BY <2>1 DEF Removing, Reasons
  <1> QED BY <1>1, <1>2, <1>3, <1>4 DEF Removing

LEMMA NoHandlers == {} \in Installing \ {Reasons} /\ {} \in Removing
  BY DEF Installing, Removing, Reasons

LEMMA ControlInit == Init => ControlInv
  <1> SUFFICES ASSUME Init PROVE ControlInv
    OBVIOUS
  <1> USE DEF Init
  <1>1. ControlType
    <2>1. caught \in Installing \cup Removing
      BY NoHandlers
    <2>2. i \in 1..5 /\ pc \in Places
      BY DEF Places
    <2>3. signo \subseteq Reasons /\ run \in {"running", "stopped", "killed"}
      OBVIOUS
    <2>4. /\ echo \in BOOLEAN /\ fg \in BOOLEAN /\ oterm \in BOOLEAN /\ exposed \in BOOLEAN /\ lost \in BOOLEAN
          /\ input \in {"tty", "stdin"}
      OBVIOUS
    <2> QED BY <2>1, <2>2, <2>3, <2>4 DEF ControlType
  <1>2. HandlersAtPlace
    BY DEF HandlersAtPlace
  <1>3. EchoKept
    BY DEF EchoKept, Silent
  <1>4. InterruptKept
    BY DEF InterruptKept
  <1> QED BY <1>1, <1>2, <1>3, <1>4 DEF ControlInv

LEMMA ControlNext == ControlInv /\ [Next]_vars => ControlInv'
  <1> SUFFICES ASSUME ControlInv, [Next]_vars PROVE ControlInv'
    OBVIOUS
  <1> USE DEF ControlInv, ControlType, HandlersAtPlace, EchoKept, InterruptKept, Silent, Places
  <1>1. CASE Open
    BY <1>1, NoHandlers DEF Open
  <1>2. CASE EchoOff
    BY <1>2, NoHandlers DEF EchoOff, Default, Flush
  <1>3. CASE Catch
    <2>1. caught \in Installing \ {Reasons}
      BY <1>3 DEF Catch
    <2>2. /\ caught' \in Installing \ {{}}
          /\ pc' = IF caught' = Reasons THEN "prompt" ELSE "catch"
      BY <1>3, <2>1, MoreHandlers, OrderLen DEF Catch
    <2> QED BY <1>3, <2>2 DEF Catch
  <1>4. CASE Prompt
    BY <1>4 DEF Prompt
  <1>5. CASE Read
    <2>1. pc' \in {"read", "restore"}
      BY <1>5 DEF Read
    <2> QED BY <1>5, <2>1 DEF Read
  <1>6. CASE ReadInBackground
    BY <1>6 DEF ReadInBackground, Reasons
  <1>7. CASE EchoBack
    <2>1. Reasons \in Removing \ {{}}
      BY DEF Removing, Reasons
    <2> QED BY <1>7, <2>1 DEF EchoBack, Flush
  <1>8. CASE Uncatch
    <2>1. caught \in Removing \ {{}} /\ caught' = caught \ {Order[5 - Cardinality(caught)]}
      <3>1. Cardinality(caught) \in 1..4 => Len(Order) + 1 - Cardinality(caught) = 5 - Cardinality(caught)
        BY OrderLen
      <3>2. caught \in Removing \ {{}}
        BY <1>8 DEF Uncatch
      <3>3. Cardinality(caught) \in 1..4
        BY <3>2, HandlersCounted DEF Removing
      <3> QED BY <1>8, <3>1, <3>2, <3>3 DEF Uncatch
    <2>2. caught' \in Removing \ {Reasons}
      BY <2>1, FewerHandlers
    <2> QED BY <1>8, <2>2 DEF Uncatch
  <1>9. CASE Resend
    <2>1. CASE i > Len(Order)
      BY <1>9, <2>1, OrderLen DEF Resend
    <2>2. CASE ~ (i > Len(Order))
      <3>1. i \in 1..4 /\ i' = i + 1 /\ pc' = pc /\ (Order[i] = "INT" <=> i = 1)
        BY <1>9, <2>2, OrderLen DEF Resend
      <3>2. Order[i] = "INT" /\ "INT" \in signo => run' = "killed"
        BY <1>9, <2>2 DEF Resend, Default
      <3>3. /\ run' \in {"running", "stopped", "killed"} /\ fg' \in BOOLEAN
            /\ pc = "resend" /\ run = "running"
            /\ UNCHANGED <<echo, input, oterm, caught, signo, exposed, lost>>
        BY <1>9, <2>2 DEF Resend, Default
      <3>4. InterruptKept'
        BY <3>1, <3>2, <3>3
      <3> QED BY <3>1, <3>3, <3>4
    <2> QED BY <2>1, <2>2
  <1>10. CASE Return
    BY <1>10 DEF Return
  <1>11. ASSUME NEW ch, Type(ch) \/ TypeEnd(ch) \/ Send(ch)
         PROVE  ControlInv'
    BY <1>11 DEF Type, TypeEnd, Send
  <1>12. ASSUME NEW s \in {"INT", "TSTP"}, Signal(s)
         PROVE  ControlInv'
    <2>1. CASE s \in caught
      <3>1. /\ run = "running" /\ signo' = signo \cup {s} /\ s \in Reasons
            /\ UNCHANGED <<fg, run, exposed, echo, confirm, input, oterm, p, pass, caught, restart, i, lost>>
        BY <1>12, <2>1 DEF Signal, Reasons
      <3>2. CASE pc = "read" /\ pc' = "restore"
        BY <2>1, <3>1, <3>2, SMTT(30) DEF Reasons
      <3>3. CASE UNCHANGED pc
        BY <2>1, <3>1, <3>3, SMTT(30) DEF Reasons
      <3>4. (pc = "read" /\ pc' = "restore") \/ UNCHANGED pc
        BY <1>12, <2>1 DEF Signal
      <3> QED BY <3>2, <3>3, <3>4
    <2>2. CASE s \notin caught
      <3>1. /\ run = "running" /\ run' \in {"stopped", "killed"} /\ fg' = FALSE
            /\ exposed' = (exposed \/ pc = "catch")
            /\ UNCHANGED <<pc, signo, echo, confirm, input, oterm, p, pass, caught, restart, i, lost>>
        BY <1>12, <2>2 DEF Signal, Default
      <3>2. pc \notin {"prompt", "read", "restore"}
        BY <1>12, <2>2 DEF Reasons
      <3>3. exposed' \in BOOLEAN
        <4>1. exposed \in BOOLEAN
          OBVIOUS
        <4> QED BY <3>1, <4>1, Zenon
      <3>4. ControlType' /\ HandlersAtPlace'
        <4>1. /\ pc' \in Places /\ signo' \subseteq Reasons /\ i' \in 1..5 /\ caught' \in Installing \cup Removing
              /\ run' \in {"running", "stopped", "killed"} /\ input' \in {"tty", "stdin"}
          BY <3>1
        <4>2. echo' \in BOOLEAN /\ fg' \in BOOLEAN /\ oterm' \in BOOLEAN /\ lost' \in BOOLEAN
          BY <3>1
        <4>3. HandlersAtPlace'
          BY <3>1
        <4> QED BY <3>3, <4>1, <4>2, <4>3
      <3>5. EchoKept'
        BY <3>1, <3>2
      <3>6. InterruptKept'
        BY <3>1
      <3> QED BY <3>4, <3>5, <3>6
    <2> QED BY <2>1, <2>2
  <1>13. ASSUME NEW foreground \in BOOLEAN, Continue(foreground)
         PROVE  ControlInv'
    BY <1>13 DEF Continue, Alive
  <1>14. CASE UNCHANGED vars
    BY <1>14 DEF vars
  <1> QED
    BY <1>1, <1>2, <1>3, <1>4, <1>5, <1>6, <1>7, <1>8, <1>9, <1>10, <1>11, <1>12, <1>13, <1>14
    DEF Next, Step, User, Done

LEMMA ControlInvariant == Spec => []ControlInv
  BY ControlInit, ControlNext, PTL DEF Spec

(* Whenever the user is back in the shell the terminal echoes, if no signal*)
(* came between turning the echo off and installing its handler.           *)
THEOREM EchoAlwaysBack == Spec => []EchoIsBack
  <1>1. ControlInv => EchoIsBack
    BY DEF ControlInv, EchoKept, EchoIsBack, Silent
  <1> QED BY <1>1, ControlInvariant, PTL

(* A caught signal that ends the program is still to come when readpass-   *)
(* phrase would begin anew or return: it never does either.                *)
THEOREM InterruptNeverLost == Spec => InterruptNotLost
  <1> DEFINE Step1 == "INT" \in signo => "INT" \in signo' /\ pc' \notin {"open", "return"}
  <1>1. ControlInv /\ ControlInv' /\ [Next]_vars => [Step1]_vars
    <2> SUFFICES ASSUME ControlInv, ControlInv', Next, "INT" \in signo
                 PROVE  "INT" \in signo' /\ pc' \notin {"open", "return"}
      OBVIOUS
    <2>1. pc # "open"
      BY DEF ControlInv, InterruptKept
    <2>2. "INT" \in signo'
      BY <2>1 DEF Next, Step, User, Done, Open, EchoOff, Catch, Prompt, Read, ReadInBackground, EchoBack,
           Uncatch, Resend, Return, Type, TypeEnd, Send, Signal, Continue, vars
    <2> QED BY <2>2 DEF ControlInv, InterruptKept
  <1> QED BY <1>1, ControlInvariant, PTL DEF Spec, InterruptNotLost

-----------------------------------------------------------------------------
(* What was read of a line.                                                *)
AnyChar == Chars \cup {End, Eof}

(* What of a line fits into the buffer.                                    *)
Cut(c) == SubSeq(c, 1, IF Len(c) < BufSize THEN Len(c) ELSE BufSize - 1)

(* q is what is read of l when rest is still to be read, and when the line *)
(* has ended.                                                              *)
Begun(l, rest, q) == \E c \in Seq(Chars) : l = c \o rest /\ q = Cut(c)
Whole(l, q) ==
  \E c \in Seq(Chars), e \in {End, Eof}, rest \in Seq(AnyChar) : l = c \o (<<e>> \o rest) /\ q = Cut(c)

LEMMA CutOne ==
  ASSUME NEW c \in Seq(Chars), NEW ch \in Chars
  PROVE  /\ Cut(c) \in Seq(Chars)
         /\ Cut(Append(c, ch)) = IF Len(Cut(c)) < BufSize - 1 THEN Append(Cut(c), ch) ELSE Cut(c)
  <1> USE ReadPassphraseAssumption
  <1>1. CASE Len(c) < BufSize
    <2>1. Cut(c) = c
      BY <1>1 DEF Cut
    <2>2. CASE Len(c) < BufSize - 1
      BY <2>1, <2>2 DEF Cut
    <2>3. CASE Len(c) = BufSize - 1
      <3>1. Cut(Append(c, ch)) = SubSeq(Append(c, ch), 1, Len(c))
        BY <2>3 DEF Cut
      <3>2. SubSeq(Append(c, ch), 1, Len(c)) = c
        OBVIOUS
      <3> QED BY <2>1, <2>3, <3>1, <3>2
    <2> QED BY <1>1, <2>2, <2>3
  <1>2. CASE ~ (Len(c) < BufSize)
    <2>1. Cut(c) = SubSeq(c, 1, BufSize - 1) /\ Cut(Append(c, ch)) = SubSeq(Append(c, ch), 1, BufSize - 1)
      BY <1>2 DEF Cut
    <2>2. Len(SubSeq(c, 1, BufSize - 1)) = BufSize - 1
      BY <1>2
    <2>3. SubSeq(Append(c, ch), 1, BufSize - 1) = SubSeq(c, 1, BufSize - 1)
      BY <1>2
    <2>4. SubSeq(c, 1, BufSize - 1) \in Seq(Chars)
      BY <1>2
    <2>5. Cut(Append(c, ch)) = Cut(c)
      BY <2>1, <2>3
    <2>6. Len(Cut(c)) = BufSize - 1
      BY <2>1, <2>2
    <2>7. ~ (Len(Cut(c)) < BufSize - 1)
      BY <2>6
    <2>8. Cut(c) \in Seq(Chars)
      BY <2>1, <2>4
    <2> QED BY <2>5, <2>7, <2>8
  <1> QED BY <1>1, <1>2

LEMMA BegunOne ==
  ASSUME NEW l, NEW r \in Seq(AnyChar), r # << >>, Head(r) \in Chars, NEW q, Begun(l, r, q)
  PROVE  /\ q \in Seq(Chars)
         /\ Begun(l, Tail(r), IF Len(q) < BufSize - 1 THEN Append(q, Head(r)) ELSE q)
  <1>1. PICK c \in Seq(Chars) : l = c \o r /\ q = Cut(c)
    BY DEF Begun
  <1>2. l = Append(c, Head(r)) \o Tail(r)
    BY <1>1
  <1>3. Append(c, Head(r)) \in Seq(Chars)
    OBVIOUS
  <1> QED BY <1>1, <1>2, <1>3, CutOne DEF Begun

LEMMA BegunGrows ==
  ASSUME NEW l, NEW r \in Seq(AnyChar), NEW x \in AnyChar, NEW q, Begun(l, r, q)
  PROVE  Begun(Append(l, x), Append(r, x), q)
  <1>1. PICK c \in Seq(Chars) : l = c \o r /\ q = Cut(c)
    BY DEF Begun
  <1>2. Append(l, x) = c \o Append(r, x)
    <2>1. c \in Seq(AnyChar)
      BY DEF AnyChar
    <2> QED BY <1>1, <2>1
  <1> QED BY <1>1, <1>2 DEF Begun

LEMMA WholeGrows ==
  ASSUME NEW l, NEW x \in AnyChar, NEW q, Whole(l, q)
  PROVE  Whole(Append(l, x), q)
  <1>1. PICK c \in Seq(Chars), e \in {End, Eof}, rest \in Seq(AnyChar) : l = c \o (<<e>> \o rest) /\ q = Cut(c)
    BY DEF Whole
  <1>2. Append(l, x) = c \o (<<e>> \o Append(rest, x))
    <2>1. c \in Seq(AnyChar) /\ <<e>> \in Seq(AnyChar) /\ <<e>> \o rest \in Seq(AnyChar)
      BY DEF AnyChar
    <2>2. Append(l, x) = c \o Append(<<e>> \o rest, x)
      BY <1>1, <2>1
    <2>3. Append(<<e>> \o rest, x) = <<e>> \o Append(rest, x)
      BY <2>1
    <2> QED BY <2>2, <2>3
  <1>3. Append(rest, x) \in Seq(AnyChar)
    OBVIOUS
  <1> QED BY <1>1, <1>2, <1>3 DEF Whole

LEMMA BegunEnds ==
  ASSUME NEW l, NEW r \in Seq(AnyChar), r # << >>, Head(r) \in {End, Eof}, NEW q, Begun(l, r, q)
  PROVE  Whole(l, q)
  <1>1. PICK c \in Seq(Chars) : l = c \o r /\ q = Cut(c)
    BY DEF Begun
  <1>2. r = <<Head(r)>> \o Tail(r) /\ Tail(r) \in Seq(AnyChar)
    OBVIOUS
  <1> QED BY <1>1, <1>2 DEF Whole

LEMMA WholeIsAnswer ==
  ASSUME NEW l, NEW q, Whole(l, q)
  PROVE  q \in Seq(Chars) /\ q = Answer(l)
  <1>1. PICK c \in Seq(Chars), e \in {End, Eof}, rest \in Seq(AnyChar) : l = c \o (<<e>> \o rest) /\ q = Cut(c)
    BY DEF Whole
  <1>2. {End, Eof} \cap Chars = {}
    BY ReadPassphraseAssumption DEF End, Eof
  <1> DEFINE n == Len(c) + 1
             EndsAt(k) == l[k] \in {End, Eof} /\ \A m \in 1..(k - 1) : l[m] \in Chars
             end == CHOOSE k \in 1..Len(l) : EndsAt(k)
  <1>3. l \in Seq(AnyChar) /\ Len(l) = n + Len(rest) /\ l[n] = e /\ \A m \in 1..Len(c) : l[m] = c[m]
    <2>1. c \in Seq(AnyChar) /\ <<e>> \in Seq(AnyChar) /\ Len(<<e>>) = 1
      BY DEF AnyChar
    <2>2. <<e>> \o rest \in Seq(AnyChar) /\ Len(<<e>> \o rest) = 1 + Len(rest) /\ (<<e>> \o rest)[1] = e
      BY <2>1
    <2>3. l[n] = (<<e>> \o rest)[1]
      BY <1>1, <2>1, <2>2
    <2> QED BY <1>1, <2>1, <2>2, <2>3
  <1>4. n \in 1..Len(l) /\ EndsAt(n)
    BY <1>3
  <1>5. ASSUME NEW k \in 1..Len(l), EndsAt(k) PROVE k = n
    <2>1. ~ (k < n)
      BY <1>2, <1>3, <1>5, SMTT(30)
    <2>2. ~ (n < k)
      BY <1>2, <1>3, <1>5
    <2> QED BY <2>1, <2>2
  <1>6. end = n
    <2>1. end \in 1..Len(l) /\ EndsAt(end)
      BY <1>4
    <2> QED BY <1>5, <2>1
  <1>7. Answer(l) = SubSeq(l, 1, IF n < BufSize THEN n - 1 ELSE BufSize - 1)
    <2>1. Answer(l) = SubSeq(l, 1, IF end < BufSize THEN end - 1 ELSE BufSize - 1)
      BY Zenon DEF Answer
    <2> HIDE DEF end
    <2> QED BY <1>6, <2>1
  <1>8. \A k \in 0..Len(c) : SubSeq(l, 1, k) = SubSeq(c, 1, k)
    <2>1. c \in Seq(AnyChar) /\ <<e>> \o rest \in Seq(AnyChar)
      BY DEF AnyChar
    <2>2. SubSeq(l, 1, 0) = SubSeq(c, 1, 0)
      BY <1>3
    <2>3. ASSUME NEW k \in 1..Len(c) PROVE SubSeq(l, 1, k) = SubSeq(c, 1, k)
      <3>1. 1 \in 1..Len(c)
        OBVIOUS
      <3> QED BY <1>1, <2>1, <3>1, SubSeqOfConcat1
    <2>4. \A k \in 0..Len(c) : k = 0 \/ k \in 1..Len(c)
      OBVIOUS
    <2> QED BY <2>2, <2>3, <2>4
  <1>9. Cut(c) \in Seq(Chars)
    BY ReadPassphraseAssumption DEF Cut
  <1> DEFINE fit == IF n < BufSize THEN n - 1 ELSE BufSize - 1
  <1>10. fit \in 0..Len(c) /\ Cut(c) = SubSeq(c, 1, fit)
    <2>1. fit = IF Len(c) < BufSize THEN Len(c) ELSE BufSize - 1
      BY ReadPassphraseAssumption
    <2> QED BY <2>1, ReadPassphraseAssumption DEF Cut
  <1> QED BY <1>1, <1>7, <1>8, <1>9, <1>10

(* Where the line is, when it comes from the terminal: what was typed ahead*)
(* is flushed, and a signal may flush what was typed since.                *)
TtyLine ==
  input = "tty" =>
    /\ pc \in {"catch", "prompt"} => queue = line
    /\ signo = {} =>
         /\ pc = "read" => Begun(line, queue, p)
         /\ pc = "restore" /\ nr # "error" => Whole(line, p)

(* And from a pipe, as long as nothing was read before a restart.          *)
PipeLine ==
  input = "stdin" /\ ~ lost =>
    IF pass = NoPass
      THEN /\ pc \in {"open", "catch", "prompt"} => queue = line
           /\ pc = "read" => Begun(line, queue, p)
           /\ pc \in {"restore", "uncatch", "resend", "return"} /\ nr # "error" => Whole(line, p)
      ELSE Whole(line, pass)

LineType == queue \in Seq(AnyChar) /\ line \in Seq(AnyChar)

LineInv == LineType /\ TtyLine /\ PipeLine

LEMMA LineInit == Init => LineInv
  BY DEF Init, LineInv, LineType, TtyLine, PipeLine

LEMMA BegunEmpty ==
  ASSUME NEW l \in Seq(AnyChar)
  PROVE  Begun(l, l, << >>)
  <1>1. << >> \in Seq(Chars) /\ << >> \o l = l
    OBVIOUS
  <1>2. Cut(<< >>) = << >>
    BY ReadPassphraseAssumption DEF Cut
  <1> QED BY <1>1, <1>2 DEF Begun

LEMMA LineNext == ControlInv /\ LineInv /\ [Next]_vars => LineInv'
  <1> SUFFICES ASSUME ControlInv, LineInv, [Next]_vars PROVE LineInv'
    OBVIOUS
  <1> USE DEF LineInv, LineType, TtyLine, PipeLine
  <1>0. pc = "noecho" => input = "tty"
    BY DEF ControlInv, EchoKept
  <1>a. Flush => LineType' /\ queue' = line'
    BY DEF Flush
  <1>1. CASE Open
    BY <1>1 DEF Open
  <1>2. CASE EchoOff
    <2>1. CASE Flush
      BY <1>0, <1>2, <1>a, <2>1 DEF EchoOff
    <2>2. CASE UNCHANGED <<queue, line>>
      BY <1>0, <1>2, <2>2 DEF EchoOff, Flush
    <2> QED BY <1>2, <2>1, <2>2 DEF EchoOff
  <1>3. CASE Catch
    BY <1>3 DEF Catch
  <1>4. CASE Prompt
    BY <1>4, BegunEmpty DEF Prompt
  <1>5. CASE Read
    <2> DEFINE ch == Head(queue)
    <2>1. /\ pc = "read" /\ UNCHANGED <<line, input, pass, signo, lost>>
          /\ queue' = queue \/ queue' = Tail(queue)
      BY <1>5 DEF Read
    <2>2. queue # << >>
      BY <1>5 DEF Read, Waiting, HasLine, Range
    <2>3. queue' \in Seq(AnyChar)
      <3>1. Tail(queue) \in Seq(AnyChar)
        BY <2>2
      <3> QED BY <2>1, <3>1
    <2>4. CASE ch \in {End, Eof}
      <3>1. pc' = "restore" /\ p' = p
        BY <1>5, <2>4 DEF Read
      <3>2. Begun(line, queue, p) => Whole(line, p)
        BY <2>2, <2>4, BegunEnds
      <3> QED BY <2>1, <2>3, <3>1, <3>2
    <2>5. CASE ch \notin {End, Eof}
      <3>1. /\ pc' = "read" /\ queue' = Tail(queue)
            /\ p' = IF Len(p) < BufSize - 1 THEN Append(p, ch) ELSE p
        BY <1>5, <2>1, <2>5 DEF Read
      <3>2. ch \in Chars
        BY <2>2, <2>5 DEF AnyChar
      <3>3. Begun(line, queue, p) => Begun(line, queue', p')
        BY <2>2, <3>1, <3>2, BegunOne
      <3> QED BY <2>1, <2>3, <3>1, <3>3
    <2> QED BY <2>4, <2>5
  <1>6. CASE ReadInBackground
    BY <1>6 DEF ReadInBackground
  <1>7. CASE EchoBack
    <2>1. CASE Flush /\ input = "tty"
      BY <1>7, <1>a, <2>1 DEF EchoBack
    <2>2. CASE UNCHANGED <<queue, line>>
      BY <1>7, <2>2 DEF EchoBack
    <2> QED BY <1>7, <2>1, <2>2 DEF EchoBack
  <1>8. CASE Uncatch
    BY <1>8 DEF Uncatch
  <1>9. CASE Resend
    BY <1>9 DEF Resend, Default
  <1>10. CASE Return
    <2>1. pass = NoPass /\ pass' # NoPass /\ input = "stdin" /\ ~ lost => Whole(line, pass')
      BY <1>10 DEF Return
    <2>2. pass = NoPass /\ pass' = NoPass /\ input = "stdin" /\ ~ lost => pc' \notin {"open", "return"}
      <3> SUFFICES ASSUME pass = NoPass, pass' = NoPass, input = "stdin", ~ lost, pc' # "fail" PROVE FALSE
        BY <1>10 DEF Return
      <3>1. nr # "error" /\ pass' = p /\ pc = "return"
        BY <1>10 DEF Return
      <3>2. p \in Seq(Chars)
        BY <3>1, WholeIsAnswer
      <3>3. "none" \in Chars
        <4>1. <<"none">> \in Seq(Chars)
          BY <3>1, <3>2 DEF NoPass
        <4>2. <<"none">>[1] \in Chars
          BY <4>1
        <4> QED BY <4>2
      <3> QED BY <3>3, ReadPassphraseAssumption
    <2> QED BY <1>10, <2>1, <2>2 DEF Return
  <1>11. ASSUME NEW ch \in AnyChar, Type(ch) \/ TypeEnd(ch) \/ Send(ch)
         PROVE  LineInv'
    <2>1. /\ queue' = Append(queue, ch) /\ line' = Append(line, ch)
          /\ UNCHANGED <<pc, nr, p, input, pass, signo, lost>>
      BY <1>11 DEF Type, TypeEnd, Send
    <2>2. Begun(line, queue, p) => Begun(line', queue', p')
      BY <2>1, BegunGrows
    <2>3. /\ Whole(line, p) => Whole(line', p')
          /\ Whole(line, pass) => Whole(line', pass')
      BY <2>1, WholeGrows
    <2> QED BY <2>1, <2>2, <2>3
  <1>12. ASSUME NEW s \in {"INT", "TSTP"}, Signal(s)
         PROVE  LineInv'
    <2>1. /\ UNCHANGED <<input, p, pass, lost>>
          /\ (Flush /\ input = "tty") \/ UNCHANGED <<queue, line>>
      BY <1>12 DEF Signal
    <2>2. LineType'
      BY <1>a, <2>1
    <2>3. pc \in {"read", "restore"} => "INT" \in caught /\ "TSTP" \in caught
      BY DEF ControlInv, HandlersAtPlace, Reasons
    <2>4. \/ pc' = pc /\ nr' = nr
          \/ pc = "read" /\ pc' = "restore" /\ nr' = "error"
      BY <1>12 DEF Signal
    <2>5. TtyLine'
      <3>1. pc' \in {"catch", "prompt"} /\ input = "tty" => queue' = line'
        BY <1>a, <2>1, <2>4
      <3>2. pc' \in {"read", "restore"} => signo' # {}
        BY <1>12, <2>3, <2>4 DEF Signal
      <3> QED BY <2>1, <3>1, <3>2
    <2>6. PipeLine'
      BY <2>1, <2>4
    <2> QED BY <2>2, <2>5, <2>6
  <1>13. ASSUME NEW foreground \in BOOLEAN, Continue(foreground)
         PROVE  LineInv'
    BY <1>13 DEF Continue
  <1>14. CASE UNCHANGED vars
    BY <1>14 DEF vars
  <1> QED
    BY <1>1, <1>2, <1>3, <1>4, <1>5, <1>6, <1>7, <1>8, <1>9, <1>10, <1>11, <1>12, <1>13, <1>14
    DEF Next, Step, User, Done, AnyChar

(* What is used as a passphrase is a line, cut to the size of the buffer:  *)
(* typed in answer to the prompt, or the first one of the pipe unless some *)
(* of that was lost at a restart.                                          *)
THEOREM PassphraseAlwaysLine == Spec => []PassphraseIsLine
  <1>1. LineInv => PassphraseIsLine
    <2>1. Whole(line, p) => p = Answer(line)
      BY WholeIsAnswer
    <2>2. Whole(line, pass) => pass = Answer(line)
      BY WholeIsAnswer
    <2> QED BY <2>1, <2>2 DEF LineInv, TtyLine, PipeLine, PassphraseIsLine
  <1>2. Spec => []LineInv
    BY LineInit, LineNext, ControlInvariant, PTL DEF Spec
  <1> QED BY <1>1, <1>2, PTL
=============================================================================
