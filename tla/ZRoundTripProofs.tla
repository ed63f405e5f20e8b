-------------------------- MODULE ZRoundTripProofs --------------------------
(* Proofs about ZSign and ZRoundTrip, for all files, sizes and edits: the  *)
(* room for the hash lines is enough, what a finished -S -z leaves is the  *)
(* archive, and -V -z accepts nothing of it that was not signed.           *)
EXTENDS ZRoundTrip, SequenceTheorems, TLAPS

-----------------------------------------------------------------------------
(* The bytes that zsign writes, and the types of its state.                *)
WriteBytes ==
  FileBytes \cup {Nul, Magic, FlagByte({"COMMENT"})}
            \cup {Hash(b) : b \in Seq(FileBytes)}
            \cup {SigByte([blocks |-> h, size |-> BlockSize]) : h \in Seq(Seq(FileBytes))}

(* The verifier with its theorems, for any stream of such bytes. Its       *)
(* definitions have two names, V! where it is run and VP! where it is      *)
(* proved about; they are the same formulas.                               *)
VP == INSTANCE ZVerifyProofs WITH
        Streams <- Seq(WriteBytes), stream <- sent, off <- voff, pc <- vpc, hbuf <- vhbuf, sz <- vsz,
        state <- vstate, pos <- vpos, comment <- vcomment, residual <- vresidual,
        buffer <- vbuffer, wrote <- vwrote, sha <- vsha, out <- vout

Beginning == {"open", "header", "hash", "opensig"}
Writing == {"createsig", "writeheader", "copy", "write"}

SignType ==
  /\ pc \in Beginning \cup Writing \cup Exits /\ alias \in BOOLEAN /\ info \in Infos
  /\ input \in Inputs /\ "in" \in DOMAIN fs
  /\ pc \in Beginning => fs["in"] \in Seq(FileBytes)
  /\ pc \in Writing => Out \in DOMAIN fs
  /\ \A f \in DOMAIN fs : fs[f] \in Seq(WriteBytes)
  /\ st_size \in Nat /\ foff \in Nat /\ pos \in Nat /\ sz \in Nat /\ edits \in Nat
  /\ hbuf \in Seq(FileBytes) /\ buffer \in Seq(WriteBytes)
  /\ hashed \in Seq(Seq(FileBytes))

LEMMA FilesAreSeqs ==
  /\ Inputs \subseteq Seq(FileBytes) /\ Outputs \subseteq Seq(FileBytes) /\ Edits \subseteq Seq(FileBytes)
  /\ Seq(FileBytes) \subseteq Seq(WriteBytes)
  <1>1. FileBytes \subseteq WriteBytes
    BY DEF WriteBytes
  <1>2. Seq(FileBytes) \subseteq Seq(WriteBytes)
    BY <1>1, SeqMonotonic
  <1> QED BY <1>2, ZSignAssumption

LEMMA TwoParts ==
  ASSUME NEW T, NEW a \in Seq(T), NEW b \in Seq(T)
  PROVE  /\ a \o b \in Seq(T) /\ Len(a \o b) = Len(a) + Len(b)
         /\ \A i \in 1..Len(a) : (a \o b)[i] = a[i]
         /\ \A i \in 1..Len(b) : (a \o b)[Len(a) + i] = b[i]
  OBVIOUS

(* What read(2) delivers of a file.                                        *)
LEMMA FromFileIs ==
  ASSUME NEW T, fs["in"] \in Seq(T), foff \in Nat, NEW n \in Int, ~ AtEof
  PROVE  /\ FromFile(n) \in Seq(T)
         /\ n \in Nat => Len(FromFile(n)) = Smaller(n, Left) /\ Len(FromFile(n)) \in Nat
         /\ foff < Len(fs["in"]) /\ Left = Len(fs["in"]) - foff
  BY DEF FromFile, AtEof, Left, Smaller

LEMMA PutIs ==
  ASSUME NEW path, NEW content, Put(path, content)
  PROVE  /\ DOMAIN fs' = DOMAIN fs \cup {path} /\ fs'[path] = content
         /\ \A f \in DOMAIN fs : f # path => fs'[f] = fs[f]
  BY DEF Put

(* What ZVerify assumes holds of it here.                                  *)
LEMMA VerifierAssumed ==
  /\ HeaderLen \in Nat /\ HeaderLen >= 2 /\ Nul # Magic
  /\ Size \in Nat \ {0}
  /\ Seq(WriteBytes) \subseteq Seq(VP!Bytes)
  /\ Name # Nul
  /\ \A s \in Signings :
       /\ s.size \in Nat \ {0}
       /\ s.blocks \in Seq(Seq(VP!Bytes))
       /\ \A k \in 1..Len(s.blocks) :
            /\ Len(s.blocks[k]) \in 1..s.size
            /\ k < Len(s.blocks) => Len(s.blocks[k]) = s.size
       /\ Nul \notin VP!Range(VP!Comment(s))
  <1>0. \A f : Range(f) = VP!Range(f) /\ V!Range(f) = VP!Range(f)
    BY DEF Range, VP!Range, V!Range
  <1>1. WriteBytes \subseteq VP!Bytes
    <2> SUFFICES ASSUME NEW x \in WriteBytes PROVE x \in VP!Bytes
      OBVIOUS
    <2>1. <<x>> \in Seq(WriteBytes) /\ x \in VP!Range(<<x>>)
      <3>1. 1 \in DOMAIN <<x>> /\ <<x>>[1] = x
        OBVIOUS
      <3> QED BY <3>1 DEF VP!Range
    <2> QED BY <2>1 DEF VP!Bytes
  <1>2. V!Bytes \subseteq VP!Bytes
    BY <1>0 DEF V!Bytes, VP!Bytes
  <1>3. Seq(WriteBytes) \subseteq Seq(VP!Bytes) /\ Seq(Seq(V!Bytes)) \subseteq Seq(Seq(VP!Bytes))
    BY <1>1, <1>2, SeqMonotonic
  <1>4. \A s \in Signings : Comment(s) = VP!Comment(s)
    BY DEF Comment, VP!Comment, SigByte, VP!SigByte, Hash, VP!Hash
  <1> QED BY <1>0, <1>3, <1>4, HeaderAssumption, ZSignAssumption, RoundTripAssumption

LEMMA SameNulAfter ==
  ASSUME NEW b, NEW from
  PROVE  NulAfter(b, from) = VP!NulAfter(b, from) /\ V!NulAfter(b, from) = VP!NulAfter(b, from)
  BY DEF NulAfter, V!NulAfter, VP!NulAfter

LEMMA SameFlags ==
  ASSUME NEW b
  PROVE  /\ (HasName(b) <=> VP!HasName(b)) /\ (V!HasName(b) <=> VP!HasName(b))
         /\ (HasComment(b) <=> VP!HasComment(b)) /\ (V!HasComment(b) <=> VP!HasComment(b))
         /\ (BadHeader(b) <=> VP!BadHeader(b)) /\ (V!BadHeader(b) <=> VP!BadHeader(b))
  BY DEF HasName, V!HasName, VP!HasName, HasComment, V!HasComment, VP!HasComment,
         BadHeader, V!BadHeader, VP!BadHeader, FlagByte, V!FlagByte, VP!FlagByte

LEMMA SameParsed ==
  ASSUME NEW b, NEW st, NEW p
  PROVE  Parsed(b, st, p) = VP!Parsed(b, st, p) /\ V!Parsed(b, st, p) = VP!Parsed(b, st, p)
  <1> DEFINE name == IF st = 0 THEN HeaderLen ELSE p
             text == IF st <= 1 /\ VP!HasName(b) THEN VP!NulAfter(b, name) ELSE name
             last == IF VP!HasComment(b) THEN VP!NulAfter(b, text) ELSE text
             parsed == CASE text = 0 -> [state |-> 1, pos |-> name, from |-> 0]
                         [] text # 0 /\ last = 0 -> [state |-> 2, pos |-> text, from |-> 0]
                         [] OTHER -> [state |-> 3, pos |-> last, from |-> text]
  <1>1. VP!Parsed(b, st, p) = parsed
    BY DEF VP!Parsed
  <1>2. Parsed(b, st, p) = parsed
    <2> DEFINE text1 == IF st <= 1 /\ HasName(b) THEN NulAfter(b, name) ELSE name
               last1 == IF HasComment(b) THEN NulAfter(b, text1) ELSE text1
    <2>1. text1 = text /\ last1 = last
      BY SameNulAfter, SameFlags
    <2>2. Parsed(b, st, p) =
            CASE text1 = 0 -> [state |-> 1, pos |-> name, from |-> 0]
              [] text1 # 0 /\ last1 = 0 -> [state |-> 2, pos |-> text1, from |-> 0]
              [] OTHER -> [state |-> 3, pos |-> last1, from |-> text1]
      BY DEF Parsed
    <2> HIDE DEF text, last, text1, last1
    <2> QED BY <2>1, <2>2
  <1>3. V!Parsed(b, st, p) = parsed
    <2> DEFINE text1 == IF st <= 1 /\ V!HasName(b) THEN V!NulAfter(b, name) ELSE name
               last1 == IF V!HasComment(b) THEN V!NulAfter(b, text1) ELSE text1
    <2>1. text1 = text /\ last1 = last
      BY SameNulAfter, SameFlags
    <2>2. V!Parsed(b, st, p) =
            CASE text1 = 0 -> [state |-> 1, pos |-> name, from |-> 0]
              [] text1 # 0 /\ last1 = 0 -> [state |-> 2, pos |-> text1, from |-> 0]
              [] OTHER -> [state |-> 3, pos |-> last1, from |-> text1]
      BY DEF V!Parsed
    <2> HIDE DEF text, last, text1, last1
    <2> QED BY <2>1, <2>2
  <1> QED BY <1>1, <1>2, <1>3

LEMMA ParsedType ==
  ASSUME NEW b, Len(b) \in Nat, NEW st, NEW p \in Nat
  PROVE  Parsed(b, st, p).pos \in Nat
  <1> DEFINE name == IF st = 0 THEN HeaderLen ELSE p
             text == IF st <= 1 /\ HasName(b) THEN NulAfter(b, name) ELSE name
             last == IF HasComment(b) THEN NulAfter(b, text) ELSE text
  <1>1. ASSUME NEW from \in Nat PROVE NulAfter(b, from) \in Nat
    <2>1. VP!NulAfter(b, from) \in Nat
      BY VP!NulAfterIs, VerifierAssumed, Zenon
    <2> QED BY <2>1, SameNulAfter
  <1>2. name \in Nat
    BY HeaderAssumption
  <1> HIDE DEF name
  <1>3. text \in Nat
    BY <1>1, <1>2
  <1> HIDE DEF text
  <1>4. last \in Nat
    BY <1>1, <1>3
  <1>5. Parsed(b, st, p) = CASE text = 0 -> [state |-> 1, pos |-> name, from |-> 0]
              [] text # 0 /\ last = 0 -> [state |-> 2, pos |-> text, from |-> 0]
              [] OTHER -> [state |-> 3, pos |-> last, from |-> text]
    BY DEF Parsed, name, text
  <1> HIDE DEF last
  <1>6. /\ text = 0 => Parsed(b, st, p).pos = name
        /\ text # 0 /\ last = 0 => Parsed(b, st, p).pos = text
        /\ text # 0 /\ last # 0 => Parsed(b, st, p).pos = last
    BY <1>5
  <1> QED BY <1>2, <1>3, <1>4, <1>6

-----------------------------------------------------------------------------
(* The types of the signer's state.                                        *)
NewHeader == FixedHeader({"COMMENT"}) \o Comment(Signing) \o <<Nul>>

LEMMA NewHeaderIs ==
  ASSUME hashed \in Seq(Seq(FileBytes))
  PROVE  /\ NewHeader \in Seq(WriteBytes) /\ Len(NewHeader) > HeaderLen
         /\ NewHeader[2] = FlagByte({"COMMENT"}) /\ NewHeader[HeaderLen + 1] = SigByte(Signing)
  <1> DEFINE first == <<Magic, FlagByte({"COMMENT"})>>
             rest == [i \in 1..(HeaderLen - 2) |-> Nul]
             sig == <<SigByte(Signing)>>
             lines == [i \in 1..Len(hashed) |-> Hash(hashed[i])]
             end == <<Nul>>
  <1>1. HeaderLen \in Nat /\ HeaderLen >= 2 /\ HeaderLen - 2 \in Nat /\ Len(hashed) \in Nat
    BY HeaderAssumption
  <1>2. first \in Seq(WriteBytes) /\ Len(first) = 2 /\ first[2] = FlagByte({"COMMENT"})
    <2>1. Magic \in WriteBytes /\ FlagByte({"COMMENT"}) \in WriteBytes
      BY DEF WriteBytes
    <2> QED BY <2>1
  <1>3. rest \in Seq(WriteBytes) /\ Len(rest) = HeaderLen - 2
    <2>1. Nul \in WriteBytes
      BY DEF WriteBytes
    <2> QED BY <1>1, <2>1
  <1>4. sig \in Seq(WriteBytes) /\ Len(sig) = 1 /\ sig[1] = SigByte(Signing)
    <2>1. SigByte(Signing) \in WriteBytes
      BY DEF WriteBytes, Signing
    <2> QED BY <2>1
  <1>5. lines \in Seq(WriteBytes)
    <2>1. ASSUME NEW i \in 1..Len(hashed) PROVE Hash(hashed[i]) \in WriteBytes
      <3>1. hashed[i] \in Seq(FileBytes)
        OBVIOUS
      <3> QED BY <3>1 DEF WriteBytes
    <2> QED BY <1>1, <2>1
  <1>6. end \in Seq(WriteBytes)
    <2>1. Nul \in WriteBytes
      BY DEF WriteBytes
    <2> QED BY <2>1
  <1>7. Signing.blocks = hashed
    BY DEF Signing
  <1>8. NewHeader = ((first \o rest) \o (sig \o lines)) \o end
    BY <1>7 DEF NewHeader, FixedHeader, Comment
  <1> HIDE DEF first, rest, sig, lines, end
  <1>9. /\ first \o rest \in Seq(WriteBytes) /\ Len(first \o rest) = HeaderLen
        /\ (first \o rest)[2] = FlagByte({"COMMENT"})
    <2>1. /\ first \o rest \in Seq(WriteBytes) /\ Len(first \o rest) = Len(first) + Len(rest)
          /\ \A i \in 1..Len(first) : (first \o rest)[i] = first[i]
      <3>1. first \in Seq(WriteBytes) /\ rest \in Seq(WriteBytes)
        BY <1>2, <1>3
      <3> QED BY ONLY <3>1, TwoParts
    <2> QED BY <1>1, <1>2, <1>3, <2>1
  <1>10. /\ sig \o lines \in Seq(WriteBytes) /\ Len(sig \o lines) >= 1 /\ (sig \o lines)[1] = SigByte(Signing)
    <2>1. /\ sig \o lines \in Seq(WriteBytes) /\ Len(sig \o lines) = Len(sig) + Len(lines)
          /\ \A i \in 1..Len(sig) : (sig \o lines)[i] = sig[i]
      <3>1. sig \in Seq(WriteBytes) /\ lines \in Seq(WriteBytes)
        BY <1>4, <1>5
      <3> QED BY ONLY <3>1, TwoParts
    <2> QED BY <1>4, <1>5, <2>1
  <1> DEFINE a == first \o rest
             b == sig \o lines
  <1> HIDE DEF a, b
  <1>11. /\ a \o b \in Seq(WriteBytes) /\ Len(a \o b) > HeaderLen
         /\ (a \o b)[2] = FlagByte({"COMMENT"}) /\ (a \o b)[HeaderLen + 1] = SigByte(Signing)
    <2>1. /\ a \o b \in Seq(WriteBytes) /\ Len(a \o b) = Len(a) + Len(b)
          /\ \A i \in 1..Len(a) : (a \o b)[i] = a[i]
          /\ \A i \in 1..Len(b) : (a \o b)[Len(a) + i] = b[i]
      <3>1. a \in Seq(WriteBytes) /\ b \in Seq(WriteBytes)
        BY <1>9, <1>10 DEF a, b
      <3> QED BY ONLY <3>1, TwoParts
    <2>2. Len(a) = HeaderLen /\ a[2] = FlagByte({"COMMENT"})
      BY <1>9 DEF a
    <2>3. Len(b) \in Nat /\ Len(b) >= 1 /\ b[1] = SigByte(Signing)
      BY <1>10 DEF b
    <2>4. 2 \in 1..Len(a) /\ 1 \in 1..Len(b)
      BY <1>1, <2>2, <2>3
    <2> QED BY <1>1, <2>1, <2>2, <2>3, <2>4
  <1> DEFINE c == a \o b
  <1> HIDE DEF c
  <1>12. /\ c \o end \in Seq(WriteBytes) /\ Len(c \o end) > HeaderLen
         /\ (c \o end)[2] = FlagByte({"COMMENT"}) /\ (c \o end)[HeaderLen + 1] = SigByte(Signing)
    BY <1>1, <1>6, <1>11 DEF c
  <1> QED BY <1>8, <1>12 DEF a, b, c

LEMMA ReadHeaderType ==
  ASSUME SignType, ReadHeader
  PROVE  /\ hbuf' = hbuf \o FromFile(sz' - Len(hbuf)) /\ hbuf' \in Seq(FileBytes)
         /\ pc = "header" /\ pc' \in {"header", "exit1", "hash"}
         /\ sz' \in Nat /\ foff' \in Nat /\ pos' \in Nat /\ (pc' = "hash" => foff' = pos')
         /\ UNCHANGED <<input, alias, info, fs, st_size, hashed, buffer, edits>>
  <1> DEFINE b == hbuf \o FromFile(sz' - Len(hbuf))
             h == Parsed(b, state, pos)
  <1>1. pc = "header" /\ ~ AtEof /\ fs["in"] \in Seq(FileBytes) /\ foff \in Nat /\ pos \in Nat
        /\ hbuf \in Seq(FileBytes) /\ sz \in Nat
    BY DEF ReadHeader, SignType, Beginning
  <1>2. sz' \in Nat /\ sz' - Len(hbuf) \in Int
    BY <1>1 DEF ReadHeader
  <1>3. b \in Seq(FileBytes)
    <2>1. FromFile(sz' - Len(hbuf)) \in Seq(FileBytes)
      BY <1>1, <1>2, FromFileIs
    <2> QED BY <1>1, <2>1
  <1>4. hbuf' = b /\ UNCHANGED <<input, alias, info, fs, st_size, hashed, buffer, edits>>
    BY DEF ReadHeader
  <1>5. /\ pc' \in {"header", "exit1", "hash"}
        /\ foff' = Len(b) \/ foff' = h.pos
        /\ pos' = pos \/ pos' = h.pos
        /\ pc' = "hash" => foff' = pos'
    <2>1. \/ foff' = Len(b) /\ UNCHANGED <<pc, state, pos>>
          \/ pc' = "exit1" /\ foff' = Len(b) /\ UNCHANGED <<state, pos>>
          \/ /\ pos' = h.pos
             /\ pc' = IF h.state = 3 THEN "hash" ELSE "header"
             /\ foff' = IF h.state = 3 THEN h.pos ELSE Len(b)
      BY DEF ReadHeader
    <2> QED BY <1>1, <2>1
  <1> HIDE DEF b
  <1>6. h.pos \in Nat /\ Len(b) \in Nat
    <2>1. Len(b) \in Nat
      BY <1>3
    <2> QED BY <1>1, <2>1, ParsedType
  <1> HIDE DEF h
  <1> QED BY <1>1, <1>2, <1>3, <1>4, <1>5, <1>6 DEF b

(* The output file and the input after a write to the former.              *)
LEMMA PutOut ==
  ASSUME SignType, NEW content \in Seq(WriteBytes), Put(Out, content)
  PROVE  /\ "in" \in DOMAIN fs' /\ \A f \in DOMAIN fs' : fs'[f] \in Seq(WriteBytes)
         /\ Out \in DOMAIN fs' /\ fs'[Out] = content
         /\ ~ alias => fs'["in"] = fs["in"]
  <1>1. DOMAIN fs' = DOMAIN fs \cup {Out} /\ fs'[Out] = content
        /\ \A f \in DOMAIN fs : f # Out => fs'[f] = fs[f]
    BY PutIs
  <1>2. "in" \in DOMAIN fs /\ \A f \in DOMAIN fs : fs[f] \in Seq(WriteBytes)
    BY DEF SignType
  <1>3. ~ alias => Out # "in"
    BY DEF Out
  <1> HIDE DEF Out
  <1> QED BY <1>1, <1>2, <1>3

LEMMA WriteIs ==
  ASSUME SignType, Write, ~ Exit("exit1")
  PROVE  /\ pc \in {"writeheader", "write"} /\ "in" \in DOMAIN fs' /\ Out \in DOMAIN fs /\ Out' \in DOMAIN fs'
         /\ \A f \in DOMAIN fs' : fs'[f] \in Seq(WriteBytes)
         /\ buffer' \in Seq(WriteBytes) /\ fs'[Out'] \o buffer' = fs[Out] \o buffer
         /\ \E more \in Seq(WriteBytes) : fs'[Out'] = fs[Out] \o more
         /\ ~ alias => fs'["in"] = fs["in"]
         /\ UNCHANGED <<input, alias, info, pc, st_size, foff, header, hashed, edits>>
  <1> DEFINE a == fs[Out]
             room == DiskSize - Len(a)
  <1>1. /\ pc \in {"writeheader", "write"} /\ Out \in DOMAIN fs /\ a \in Seq(WriteBytes) /\ buffer \in Seq(WriteBytes)
        /\ Len(a) \in Nat /\ Len(buffer) \in Nat /\ DiskSize \in Nat
    <2>1. pc \in {"writeheader", "write"} /\ Out \in DOMAIN fs
      BY DEF Write, SignType, Writing
    <2>2. a \in Seq(WriteBytes) /\ buffer \in Seq(WriteBytes)
      BY <2>1 DEF SignType
    <2> QED BY <2>1, <2>2, ZSignAssumption
  <1>2. PICK n \in 1..Smaller(Len(buffer), room) :
          /\ Put(Out, a \o SubSeq(buffer, 1, n))
          /\ buffer' = SubSeq(buffer, n + 1, Len(buffer))
          /\ UNCHANGED <<input, alias, info, pc, st_size, foff, header, hashed, edits>>
    BY DEF Write
  <1>3. n \in 1..Len(buffer)
    BY <1>1, <1>2 DEF Smaller
  <1> DEFINE u == SubSeq(buffer, 1, n)
             v == SubSeq(buffer, n + 1, Len(buffer))
  <1>4. u \in Seq(WriteBytes) /\ v \in Seq(WriteBytes) /\ u \o v = buffer
    <2>1. u \in Seq(WriteBytes) /\ v \in Seq(WriteBytes)
      BY <1>1, <1>3
    <2>2. 1 \in 1..(Len(buffer) + 1) /\ n \in (1 - 1)..Len(buffer) /\ Len(buffer) \in n..Len(buffer)
      BY <1>1, <1>3
    <2>3. u \o v = SubSeq(buffer, 1, Len(buffer))
      BY <1>1, <2>2, ConcatAdjacentSubSeq
    <2>4. SubSeq(buffer, 1, Len(buffer)) = buffer
      BY <1>1
    <2> QED BY <2>1, <2>3, <2>4
  <1>5. Put(Out, a \o u) /\ buffer' = v /\ Out' = Out
    BY <1>2 DEF Out
  <1> HIDE DEF u, v, a
  <1>6. a \o u \in Seq(WriteBytes) /\ (a \o u) \o v = a \o (u \o v)
    <2>1. a \in Seq(WriteBytes) /\ u \in Seq(WriteBytes) /\ v \in Seq(WriteBytes)
      BY <1>1, <1>4
    <2>2. a \o u \in Seq(WriteBytes)
      BY ONLY <2>1
    <2>3. (a \o u) \o v = a \o (u \o v)
      BY ONLY <2>1, ConcatAssociative
    <2> QED BY <2>2, <2>3
  <1>7. /\ "in" \in DOMAIN fs' /\ \A f \in DOMAIN fs' : fs'[f] \in Seq(WriteBytes)
        /\ Out \in DOMAIN fs' /\ fs'[Out] = a \o u
        /\ ~ alias => fs'["in"] = fs["in"]
    BY <1>5, <1>6, PutOut
  <1> QED BY <1>1, <1>2, <1>4, <1>5, <1>6, <1>7 DEF a

LEMMA EditIs ==
  ASSUME SignType, Edit
  PROVE  /\ ~ alias /\ pc \notin Exits /\ edits' = edits + 1 /\ Out = "out"
         /\ UNCHANGED <<input, alias, info, pc, st_size, foff, header, hashed, buffer>>
         /\ DOMAIN fs' = DOMAIN fs /\ Out' = Out /\ fs'["in"] \in Seq(FileBytes)
         /\ \A f \in DOMAIN fs : f # "in" => fs'[f] = fs[f]
  <1>1. PICK e \in Edits : Put("in", e)
    BY DEF Edit
  <1>2. e \in Seq(FileBytes) /\ "in" \in DOMAIN fs
    BY FilesAreSeqs DEF SignType
  <1>3. DOMAIN fs' = DOMAIN fs \cup {"in"} /\ fs'["in"] = e /\ \A f \in DOMAIN fs : f # "in" => fs'[f] = fs[f]
    BY <1>1, PutIs
  <1> QED BY <1>2, <1>3 DEF Edit, Out

LEMMA SignTypeInit == Init => SignType
  <1> SUFFICES ASSUME Init PROVE SignType
    OBVIOUS
  <1>1. input \in Seq(FileBytes) /\ input \in Seq(WriteBytes)
    BY FilesAreSeqs DEF Init
  <1>2. /\ "in" \in DOMAIN fs /\ fs["in"] = input
        /\ \A f \in DOMAIN fs : fs[f] \in Seq(WriteBytes)
    <2>1. CASE fs = [in |-> input]
      BY <1>1, <2>1
    <2>2. ASSUME NEW o \in Outputs, fs = [in |-> input, out |-> o]
          PROVE  /\ "in" \in DOMAIN fs /\ fs["in"] = input
                 /\ \A f \in DOMAIN fs : fs[f] \in Seq(WriteBytes)
      <3>1. o \in Seq(WriteBytes)
        BY FilesAreSeqs
      <3> QED BY <1>1, <2>2, <3>1
    <2> QED BY <2>1, <2>2 DEF Init
  <1>3. /\ pc = "open" /\ st_size = 0 /\ foff = 0 /\ pos = 0 /\ sz = Size /\ edits = 0 /\ hbuf = << >> /\ buffer = << >>
        /\ hashed = << >> /\ alias \in BOOLEAN /\ info \in Infos /\ input \in Inputs /\ Size \in Nat
    BY ZSignAssumption DEF Init
  <1> QED BY <1>1, <1>2, <1>3 DEF SignType, Beginning, Writing

LEMMA SignTypeNext == SignType /\ [Next]_vars => SignType'
  <1> SUFFICES ASSUME SignType, [Next]_vars PROVE SignType'
    OBVIOUS
  <1> USE DEF Beginning, Writing, Exits
  <1>0. alias' = alias => Out' = Out
    BY DEF Out
  <1>1. CASE Open
    <2>1. Len(fs["in"]) \in Nat
      BY <1>1 DEF Open, SignType
    <2> QED BY <1>1, <2>1 DEF Open, SignType, header
  <1>2. CASE ReadHeader
    BY <1>2, ReadHeaderType DEF SignType
  <1>3. ASSUME NEW code \in Exits, Exit(code) PROVE SignType'
    BY <1>3 DEF Exit, SignType, header
  <1>4. CASE HeaderTruncated \/ Copied \/ Stop
    BY <1>3, <1>4 DEF HeaderTruncated, Copied, Stop
  <1>5. CASE HashBlock
    <2>1. /\ pc = "hash" /\ ~ AtEof /\ fs["in"] \in Seq(FileBytes) /\ foff \in Nat
          /\ hashed \in Seq(Seq(FileBytes)) /\ BlockSize \in Nat
      BY <1>5, ZSignAssumption DEF HashBlock, SignType
    <2>2. FromFile(BlockSize) \in Seq(FileBytes) /\ Len(FromFile(BlockSize)) \in Nat
      <3>1. BlockSize \in Int
        BY <2>1
      <3> QED BY <2>1, <3>1, FromFileIs
    <2>3. hashed' \in Seq(Seq(FileBytes)) /\ foff' \in Nat /\ pc' \in {"exit1", "hash"}
      BY <1>5, <2>1, <2>2 DEF HashBlock
    <2> QED BY <1>5, <2>1, <2>3 DEF HashBlock, SignType, header
  <1>6. CASE Hashed
    BY <1>6 DEF Hashed, SignType, header
  <1>7. CASE OpenSig
    <2>1. /\ "in" \in DOMAIN fs' /\ \A f \in DOMAIN fs' : fs'[f] \in Seq(WriteBytes)
      <3>1. << >> \in Seq(WriteBytes) /\ Put(Out, << >>)
        BY <1>7 DEF OpenSig
      <3> QED BY <3>1, PutOut
    <2>2. Out' \in DOMAIN fs'
      <3>1. Out' = Out /\ Put(Out, << >>)
        BY <1>7 DEF OpenSig, Out
      <3> QED BY <3>1, PutIs
    <2> QED BY <1>7, <2>1, <2>2 DEF OpenSig, SignType, header
  <1>8. CASE CreateSig
    <2>1. CASE Exit("exit1")
      BY <1>3, <2>1
    <2>2. CASE /\ buffer' = NewHeader /\ pc' = "writeheader"
               /\ UNCHANGED <<input, alias, info, fs, st_size, foff, header, hashed, edits>>
      <3>1. NewHeader \in Seq(WriteBytes)
        BY NewHeaderIs DEF SignType
      <3>2. Out \in DOMAIN fs /\ Out' = Out /\ fs' = fs
        BY <1>0, <1>8, <2>2 DEF CreateSig, SignType
      <3> QED BY <2>2, <3>1, <3>2 DEF SignType, header
    <2> QED BY <1>8, <2>1, <2>2 DEF CreateSig, NewHeader
  <1>9. CASE Write
    <2>1. CASE Exit("exit1")
      BY <1>3, <2>1
    <2>2. CASE ~ Exit("exit1")
      BY <1>9, <2>2, WriteIs DEF SignType, header
    <2> QED BY <2>1, <2>2
  <1>10. CASE HeaderWritten
    BY <1>0, <1>10 DEF HeaderWritten, SignType, header
  <1>11. CASE CopyBlock
    <2>1. /\ pc = "copy" /\ ~ AtEof /\ fs["in"] \in Seq(WriteBytes) /\ foff \in Nat /\ BlockSize \in Nat
      BY <1>11, ZSignAssumption DEF CopyBlock, SignType
    <2>2. FromFile(BlockSize) \in Seq(WriteBytes) /\ Len(FromFile(BlockSize)) \in Nat
      <3>1. BlockSize \in Int
        BY <2>1
      <3> QED BY <2>1, <3>1, FromFileIs
    <2> QED BY <1>0, <1>11, <2>1, <2>2 DEF CopyBlock, SignType, header
  <1>12. CASE Written
    BY <1>0, <1>12 DEF Written, SignType, header
  <1>13. CASE Edit
    <2>1. "in" \in DOMAIN fs' /\ fs'["in"] \in Seq(FileBytes) /\ \A f \in DOMAIN fs' : fs'[f] \in Seq(WriteBytes)
      BY <1>13, EditIs, FilesAreSeqs DEF SignType
    <2>2. Out' \in DOMAIN fs' \/ pc' \notin Writing
      BY <1>0, <1>13, EditIs DEF SignType
    <2> QED BY <1>13, <2>1, <2>2, EditIs DEF SignType, header
  <1>14. CASE UNCHANGED vars
    BY <1>0, <1>14 DEF vars, SignType, header
  <1> QED
    BY <1>1, <1>2, <1>4, <1>5, <1>6, <1>7, <1>8, <1>9, <1>10, <1>11, <1>12, <1>13, <1>14 DEF Next, Step, Done

-----------------------------------------------------------------------------
(* The room for the hash lines.                                            *)

(* Until the last block every line stands for a whole block of the file,   *)
(* whose length is the one that it had when it was opened.                 *)
SpaceInv ==
  /\ pc \in {"open", "header"} => hashed = << >>
  /\ edits = 0 =>
       /\ pc \in {"header", "hash"} => st_size = Len(fs["in"])
       /\ Len(hashed) <= st_size \div BlockSize + 1
       /\ pc = "hash" /\ foff < Len(fs["in"]) => Len(hashed) * BlockSize <= foff

LEMMA Quotient ==
  ASSUME NEW n \in Nat, NEW k \in Nat, NEW b \in Nat \ {0}, k * b <= n
  PROVE  k <= n \div b
  <1>1. n \div b \in Nat /\ n < (n \div b + 1) * b
    OBVIOUS
  <1>2. k * b < (n \div b + 1) * b
    BY <1>1
  <1> DEFINE q == n \div b
  <1> HIDE DEF q
  <1>3. ASSUME k >= q + 1 PROVE FALSE
    <2>1. k * b >= (q + 1) * b
      BY <1>1, <1>3 DEF q
    <2> QED BY <1>1, <1>2, <2>1 DEF q
  <1> QED BY <1>1, <1>3 DEF q

LEMMA BlocksOf ==
  ASSUME NEW n \in Nat
  PROVE  n \div BlockSize \in Nat
  <1>1. BlockSize \in Nat \ {0}
    BY ZSignAssumption
  <1> QED BY ONLY <1>1, n \in Nat

LEMMA SpaceInit == Init => SpaceInv
  <1> SUFFICES ASSUME Init PROVE SpaceInv
    OBVIOUS
  <1>1. Len(hashed) = 0 /\ hashed = << >> /\ pc = "open"
    BY DEF Init
  <1>2. st_size \div BlockSize \in Nat
    BY ZSignAssumption DEF Init
  <1> QED BY <1>1, <1>2 DEF SpaceInv

LEMMA SpaceNext == SignType /\ SpaceInv /\ [Next]_vars => SpaceInv'
  <1> SUFFICES ASSUME SignType, SpaceInv, [Next]_vars PROVE SpaceInv'
    OBVIOUS
  <1>0. st_size \in Nat /\ BlockSize \in Nat \ {0} /\ Len(hashed) \in Nat /\ foff \in Nat /\ edits \in Nat
    BY ZSignAssumption DEF SignType
  <1>1. CASE Open
    <2>1. hashed' = << >> /\ hashed' = hashed /\ pc' = "header" /\ st_size' = Len(fs'["in"]) /\ st_size' \in Nat
      BY <1>1 DEF Open, SpaceInv, SignType, Beginning
    <2>2. st_size' \div BlockSize \in Nat /\ Len(hashed') = 0
      <3>1. st_size' \div BlockSize \in Nat
        BY <2>1, BlocksOf
      <3> QED BY <2>1, <3>1
    <2> QED BY <2>1, <2>2 DEF SpaceInv
  <1>2. CASE ReadHeader
    <2>1. /\ pc = "header" /\ pc' \in {"header", "exit1", "hash"} /\ UNCHANGED <<fs, st_size, hashed, edits>>
          /\ foff' \in Nat
      BY <1>2, ReadHeaderType
    <2>2. hashed = << >> /\ Len(hashed) = 0 /\ 0 * BlockSize = 0
      BY <1>0, <2>1 DEF SpaceInv
    <2> QED BY <2>1, <2>2 DEF SpaceInv
  <1>3. CASE HashBlock
    <2> DEFINE n == Len(FromFile(BlockSize))
               size == Len(fs["in"])
    <2>1. /\ pc = "hash" /\ ~ AtEof /\ fs["in"] \in Seq(FileBytes) /\ UNCHANGED <<fs, st_size, edits>>
          /\ hashed' = Append(hashed, FromFile(BlockSize)) /\ foff' = foff + n /\ pc' \in {"exit1", "hash"}
      BY <1>3 DEF HashBlock, SignType, Beginning
    <2>2. Len(hashed') = Len(hashed) + 1
      BY <2>1 DEF SignType
    <2>3. n = Smaller(BlockSize, Left) /\ foff < size /\ Left = size - foff /\ size \in Nat
      <3>1. BlockSize \in Int /\ BlockSize \in Nat
        BY <1>0
      <3> QED BY <1>0, <2>1, <3>1, FromFileIs
    <2> DEFINE lines == Len(hashed)
    <2> HIDE DEF n, size, lines
    <2>4. ASSUME edits = 0
          PROVE  /\ lines + 1 <= st_size \div BlockSize + 1
                 /\ foff + n < size => (lines + 1) * BlockSize <= foff + n
      <3>1. lines * BlockSize <= foff /\ st_size = size
        BY <2>1, <2>3, <2>4 DEF SpaceInv, size, lines
      <3>2. lines <= st_size \div BlockSize
        <4>1. lines \in Nat /\ lines * BlockSize <= st_size
          BY <1>0, <2>3, <3>1 DEF lines
        <4> QED BY <1>0, <4>1, Quotient
      <3>3. (lines + 1) * BlockSize = lines * BlockSize + BlockSize
        BY <1>0 DEF lines
      <3>4. st_size \div BlockSize \in Nat /\ lines \in Nat /\ lines * BlockSize \in Nat
        BY <1>0 DEF lines
      <3>5. lines + 1 <= st_size \div BlockSize + 1
        <4> DEFINE q == st_size \div BlockSize
        <4> HIDE DEF q
        <4> QED BY <3>2, <3>4 DEF q
      <3>6. foff + n < size => n = BlockSize
        BY <1>0, <2>3 DEF Smaller
      <3>7. foff + n < size => (lines + 1) * BlockSize <= foff + n
        <4> DEFINE p == lines * BlockSize
                   p1 == (lines + 1) * BlockSize
        <4> HIDE DEF p, p1
        <4> QED BY <1>0, <3>1, <3>3, <3>4, <3>6 DEF p, p1
      <3> QED BY <3>5, <3>7
    <2>5. /\ pc' \notin {"open", "header"} /\ fs'["in"] = fs["in"] /\ st_size' = st_size /\ edits' = edits
          /\ Len(hashed') = lines + 1 /\ foff' = foff + n
      BY <2>1, <2>2 DEF lines, n
    <2>6. pc' \in {"header", "hash"} => pc' = "hash"
      BY <2>1
    <2>7. edits = 0 => st_size = Len(fs["in"])
      BY <2>1 DEF SpaceInv
    <2> QED BY <2>4, <2>5, <2>6, <2>7 DEF SpaceInv, size
  <1>4. CASE Edit
    <2>1. edits' # 0 /\ hashed' = hashed /\ pc' = pc
      BY <1>0, <1>4, EditIs
    <2> QED BY <2>1 DEF SpaceInv
  <1>5. ASSUME pc' \notin {"open", "header", "hash"}, UNCHANGED <<st_size, hashed, edits>> PROVE SpaceInv'
    BY <1>5 DEF SpaceInv
  <1>6. CASE HeaderTruncated \/ Hashed \/ Copied \/ Stop \/ OpenSig \/ CreateSig \/ HeaderWritten \/ CopyBlock \/ Written
    <2>1. pc' \notin {"open", "header", "hash"} /\ UNCHANGED <<st_size, hashed, edits>>
      BY <1>6 DEF HeaderTruncated, Hashed, Copied, Stop, OpenSig, CreateSig, HeaderWritten, CopyBlock, Written, Exit
    <2> QED BY <1>5, <2>1
  <1>7. CASE Write
    <2>1. pc' \notin {"open", "header", "hash"} /\ UNCHANGED <<st_size, hashed, edits>>
      BY <1>7, WriteIs DEF Exit
    <2> QED BY <1>5, <2>1
  <1>8. CASE UNCHANGED vars
    BY <1>8 DEF vars, SpaceInv
  <1> QED
    BY <1>1, <1>2, <1>3, <1>4, <1>6, <1>7, <1>8 DEF Next, Step, Done

LEMMA RoundTripSigns == RoundTripNext => [Next]_vars
  BY DEF RoundTripNext, SignStep, Send, VerifyStep, RoundTripDone, Next

(* As long as nobody edits the file, and the lines before the hashes are   *)
(* shorter than the extra 1024 bytes, there is room for all hash lines and *)
(* for the 0 behind them, whether the file ends in a whole block or not    *)
(* (zsign).                                                                *)
THEOREM SpaceAlwaysSuffices == RoundTripSpec => []SpaceSuffices
  <1>1. SignType /\ SpaceInv => SpaceSuffices
    <2> SUFFICES ASSUME SignType, SpaceInv, edits = 0, info < Extra PROVE MsgEnd(Len(hashed)) < Space
      BY DEF SpaceSuffices
    <2> DEFINE n == Len(hashed)
               m == st_size \div BlockSize + 1
               first == Smaller(info, Space - 1)
    <2>1. n \in Nat /\ m \in Nat /\ n <= m /\ LineLen \in Nat
      <3>1. n \in Nat /\ m \in Nat
        <4>1. hashed \in Seq(Seq(FileBytes)) /\ st_size \in Nat
          BY DEF SignType
        <4>2. st_size \div BlockSize \in Nat
          BY <4>1, BlocksOf
        <4> QED BY <4>1, <4>2
      <3> QED BY <3>1, ZSignAssumption DEF SpaceInv
    <2>2. Space = m * LineLen + Extra /\ MsgEnd(n) = first + n * LineLen
      BY DEF Space, MsgEnd
    <2>3. info \in Nat /\ Extra \in Nat
      BY ZSignAssumption DEF SignType
    <2> HIDE DEF n, m
    <2>4. n * LineLen <= m * LineLen /\ n * LineLen \in Nat /\ m * LineLen \in Nat
      BY <2>1
    <2>5. first = info
      BY <2>2, <2>3, <2>4 DEF Smaller
    <2> HIDE DEF first
    <2> QED BY <2>2, <2>3, <2>4, <2>5 DEF n
  <1>2. RoundTripInit => SignType /\ SpaceInv
    BY SignTypeInit, SpaceInit DEF RoundTripInit
  <1>3. SignType /\ SpaceInv /\ [RoundTripNext]_<<vars, vvars>> => (SignType /\ SpaceInv)'
    <2>1. [RoundTripNext]_<<vars, vvars>> => [Next]_vars
      BY RoundTripSigns
    <2> QED BY <2>1, SignTypeNext, SpaceNext
  <1> QED BY <1>1, <1>2, <1>3, PTL DEF RoundTripSpec

-----------------------------------------------------------------------------
(* The verifier at the other end of the pipe.                              *)

LEMMA SameWords ==
  ASSUME NEW u, NEW v
  PROVE  /\ V!Smaller(u, v) = VP!Smaller(u, v) /\ V!Comment(u) = VP!Comment(u) /\ Comment(u) = VP!Comment(u)
         /\ V!FixedHeader(u) = VP!FixedHeader(u) /\ FixedHeader(u) = VP!FixedHeader(u) /\ V!Hash(u) = VP!Hash(u)
         /\ V!Archive(u) = VP!Archive(u)
  <1>1. V!Smaller(u, v) = VP!Smaller(u, v)
    BY DEF V!Smaller, VP!Smaller
  <1>2. V!Comment(u) = VP!Comment(u) /\ Comment(u) = VP!Comment(u) /\ V!Hash(u) = VP!Hash(u)
    BY DEF V!Comment, VP!Comment, Comment, V!SigByte, VP!SigByte, SigByte, V!Hash, VP!Hash, Hash
  <1>3. V!FixedHeader(u) = VP!FixedHeader(u) /\ FixedHeader(u) = VP!FixedHeader(u)
    BY DEF V!FixedHeader, VP!FixedHeader, FixedHeader, V!FlagByte, VP!FlagByte, FlagByte
  <1>4. V!FixedHeader({"COMMENT"}) = VP!FixedHeader({"COMMENT"})
    BY DEF V!FixedHeader, VP!FixedHeader, V!FlagByte, VP!FlagByte
  <1>5. V!FlattenSeq(u.blocks) = VP!FlattenSeq(u.blocks)
    BY DEF V!FlattenSeq, VP!FlattenSeq
  <1>6. V!Archive(u) = VP!Archive(u)
    BY <1>2, <1>4, <1>5 DEF V!Archive, VP!Archive, V!Signed, VP!Signed
  <1> QED BY <1>1, <1>2, <1>3, <1>6

LEMMA SameStep == V!Step => VP!Step
  <1> USE DEF V!header, VP!header, V!copying, VP!copying, V!Exit, VP!Exit
  <1>1. V!ReadHeader => VP!ReadHeader
    <2> SUFFICES ASSUME V!ReadHeader PROVE VP!ReadHeader
      OBVIOUS
    <2> DEFINE b(n) == vhbuf \o SubSeq(sent, voff + 1, voff + n)
               Scan(n, bad, h) ==
                 CASE Len(b(n)) < HeaderLen -> UNCHANGED <<vpc, vstate, vpos, vcomment>>
                   [] Len(b(n)) >= HeaderLen /\ bad -> vpc' = "exit1" /\ UNCHANGED <<vstate, vpos, vcomment>>
                   [] OTHER ->
                        /\ vstate' = h.state /\ vpos' = h.pos
                        /\ vpc' = IF h.state = 3 THEN "signature" ELSE "header"
                        /\ vcomment' = IF h.state = 3 THEN SubSeq(b(n), h.from + 1, h.pos - 1) ELSE << >>
    <2>1. PICK n \in 1..V!Smaller(vsz' - Len(vhbuf), Len(sent) - voff) :
            /\ voff' = voff + n /\ vhbuf' = b(n)
            /\ Scan(n, V!BadHeader(b(n)), V!Parsed(b(n), vstate, vpos))
      BY DEF V!ReadHeader
    <2>2. /\ V!BadHeader(b(n)) = VP!BadHeader(b(n))
          /\ V!Parsed(b(n), vstate, vpos) = VP!Parsed(b(n), vstate, vpos)
      <3>1. V!BadHeader(b(n)) = VP!BadHeader(b(n))
        BY DEF V!BadHeader, VP!BadHeader, V!FlagByte, VP!FlagByte
      <3> QED BY <3>1, SameParsed
    <2>3. n \in 1..VP!Smaller(vsz' - Len(vhbuf), Len(sent) - voff)
      BY <2>1, SameWords
    <2>4. voff' = voff + n /\ vhbuf' = b(n) /\ Scan(n, VP!BadHeader(b(n)), VP!Parsed(b(n), vstate, vpos))
      <3> HIDE DEF Scan, b
      <3> QED BY <2>1, <2>2
    <2>5. /\ vpc = "header" /\ vsz' = IF Len(vhbuf) = vsz THEN 2 * vsz ELSE vsz
          /\ UNCHANGED <<sent, vresidual, vbuffer, vwrote, vsha, vout>>
      BY DEF V!ReadHeader
    <2> QED BY <2>3, <2>4, <2>5 DEF VP!ReadHeader
  <1>2. V!HeaderTruncated => VP!HeaderTruncated
    BY DEF V!HeaderTruncated, VP!HeaderTruncated
  <1>3. V!VerifySignature => VP!VerifySignature
    BY SameFlags, SameWords DEF V!VerifySignature, VP!VerifySignature, V!Verified, VP!Verified
  <1>4. V!OpenOut => VP!OpenOut
    BY DEF V!OpenOut, VP!OpenOut
  <1>5. V!WriteHeader => VP!WriteHeader
    BY SameWords DEF V!WriteHeader, VP!WriteHeader
  <1>6. V!SignedSize = VP!SignedSize /\ V!Hashes = VP!Hashes
    BY DEF V!SignedSize, VP!SignedSize, V!Hashes, VP!Hashes
  <1>7. V!TakeResidual => VP!TakeResidual
    BY <1>6, SameWords DEF V!TakeResidual, VP!TakeResidual
  <1>8. V!Fill => VP!Fill
    BY <1>6, SameWords DEF V!Fill, VP!Fill
  <1>9. V!Filled => VP!Filled
    BY <1>6 DEF V!Filled, VP!Filled
  <1>10. V!Check => VP!Check
    BY <1>6, SameWords DEF V!Check, VP!Check
  <1>11. V!Write => VP!Write
    BY DEF V!Write, VP!Write
  <1>12. V!Written => VP!Written
    BY <1>6 DEF V!Written, VP!Written
  <1>13. V!End => VP!End
    BY <1>6 DEF V!End, VP!End
  <1> QED BY <1>1, <1>2, <1>3, <1>4, <1>5, <1>7, <1>8, <1>9, <1>10, <1>11, <1>12, <1>13 DEF V!Step, VP!Step

(* What zsign leaves in the output file.                                   *)
Old(c) == c \in (IF alias THEN {input} ELSE Outputs)
Begins(c) == \E rest \in Seq(WriteBytes) : c \o rest = NewHeader \/ c = NewHeader \o rest
Follows(c) == \E rest \in Seq(WriteBytes) : c = NewHeader \o rest

(* The old file, or as much as there is of the new header, or all of it    *)
(* and something more.                                                     *)
LeftInv ==
  /\ pc \in Beginning /\ Out \in DOMAIN fs => Old(fs[Out])
  /\ pc = "createsig" => fs[Out] = << >>
  /\ pc = "writeheader" => fs[Out] \o buffer = NewHeader
  /\ pc \in {"copy", "write"} => Follows(fs[Out])
  /\ pc \in Exits /\ Out \in DOMAIN fs => Old(fs[Out]) \/ Begins(fs[Out])

LEMMA NothingBegins ==
  ASSUME hashed \in Seq(Seq(FileBytes))
  PROVE  Begins(<< >>)
  <1>1. NewHeader \in Seq(WriteBytes)
    BY NewHeaderIs
  <1> DEFINE h == NewHeader
  <1> HIDE DEF h
  <1>2. << >> \o h = h
    BY <1>1 DEF h
  <1> QED BY <1>1, <1>2 DEF Begins, h

LEMMA FollowsMore ==
  ASSUME hashed \in Seq(Seq(FileBytes)), NEW c, Follows(c), NEW more \in Seq(WriteBytes)
  PROVE  Follows(c \o more)
  <1>1. PICK rest \in Seq(WriteBytes) : c = NewHeader \o rest
    BY DEF Follows
  <1>2. NewHeader \in Seq(WriteBytes)
    BY NewHeaderIs
  <1> DEFINE h == NewHeader
  <1> HIDE DEF h
  <1>3. (h \o rest) \o more = h \o (rest \o more) /\ rest \o more \in Seq(WriteBytes)
    <2>1. h \in Seq(WriteBytes) /\ rest \in Seq(WriteBytes) /\ more \in Seq(WriteBytes)
      BY <1>2 DEF h
    <2> QED BY ONLY <2>1, ConcatAssociative
  <1> QED BY <1>1, <1>3 DEF Follows, h

LEMMA LeftInit == Init => LeftInv
  <1> SUFFICES ASSUME Init, Out \in DOMAIN fs PROVE Old(fs[Out])
    BY DEF Init, LeftInv, Exits
  <1>1. CASE alias
    BY <1>1 DEF Init, Out, Old
  <1>2. CASE ~ alias
    <2>1. PICK o \in Outputs : fs = [in |-> input, out |-> o]
      BY <1>2 DEF Init, Out
    <2> QED BY <1>2, <2>1 DEF Out, Old
  <1> QED BY <1>1, <1>2

(* Wherever the program ends, the file is left as it is.                   *)
LEMMA ExitLeft ==
  ASSUME SignType, LeftInv, NEW code \in Exits, Exit(code)
  PROVE  LeftInv'
  <1>1. pc' = code /\ UNCHANGED <<input, alias, fs, hashed, buffer>>
    BY DEF Exit
  <1>2. Out' = Out /\ NewHeader' = NewHeader /\ (Old(fs[Out]) <=> Old(fs[Out])')
        /\ (Begins(fs[Out]) <=> Begins(fs[Out])')
    BY <1>1 DEF Out, NewHeader, Signing, Old, Begins
  <1>3. Out \in DOMAIN fs => Old(fs[Out]) \/ Begins(fs[Out])
    <2>1. CASE pc \in Beginning \cup Exits
      BY <2>1 DEF LeftInv
    <2>2. CASE pc = "createsig"
      BY <2>2, NothingBegins DEF LeftInv, SignType
    <2>3. CASE pc = "writeheader"
      BY <2>3 DEF LeftInv, SignType, Begins
    <2>4. CASE pc \in {"copy", "write"}
      BY <2>4 DEF LeftInv, Begins, Follows
    <2> QED BY <2>1, <2>2, <2>3, <2>4 DEF SignType, Writing
  <1> QED BY <1>1, <1>2, <1>3 DEF LeftInv, Beginning, Exits

LEMMA LeftNext == SignType /\ LeftInv /\ [Next]_vars => LeftInv'
  <1> SUFFICES ASSUME SignType, LeftInv, [Next]_vars PROVE LeftInv'
    OBVIOUS
  <1> USE DEF Beginning, Writing, Exits
  <1>0. /\ alias' = alias => Out' = Out
        /\ UNCHANGED <<alias, input>> => \A c : Old(c) <=> Old(c)'
        /\ hashed' = hashed => NewHeader' = NewHeader /\ \A c : Follows(c) <=> Follows(c)'
    <2>1. alias' = alias => Out' = Out
      BY DEF Out
    <2>2. UNCHANGED <<alias, input>> => \A c : Old(c) <=> Old(c)'
      BY DEF Old
    <2>3. hashed' = hashed => NewHeader' = NewHeader
      BY DEF NewHeader, Signing
    <2>4. NewHeader' = NewHeader => \A c : Follows(c) <=> Follows(c)'
      BY DEF Follows
    <2> QED BY <2>1, <2>2, <2>3, <2>4
  <1>1. ASSUME pc \in Beginning, pc' \in Beginning, UNCHANGED <<input, alias, fs>> PROVE LeftInv'
    BY <1>0, <1>1 DEF LeftInv
  <1>2. CASE HeaderTruncated \/ Copied \/ Stop
    BY <1>2, ExitLeft DEF HeaderTruncated, Copied, Stop
  <1>3. CASE Open \/ Hashed
    BY <1>1, <1>3 DEF Open, Hashed
  <1>4. ASSUME pc \in Beginning, pc' = "exit1", UNCHANGED <<input, alias, fs>> PROVE LeftInv'
    <2>1. Out' = Out /\ (Old(fs[Out]) <=> Old(fs[Out])')
      BY <1>0, <1>4
    <2> QED BY <1>4, <2>1 DEF LeftInv
  <1>5. CASE ReadHeader
    BY <1>1, <1>4, <1>5, ReadHeaderType
  <1>6. CASE HashBlock
    BY <1>1, <1>4, <1>6 DEF HashBlock
  <1>7. CASE OpenSig
    <2>1. fs'[Out'] = << >> /\ pc' = "createsig"
      <3>1. Out' = Out /\ Put(Out, << >>) /\ pc' = "createsig"
        BY <1>0, <1>7 DEF OpenSig
      <3> QED BY <3>1, PutIs
    <2> QED BY <2>1 DEF LeftInv
  <1>8. CASE CreateSig
    <2>1. CASE Exit("exit1")
      BY <2>1, ExitLeft
    <2>2. CASE buffer' = NewHeader /\ pc' = "writeheader" /\ UNCHANGED <<alias, fs, hashed>>
      <3>1. NewHeader \in Seq(WriteBytes)
        BY NewHeaderIs DEF SignType
      <3>2. fs'[Out'] = << >> /\ NewHeader' = NewHeader
        BY <1>0, <1>8, <2>2 DEF CreateSig, LeftInv
      <3> DEFINE h == NewHeader
      <3> HIDE DEF h
      <3>3. << >> \o h = h
        BY <3>1 DEF h
      <3> QED BY <2>2, <3>2, <3>3 DEF LeftInv, h
    <2> QED BY <1>8, <2>1, <2>2 DEF CreateSig, NewHeader
  <1>9. CASE Write
    <2>1. CASE Exit("exit1")
      BY <2>1, ExitLeft
    <2>2. CASE ~ Exit("exit1")
      <3>1. /\ pc \in {"writeheader", "write"} /\ pc' = pc /\ UNCHANGED <<alias, hashed>>
            /\ fs'[Out'] \o buffer' = fs[Out] \o buffer
        BY <1>9, <2>2, WriteIs
      <3>2. CASE pc = "writeheader"
        BY <1>0, <3>1, <3>2 DEF LeftInv
      <3>3. CASE pc = "write"
        <4>1. \E more \in Seq(WriteBytes) : fs'[Out'] = fs[Out] \o more
          BY <1>9, <2>2, WriteIs
        <4>2. Follows(fs'[Out'])
          BY <1>9, <3>3, <4>1, FollowsMore DEF LeftInv, SignType
        <4> QED BY <1>0, <3>1, <3>3, <4>2 DEF LeftInv
      <3> QED BY <3>1, <3>2, <3>3
    <2> QED BY <2>1, <2>2
  <1>10. CASE HeaderWritten
    <2>1. fs[Out] \o << >> = NewHeader /\ fs[Out] \in Seq(WriteBytes)
      BY <1>10 DEF HeaderWritten, LeftInv, SignType
    <2>2. fs[Out] = NewHeader
      BY <2>1
    <2>3. NewHeader \o << >> = NewHeader
      BY <2>1, <2>2
    <2>4. Follows(fs[Out])
      <3>1. << >> \in Seq(WriteBytes)
        OBVIOUS
      <3> QED BY <2>2, <2>3, <3>1 DEF Follows
    <2> QED BY <1>0, <1>10, <2>4 DEF HeaderWritten, LeftInv
  <1>11. CASE CopyBlock \/ Written
    <2>1. pc \in {"copy", "write"} /\ pc' \in {"copy", "write"} /\ UNCHANGED <<alias, fs, hashed>>
      BY <1>11 DEF CopyBlock, Written
    <2> QED BY <1>0, <2>1 DEF LeftInv
  <1>12. CASE Edit
    <2>1. /\ pc' = pc /\ pc \notin Exits /\ Out' = Out /\ Out # "in" /\ UNCHANGED <<input, alias, hashed, buffer>>
          /\ DOMAIN fs' = DOMAIN fs /\ \A f \in DOMAIN fs : f # "in" => fs'[f] = fs[f]
      BY <1>12, EditIs
    <2>2. Out \in DOMAIN fs => fs'[Out'] = fs[Out]
      BY <2>1
    <2> QED BY <1>0, <2>1, <2>2 DEF LeftInv, SignType
  <1>13. CASE UNCHANGED vars
    <2>1. UNCHANGED <<pc, input, alias, fs, hashed, buffer>>
      BY <1>13 DEF vars
    <2>2. Begins(fs[Out]) <=> Begins(fs[Out])'
      BY <1>0, <2>1 DEF Begins
    <2> QED BY <1>0, <2>1, <2>2 DEF LeftInv
  <1> QED
    BY <1>2, <1>3, <1>5, <1>6, <1>7, <1>8, <1>9, <1>10, <1>11, <1>12, <1>13 DEF Next, Step, Done

(* The verifier begins after the signer has ended, with what that left.    *)
SentInv ==
  /\ vpc = "idle" =>
       /\ voff = 0 /\ vhbuf = << >> /\ vsz = Size /\ vstate = 0 /\ vpos = 0 /\ vcomment = << >>
       /\ vresidual = 0 /\ vbuffer = << >> /\ vwrote = 0 /\ vsha = 0 /\ vout = V!NoFile
  /\ vpc # "idle" => pc \in Exits /\ Out \in DOMAIN fs /\ sent = fs[Out]

LEMMA EndedStays == pc \in Exits => ~ Step /\ ~ Stop /\ ~ Edit
  BY DEF Exits, Step, Stop, Edit, Open, ReadHeader, HeaderTruncated, HashBlock, Hashed, OpenSig, CreateSig, Write,
         HeaderWritten, CopyBlock, Written, Copied

LEMMA StreamStays == V!Step => sent' = sent /\ vpc' # "idle"
  <1> USE DEF V!Exit
  <1> QED
    BY DEF V!Step, V!ReadHeader, V!HeaderTruncated, V!VerifySignature, V!OpenOut, V!WriteHeader, V!TakeResidual,
           V!Fill, V!Filled, V!Check, V!Write, V!Written, V!End

LEMMA SentInit == RoundTripInit => SentInv
  BY DEF RoundTripInit, SentInv

LEMMA SentNext == SentInv /\ [RoundTripNext]_<<vars, vvars>> => SentInv'
  <1> SUFFICES ASSUME SentInv, [RoundTripNext]_<<vars, vvars>> PROVE SentInv'
    OBVIOUS
  <1>1. CASE SignStep \/ ((Stop \/ Edit) /\ UNCHANGED vvars)
    <2>1. vpc = "idle" /\ UNCHANGED vvars
      BY <1>1, EndedStays DEF SignStep, SentInv
    <2> QED BY <2>1 DEF SentInv, vvars
  <1>2. CASE Send
    <2>1. pc \in Exits /\ Out \in DOMAIN fs /\ sent' = fs[Out] /\ vpc' = "header" /\ UNCHANGED <<pc, alias, fs>>
      BY <1>2 DEF Send, vars
    <2>2. Out' = Out
      BY <2>1 DEF Out
    <2> QED BY <2>1, <2>2 DEF SentInv
  <1>3. CASE VerifyStep
    <2>1. vpc # "idle" /\ vpc' # "idle" /\ sent' = sent /\ UNCHANGED <<pc, alias, fs>>
      BY <1>3, StreamStays DEF VerifyStep, vars
    <2>2. Out' = Out
      BY <2>1 DEF Out
    <2> QED BY <2>1, <2>2 DEF SentInv
  <1>4. CASE UNCHANGED <<vars, vvars>>
    <2>1. Out' = Out
      BY <1>4 DEF Out, vars
    <2> QED BY <1>4, <2>1 DEF SentInv, vars, vvars
  <1> QED BY <1>1, <1>2, <1>3, <1>4 DEF RoundTripNext, RoundTripDone

VerifierInv == VP!HeaderInv /\ VP!OutInv
StartedInv == vpc # "idle" => VerifierInv

LEMMA VerifierInit == VP!Init => VerifierInv
  BY VP!HeaderInit, VP!OutInit, VerifierAssumed DEF VerifierInv

LEMMA VerifierNext == VerifierInv /\ [VP!Next]_(VP!vars) => VerifierInv'
  BY VP!HeaderNext, VP!OutNext, VerifierAssumed DEF VerifierInv

LEMMA StartedNext ==
  SignType /\ SentInv /\ StartedInv /\ [RoundTripNext]_<<vars, vvars>> => StartedInv' \/ VP!Init'
  <1> SUFFICES ASSUME SignType, SentInv, StartedInv, [RoundTripNext]_<<vars, vvars>>
               PROVE  StartedInv' \/ VP!Init'
    OBVIOUS
  <1>1. CASE UNCHANGED vvars
    <2>1. UNCHANGED VP!vars /\ vpc' = vpc
      BY <1>1 DEF vvars, VP!vars
    <2> QED BY <2>1, VerifierNext DEF StartedInv
  <1>2. CASE Send
    <2>1. sent' \in Seq(WriteBytes)
      BY <1>2 DEF Send, SignType
    <2>2. /\ vpc' = "header" /\ voff' = 0 /\ vhbuf' = << >> /\ vsz' = Size /\ vstate' = 0 /\ vpos' = 0
          /\ vcomment' = << >> /\ vresidual' = 0 /\ vbuffer' = << >> /\ vwrote' = 0 /\ vsha' = 0 /\ vout' = V!NoFile
      BY <1>2 DEF Send, SentInv
    <2>3. V!NoFile = VP!NoFile
      BY DEF V!NoFile, VP!NoFile
    <2> QED BY <2>1, <2>2, <2>3 DEF VP!Init
  <1>3. CASE VerifyStep
    <2>1. vpc # "idle" /\ VP!Next
      BY <1>3, SameStep DEF VerifyStep, VP!Next
    <2> QED BY <2>1, VerifierNext DEF StartedInv
  <1> QED BY <1>1, <1>2, <1>3 DEF RoundTripNext, SignStep, RoundTripDone

(* What was accepted, and was not there before, begins with the new header,*)
(* and the comment of that names the signing.                              *)
LEMMA AcceptedNew ==
  ASSUME SignType, VerifierInv, vpc = "exit0", sent \in Seq(WriteBytes), Begins(sent)
  PROVE  VP!Signer = Signing
  <1>1. PICK from \in Nat : /\ VP!After(vhbuf, 3, vpos, from)
                            /\ vcomment = SubSeq(vhbuf, from + 1, vpos - 1)
    BY DEF VerifierInv, VP!HeaderInv, VP!Place
  <1>2. /\ vhbuf \in Seq(VP!Bytes) /\ sent \in Seq(VP!Bytes) /\ vhbuf = SubSeq(sent, 1, Len(vhbuf))
        /\ Len(vhbuf) <= Len(sent) /\ Len(vhbuf) >= HeaderLen /\ vpos \in 0..Len(vhbuf)
    BY DEF VerifierInv, VP!HeaderInv, VP!HeaderType, VP!Place
  <1>3. VP!Signer \in Signings /\ vcomment = VP!Comment(VP!Signer)
    BY VP!AcceptedIs, VerifierAssumed DEF VerifierInv
  <1>4. ASSUME NEW k \in 1..Len(NewHeader), k <= Len(sent) PROVE sent[k] = NewHeader[k]
    <2> DEFINE h == NewHeader
    <2>1. h \in Seq(WriteBytes)
      BY NewHeaderIs DEF SignType
    <2>2. sent \in Seq(WriteBytes)
      OBVIOUS
    <2> HIDE DEF h
    <2>3. PICK rest \in Seq(WriteBytes) : sent \o rest = h \/ sent = h \o rest
      BY DEF Begins, h
    <2>4. /\ \A i \in 1..Len(sent) : (sent \o rest)[i] = sent[i]
          /\ \A i \in 1..Len(h) : (h \o rest)[i] = h[i]
      BY <2>1, <2>2, TwoParts
    <2>5. k \in 1..Len(sent) /\ k \in 1..Len(h)
      BY <1>2, <1>4 DEF h
    <2>6. CASE sent \o rest = h
      BY <2>4, <2>5, <2>6 DEF h
    <2>7. CASE sent = h \o rest
      BY <2>4, <2>5, <2>7 DEF h
    <2> QED BY <2>3, <2>6, <2>7
  <1>5. /\ HeaderLen \in Nat /\ HeaderLen >= 2 /\ Len(NewHeader) > HeaderLen /\ Len(NewHeader) \in Nat
        /\ NewHeader[2] = FlagByte({"COMMENT"}) /\ NewHeader[HeaderLen + 1] = SigByte(Signing)
    <2>1. NewHeader \in Seq(WriteBytes) => Len(NewHeader) \in Nat
      <3> DEFINE h == NewHeader
      <3> HIDE DEF h
      <3>1. h \in Seq(WriteBytes) => Len(h) \in Nat
        OBVIOUS
      <3> QED BY <3>1 DEF h
    <2> QED BY <2>1, NewHeaderIs, HeaderAssumption DEF SignType
  <1>6. ASSUME NEW k \in 1..Len(vhbuf) PROVE vhbuf[k] = sent[k] /\ k <= Len(sent)
    <2>1. sent \in Seq(VP!Bytes) /\ Len(vhbuf) \in 0..Len(sent)
      BY <1>2
    <2> DEFINE n == Len(vhbuf)
    <2> HIDE DEF n
    <2>2. SubSeq(sent, 1, n)[k] = sent[k]
      BY <2>1 DEF n
    <2> QED BY <1>2, <2>1, <2>2 DEF n
  <1>7. vhbuf[2] = FlagByte({"COMMENT"})
    <2>1. 2 \in 1..Len(vhbuf) /\ 2 \in 1..Len(NewHeader)
      BY <1>2, <1>5
    <2> QED BY <1>4, <1>5, <1>6, <2>1
  <1>8. VP!HasComment(vhbuf) /\ ~ VP!HasName(vhbuf)
    BY <1>7 DEF VP!HasComment, VP!HasName, FlagByte
  <1>9. from = HeaderLen /\ vpos \in (HeaderLen + 1)..Len(vhbuf)
    BY <1>1, <1>8 DEF VP!After, VP!NameEnd, VP!CommentEnd, VP!FirstNul
  <1>10. Len(vcomment) >= 1 /\ vcomment[1] = VP!SigByte(VP!Signer)
    BY <1>3, VP!CommentFirst, VerifierAssumed
  <1>11. vpos - 1 >= HeaderLen + 1 /\ vcomment[1] = vhbuf[HeaderLen + 1]
    <2> DEFINE m == HeaderLen + 1
    <2>1. m \in Nat /\ m >= 1 /\ vpos \in Nat /\ vpos - 1 <= Len(vhbuf) /\ Len(vhbuf) \in Nat
      BY <1>2, <1>5, <1>9
    <2>2. vcomment = SubSeq(vhbuf, m, vpos - 1)
      BY <1>1, <1>9
    <2> HIDE DEF m
    <2>3. vpos - 1 >= m
      BY <1>2, <1>10, <2>1, <2>2
    <2>4. SubSeq(vhbuf, m, vpos - 1)[1] = vhbuf[m]
      BY <1>2, <2>1, <2>3
    <2> QED BY <2>2, <2>3, <2>4 DEF m
  <1>12. vhbuf[HeaderLen + 1] = SigByte(Signing)
    <2>1. HeaderLen + 1 \in 1..Len(vhbuf) /\ HeaderLen + 1 \in 1..Len(NewHeader)
      BY <1>5, <1>9
    <2> QED BY <1>4, <1>5, <1>6, <2>1
  <1> QED BY <1>10, <1>11, <1>12 DEF SigByte, VP!SigByte

(* What is accepted is what was signed here, or what was signed before and *)
(* not touched: no beginning of an archive that the signer did not finish, *)
(* and none whose file changed between the two passes (zsign, zverify).    *)
THEOREM AcceptedAlwaysSigned == RoundTripSpec => []AcceptedWasSigned
  <1> DEFINE Inv == SignType /\ LeftInv /\ SentInv
  <1>1. Inv /\ StartedInv => AcceptedWasSigned
    <2> SUFFICES ASSUME Inv, StartedInv, vpc = "exit0"
                 PROVE  \/ Signing \in Signings /\ vout = V!Archive(Signing)
                        \/ /\ sent \in (IF alias THEN {input} ELSE Outputs)
                           /\ \E s \in Signings : vout = V!Archive(s)
      BY DEF AcceptedWasSigned
    <2>1. VerifierInv /\ pc \in Exits /\ Out \in DOMAIN fs /\ sent = fs[Out]
      BY DEF StartedInv, SentInv
    <2>2. VP!Signer \in Signings /\ vout = VP!Archive(VP!Signer)
      BY <2>1, VP!AcceptedIs, VerifierAssumed DEF VerifierInv
    <2>3. vout = V!Archive(VP!Signer)
      BY <2>2, SameWords
    <2>4. CASE Old(sent)
      BY <2>2, <2>3, <2>4 DEF Old
    <2>5. CASE Begins(sent)
      <3>1. VP!Signer = Signing
        <4>1. sent \in Seq(WriteBytes)
          BY <2>1 DEF SignType
        <4> QED BY <2>1, <2>5, <4>1, AcceptedNew
      <3> QED BY <2>2, <2>3, <3>1
    <2> QED BY <2>1, <2>4, <2>5 DEF LeftInv
  <1>2. RoundTripInit => Inv /\ StartedInv
    <2>1. RoundTripInit => StartedInv
      BY DEF RoundTripInit, StartedInv
    <2> QED BY <2>1, SignTypeInit, LeftInit, SentInit DEF RoundTripInit
  <1>3. Inv /\ [RoundTripNext]_<<vars, vvars>> => Inv'
    <2>1. [RoundTripNext]_<<vars, vvars>> => [Next]_vars
      BY RoundTripSigns
    <2> QED BY <2>1, SignTypeNext, LeftNext, SentNext
  <1>4. Inv /\ StartedInv /\ [RoundTripNext]_<<vars, vvars>> => StartedInv' \/ VP!Init'
    BY StartedNext
  <1>5. VP!Init => VerifierInv
    BY VerifierInit
  <1>6. VerifierInv => StartedInv
    BY DEF StartedInv
  <1> HIDE DEF Inv
  <1> QED BY <1>1, <1>2, <1>3, <1>4, <1>5, <1>6, PTL DEF RoundTripSpec

-----------------------------------------------------------------------------
(* A finished archive is the one of the payload.                           *)

Unedited == edits = 0 /\ ~ alias
PastHeader == {"hash", "opensig", "exit0"} \cup Writing

(* The header as far as it was read, and its end once that was found.      *)
FoundInv ==
  Unedited =>
    /\ fs["in"] = input
    /\ pc \in {"open", "header"} =>
         /\ foff = Len(hbuf) /\ Len(hbuf) <= Len(input) /\ hbuf = SubSeq(input, 1, Len(hbuf))
         /\ Len(hbuf) <= sz /\ sz >= 1
         /\ state \in {0, 1, 2}
         /\ state = 0 => pos = 0
         /\ state # 0 => /\ Len(hbuf) >= HeaderLen /\ ~ VP!BadHeader(hbuf)
                         /\ \E from \in Nat : VP!After(hbuf, state, pos, from)
    /\ pc \in PastHeader => pos = Parsed(input, 0, 0).pos /\ pos \in 0..Len(input)

(* Parsing all of the file ends where parsing its beginning ended.         *)
LEMMA ParsedOnce ==
  ASSUME NEW b, NEW c, Len(b) \in Nat, Len(c) \in Nat, Len(b) <= Len(c), \A k \in 1..Len(b) : b[k] = c[k],
         HeaderLen <= Len(b), NEW p \in Nat, NEW from \in Nat, VP!After(b, 3, p, from)
  PROVE  Parsed(c, 0, 0).pos = p
  <1> DEFINE h == VP!Parsed(c, 0, 0)
  <1>0. HeaderLen \in Nat /\ HeaderLen >= 2
    BY HeaderAssumption
  <1>1. /\ VP!After(c, h.state, h.pos, h.from)
        /\ h.pos \in HeaderLen..Len(c) /\ h.from \in Nat
    <2>1. VP!Before(c, 0, 0) /\ Len(c) >= HeaderLen
      BY <1>0 DEF VP!Before
    <2> QED BY <2>1, VP!ParsedIs, VerifierAssumed
  <1>2. Parsed(c, 0, 0) = h
    BY SameParsed
  <1> HIDE DEF h
  <1>3. b[2] = c[2]
    BY <1>0
  <1>4. (VP!HasName(b) <=> VP!HasName(c)) /\ (VP!HasComment(b) <=> VP!HasComment(c))
    BY <1>3 DEF VP!HasName, VP!HasComment
  <1>5. VP!NameEnd(b, from) /\ VP!CommentEnd(b, from, p)
    BY DEF VP!After
  <1>6. VP!NameEnd(c, from) /\ from \in HeaderLen..Len(b)
    BY <1>0, <1>4, <1>5 DEF VP!NameEnd, VP!FirstNul
  <1>7. VP!CommentEnd(c, from, p) /\ p \in from..Len(b)
    BY <1>4, <1>5, <1>6 DEF VP!CommentEnd, VP!FirstNul
  <1>8. ASSUME NEW q, VP!NameEnd(c, q) PROVE q = from
    BY <1>0, <1>6, <1>8 DEF VP!NameEnd, VP!FirstNul
  <1>9. CASE h.state = 1
    BY <1>1, <1>6, <1>9 DEF VP!After, VP!NoNul, VP!NameEnd, VP!FirstNul
  <1>10. CASE h.state = 2
    <2>1. VP!NameEnd(c, h.pos) /\ VP!HasComment(c) /\ VP!NoNul(c, h.pos)
      BY <1>1, <1>10 DEF VP!After
    <2>2. h.pos = from
      BY <1>8, <2>1
    <2> QED BY <1>7, <2>1, <2>2 DEF VP!NoNul, VP!CommentEnd, VP!FirstNul
  <1>11. CASE h.state = 3
    <2>1. VP!NameEnd(c, h.from) /\ VP!CommentEnd(c, h.from, h.pos)
      BY <1>1, <1>11 DEF VP!After
    <2>2. h.from = from
      BY <1>8, <2>1
    <2>3. h.pos = p
      BY <1>1, <1>6, <1>7, <2>1, <2>2 DEF VP!CommentEnd, VP!FirstNul
    <2> QED BY <1>2, <2>3
  <1> QED BY <1>1, <1>9, <1>10, <1>11 DEF VP!After

(* A read of the header: what was read is the beginning of the file still, *)
(* and its end, once found, is the end that parsing the file finds.        *)
LEMMA ReadFinds ==
  ASSUME SignType, FoundInv, Unedited, ReadHeader
  PROVE  FoundInv'
  <1> DEFINE n == sz' - Len(hbuf)
             b == hbuf \o FromFile(n)
             h == Parsed(b, state, pos)
  <1>1. /\ hbuf' = b /\ b \in Seq(FileBytes) /\ pc = "header" /\ pc' \in {"header", "exit1", "hash"}
        /\ UNCHANGED <<input, alias, fs, hashed, edits>>
    BY ReadHeaderType
  <1>2. /\ fs["in"] = input /\ foff = Len(hbuf) /\ Len(hbuf) \in 0..Len(input) /\ hbuf = SubSeq(input, 1, Len(hbuf))
        /\ Len(hbuf) <= sz /\ sz >= 1 /\ sz \in Nat /\ input \in Seq(FileBytes) /\ Len(input) \in Nat
        /\ hbuf \in Seq(FileBytes) /\ state \in {0, 1, 2} /\ pos \in Nat /\ (state = 0 => pos = 0)
    BY <1>1, FilesAreSeqs DEF FoundInv, SignType
  <1>3. sz' = (IF Len(hbuf) = sz THEN 2 * sz ELSE sz) /\ ~ AtEof
    BY DEF ReadHeader
  <1>4. n \in Nat \ {0} /\ sz' \in Nat /\ sz' >= 1
    BY <1>2, <1>3
  <1> DEFINE m == Smaller(n, Left)
             k == Len(hbuf) + m
  <1>5. m \in 1..(Len(input) - Len(hbuf)) /\ m <= n
    BY <1>2, <1>3, <1>4 DEF Smaller, Left, AtEof
  <1>6. b = SubSeq(input, 1, k) /\ k \in 1..Len(input) /\ Len(b) = k /\ k <= sz'
    <2>1. b = SubSeq(input, 1, Len(hbuf)) \o SubSeq(input, Len(hbuf) + 1, k)
      BY <1>2 DEF FromFile
    <2>2. Len(hbuf) \in (1 - 1)..Len(input) /\ k \in Len(hbuf)..Len(input) /\ k \in 1..Len(input) /\ k <= sz'
      BY <1>2, <1>4, <1>5
    <2> HIDE DEF k, b
    <2>3. SubSeq(input, 1, Len(hbuf)) \o SubSeq(input, Len(hbuf) + 1, k) = SubSeq(input, 1, k)
      <3>1. input \in Seq(FileBytes) /\ 1 \in 1..Len(input) + 1
        BY <1>2
      <3> QED BY <2>2, <3>1, ConcatAdjacentSubSeq
    <2>4. Len(SubSeq(input, 1, k)) = k
      BY <1>2, <2>2
    <2> QED BY <2>1, <2>2, <2>3, <2>4
  <1>7. \A j \in 1..k : b[j] = input[j]
    <2> HIDE DEF k, b
    <2>1. \A j \in 1..k : SubSeq(input, 1, k)[j] = input[j]
      BY <1>2, <1>6
    <2> QED BY <1>6, <2>1
  <1>8. \A j \in 1..Len(hbuf) : b[j] = hbuf[j] /\ Len(hbuf) <= k
    <2>1. \A j \in 1..Len(hbuf) : SubSeq(input, 1, Len(hbuf))[j] = input[j]
      BY <1>2
    <2>2. \A j \in 1..Len(hbuf) : j \in 1..k
      BY <1>2, <1>5
    <2> HIDE DEF k, b
    <2> QED BY <1>2, <1>7, <2>1, <2>2
  <1>9. HeaderLen \in Nat /\ HeaderLen >= 2 /\ ~ alias' /\ edits' = 0 /\ fs'["in"] = input'
    BY <1>1, <1>2, HeaderAssumption DEF Unedited
  <1>10. /\ Len(b) < HeaderLen => UNCHANGED <<pc, state, pos>> /\ foff' = Len(b)
         /\ Len(b) >= HeaderLen /\ BadHeader(b) => pc' = "exit1"
         /\ Len(b) >= HeaderLen /\ ~ BadHeader(b) =>
              /\ state' = h.state /\ pos' = h.pos
              /\ pc' = IF h.state = 3 THEN "hash" ELSE "header"
              /\ foff' = IF h.state = 3 THEN h.pos ELSE Len(b)
    <2>1. CASE Len(b) < HeaderLen
      BY <1>6, <1>9, <2>1 DEF ReadHeader
    <2>2. CASE Len(b) >= HeaderLen /\ BadHeader(b)
      BY <1>6, <1>9, <2>2 DEF ReadHeader
    <2>3. CASE Len(b) >= HeaderLen /\ ~ BadHeader(b)
      BY <1>6, <1>9, <2>3 DEF ReadHeader
    <2>4. Len(b) \in Nat
      BY <1>6
    <2> QED BY <1>9, <2>1, <2>2, <2>3, <2>4
  <1> HIDE DEF n, m, k, b, h
  <1>11. CASE Len(b) < HeaderLen
    <2>1. state = 0 /\ pos = 0
      BY <1>1, <1>2, <1>6, <1>8, <1>9, <1>11 DEF FoundInv
    <2> QED BY <1>1, <1>2, <1>4, <1>6, <1>9, <1>10, <1>11, <2>1 DEF FoundInv, PastHeader, Writing
  <1>12. CASE Len(b) >= HeaderLen /\ BadHeader(b)
    BY <1>1, <1>9, <1>10, <1>12 DEF FoundInv, PastHeader, Writing
  <1>13. CASE Len(b) >= HeaderLen /\ ~ BadHeader(b)
    <2>1. VP!Before(b, state, pos) /\ ~ VP!BadHeader(b)
      <3>1. ~ VP!BadHeader(b)
        BY <1>13, SameFlags
      <3>2. CASE state = 0
        BY <1>2, <3>1, <3>2 DEF VP!Before
      <3>3. CASE state # 0
        <4>1. PICK from \in Nat : VP!After(hbuf, state, pos, from)
          BY <1>1, <3>3 DEF FoundInv
        <4>2. Len(hbuf) >= HeaderLen /\ ~ VP!BadHeader(hbuf) /\ state \in {1, 2}
          BY <1>1, <1>2, <3>3 DEF FoundInv
        <4>3. Len(b) \in Nat /\ Len(hbuf) \in Nat /\ Len(hbuf) <= Len(b)
          BY <1>2, <1>6, <1>8, <1>5 DEF k
        <4> QED BY <1>8, <4>1, <4>2, <4>3, VP!MoreRead, VerifierAssumed
      <3> QED BY <3>1, <3>2, <3>3
    <2>2. /\ VP!After(b, h.state, h.pos, h.from)
          /\ h.pos \in HeaderLen..Len(b) /\ h.from \in Nat
      <3>1. Len(b) \in Nat /\ h = VP!Parsed(b, state, pos)
        BY <1>6, SameParsed DEF h
      <3> QED BY <1>2, <1>13, <2>1, <3>1, VP!ParsedIs, VerifierAssumed
    <2>3. CASE h.state = 3
      <3>1. Parsed(input, 0, 0).pos = h.pos
        <4>1. Len(b) \in Nat /\ Len(b) <= Len(input) /\ \A j \in 1..Len(b) : b[j] = input[j]
          BY <1>6, <1>7
        <4>2. h.pos \in Nat /\ HeaderLen <= Len(b)
          BY <1>9, <1>13, <2>2, <4>1
        <4>3. Len(input) \in Nat /\ VP!After(b, 3, h.pos, h.from) /\ h.from \in Nat
          BY <1>2, <2>2, <2>3
        <4> QED BY ONLY <4>1, <4>2, <4>3, ParsedOnce
      <3>2. h.pos \in 0..Len(input)
        BY <1>6, <1>9, <2>2
      <3> QED BY <1>1, <1>9, <1>10, <1>13, <2>3, <3>1, <3>2 DEF FoundInv, PastHeader, Writing
    <2>4. CASE h.state # 3
      <3>1. h.state \in {1, 2}
        BY <2>2, <2>4 DEF VP!After
      <3>2. pc' = "header" /\ foff' = Len(hbuf') /\ Len(hbuf') <= Len(input') /\ hbuf' = SubSeq(input', 1, Len(hbuf'))
            /\ Len(hbuf') <= sz' /\ sz' >= 1
        BY <1>1, <1>4, <1>6, <1>10, <1>13, <2>4
      <3>3. Len(hbuf') >= HeaderLen /\ ~ VP!BadHeader(hbuf') /\ VP!After(hbuf', state', pos', h.from)
        BY <1>1, <1>10, <1>13, <2>1, <2>2
      <3> QED BY <1>9, <1>10, <1>13, <2>2, <3>1, <3>2, <3>3 DEF FoundInv, PastHeader, Writing
    <2> QED BY <2>3, <2>4
  <1> QED BY <1>6, <1>9, <1>11, <1>12, <1>13

LEMMA FoundInit == Init => FoundInv
  <1> SUFFICES ASSUME Init, Unedited PROVE FoundInv
    BY DEF FoundInv
  <1>1. input \in Seq(FileBytes) /\ Len(input) \in Nat /\ SubSeq(input, 1, 0) = << >>
    BY FilesAreSeqs DEF Init
  <1>2. fs["in"] = input
    BY DEF Init
  <1>3. pc = "open" /\ foff = 0 /\ hbuf = << >> /\ Len(hbuf) = 0 /\ sz >= 1 /\ state = 0 /\ pos = 0 /\ sz \in Nat
    BY ZSignAssumption DEF Init
  <1> QED BY <1>1, <1>2, <1>3 DEF FoundInv, PastHeader, Writing

(* Whoever writes to the output does not write to the input.               *)
LEMMA InputStays ==
  ASSUME SignType, ~ alias, Next, ~ Edit
  PROVE  fs'["in"] = fs["in"] /\ UNCHANGED <<input, alias, edits>>
  <1>1. CASE OpenSig
    <2>1. << >> \in Seq(WriteBytes) /\ Put(Out, << >>)
      BY <1>1 DEF OpenSig
    <2> QED BY <1>1, <2>1, PutOut DEF OpenSig
  <1>2. CASE Write
    <2>1. CASE Exit("exit1")
      BY <2>1 DEF Exit
    <2>2. CASE ~ Exit("exit1")
      BY <1>2, <2>2, WriteIs
    <2> QED BY <2>1, <2>2
  <1>3. CASE ReadHeader
    BY <1>3, ReadHeaderType
  <1>4. CASE Open \/ HeaderTruncated \/ HashBlock \/ Hashed \/ CreateSig \/ HeaderWritten \/ CopyBlock
             \/ Written \/ Copied \/ Stop \/ Done
    BY <1>4 DEF Open, HeaderTruncated, HashBlock, Hashed, CreateSig, HeaderWritten, CopyBlock,
                Written, Copied, Stop, Done, Exit, vars
  <1> QED BY <1>1, <1>2, <1>3, <1>4 DEF Next, Step

LEMMA StaysUnedited ==
  ASSUME SignType, Next, Unedited'
  PROVE  Unedited /\ ~ Edit /\ fs'["in"] = fs["in"] /\ UNCHANGED <<input, alias, edits>>
  <1>1. ~ Edit
    <2>1. edits \in Nat /\ edits' = 0
      BY DEF SignType, Unedited
    <2>2. Edit => edits' = edits + 1
      BY DEF Edit
    <2> QED BY <2>1, <2>2
  <1>2. alias' = alias
    <2>1. Next /\ ~ Edit => Step \/ Stop \/ Done
      BY DEF Next
    <2>2. Step => alias' = alias
      BY DEF Step, Open, ReadHeader, HeaderTruncated, HashBlock, Hashed, OpenSig, CreateSig, Write,
             HeaderWritten, CopyBlock, Written, Copied, Exit
    <2>3. Stop \/ Done => alias' = alias
      BY DEF Stop, Done, Exit, vars
    <2> QED BY <1>1, <2>1, <2>2, <2>3
  <1>3. ~ alias
    BY <1>2 DEF Unedited
  <1> QED BY <1>1, <1>3, InputStays DEF Unedited

LEMMA FoundNext == SignType /\ FoundInv /\ [Next]_vars => FoundInv'
  <1> SUFFICES ASSUME SignType, FoundInv, [Next]_vars, Unedited' PROVE FoundInv'
    BY DEF FoundInv
  <1>1. CASE Next
    <2>1. Unedited /\ ~ Edit /\ fs'["in"] = fs["in"] /\ UNCHANGED <<input, alias, edits>>
      BY <1>1, StaysUnedited
    <2>2. CASE ReadHeader
      BY <2>1, <2>2, ReadFinds
    <2>3. CASE Open
      BY <2>1, <2>3 DEF Open, header, FoundInv, PastHeader, Writing
    <2>4. ASSUME pos' = pos, pc' \notin {"open", "header"}, pc' \in PastHeader => pc \in PastHeader
          PROVE  FoundInv'
      BY <2>1, <2>4 DEF FoundInv
    <2>5. CASE HeaderTruncated \/ HashBlock \/ Hashed \/ OpenSig \/ HeaderWritten \/ CopyBlock
               \/ Written \/ Copied \/ Stop
      <3>1. pos' = pos /\ pc' \notin {"open", "header"} /\ (pc' \in PastHeader => pc \in PastHeader)
        BY <2>5 DEF HeaderTruncated, HashBlock, Hashed, OpenSig, HeaderWritten, CopyBlock, Written, Copied, Stop,
                    Exit, header, PastHeader, Writing
      <3> QED BY <2>4, <3>1
    <2>6. CASE CreateSig
      <3>1. pos' = pos /\ pc = "createsig" /\ pc' \in {"writeheader", "exit1"}
        BY <2>6 DEF CreateSig, Exit, header
      <3> QED BY <2>4, <3>1 DEF PastHeader, Writing
    <2>7. CASE Write
      <3>1. pos' = pos /\ pc \in {"writeheader", "write"} /\ pc' \in {pc, "exit1"}
        BY <2>7 DEF Write, Exit, header
      <3> QED BY <2>4, <3>1 DEF PastHeader, Writing
    <2>8. CASE Done
      BY <2>1, <2>8 DEF Done, vars, FoundInv, Exits
    <2> QED BY <1>1, <2>1, <2>2, <2>3, <2>5, <2>6, <2>7, <2>8 DEF Next, Step
  <1>2. CASE UNCHANGED vars
    BY <1>2 DEF vars, FoundInv, Unedited
  <1> QED BY <1>1, <1>2

(* The part of the payload that is block i.                                *)
PayLen == Len(input) - pos
Part(i) == SubSeq(input, pos + (i - 1) * BlockSize + 1, pos + Smaller(i * BlockSize, PayLen))
ToCopy(n) == SubSeq(input, pos + 1, n)
AllHashed == {"opensig", "createsig", "writeheader", "copy", "write", "exit0"}

(* The blocks as far as they are hashed, and the payload as far as it is   *)
(* copied.                                                                 *)
CopyInv ==
  Unedited =>
    /\ pc = "hash" =>
         /\ foff = pos + Smaller(Len(hashed) * BlockSize, PayLen)
         /\ \A i \in 1..Len(hashed) : hashed[i] = Part(i) /\ (i - 1) * BlockSize < PayLen
    /\ pc \in AllHashed => hashed = Blocks(Payload(input), BlockSize)
    /\ pc \in {"copy", "write"} => foff \in pos..Len(input)
    /\ pc = "copy" => fs[Out] = NewHeader \o ToCopy(foff)
    /\ pc = "write" => fs[Out] \o buffer = NewHeader \o ToCopy(foff)
    /\ pc = "exit0" => fs[Out] = NewHeader \o ToCopy(Len(input))

LEMMA Ceiling ==
  ASSUME NEW p \in Nat, NEW n \in Nat, NEW b \in Nat \ {0}, p <= n * b, n = 0 \/ (n - 1) * b < p
  PROVE  (p + b - 1) \div b = n
  <1> DEFINE m == p + b - 1
             q == m \div b
  <1>1. m \in Nat
    OBVIOUS
  <1>2. q \in Nat /\ q * b <= m /\ m < (q + 1) * b
    <2> HIDE DEF m
    <2> QED BY <1>1
  <1> HIDE DEF q
  <1>3. ASSUME n >= q + 1 PROVE FALSE
    <2>1. n # 0 /\ (n - 1) * b < p
      BY <1>2, <1>3
    <2>2. (n - 1) * b = n * b - b
      OBVIOUS
    <2>3. n * b >= (q + 1) * b
      BY <1>2, <1>3
    <2>4. n * b \in Int /\ (q + 1) * b \in Int /\ (n - 1) * b \in Int
      BY <1>2
    <2> DEFINE nb == n * b
               q1b == (q + 1) * b
               n1b == (n - 1) * b
    <2> HIDE DEF nb, q1b, n1b
    <2> QED BY <1>2, <2>1, <2>2, <2>3, <2>4 DEF nb, q1b, n1b
  <1>4. ASSUME n + 1 <= q PROVE FALSE
    <2>1. (n + 1) * b <= q * b
      BY <1>2, <1>4
    <2>2. (n + 1) * b = n * b + b
      OBVIOUS
    <2>3. n * b \in Int /\ q * b \in Int /\ (n + 1) * b \in Int
      BY <1>2
    <2> DEFINE nb == n * b
               qb == q * b
               n1b == (n + 1) * b
    <2> HIDE DEF nb, qb, n1b
    <2> QED BY <1>2, <2>1, <2>2, <2>3 DEF nb, qb, n1b
  <1> QED BY <1>2, <1>3, <1>4 DEF q

LEMMA PartOfPart ==
  ASSUME NEW T, NEW s \in Seq(T), NEW a \in 0..Len(s), NEW i \in Nat, NEW j \in Nat, i < j, j <= Len(s) - a
  PROVE  SubSeq(SubSeq(s, a + 1, Len(s)), i + 1, j) = SubSeq(s, a + i + 1, a + j)
  <1> DEFINE N == Len(s)
             a1 == a + 1
             i1 == i + 1
  <1>1. N \in Nat /\ a1 \in 1..N /\ N \in 1..N /\ i1 \in 1..(N - a1 + 1) /\ j \in 1..(N - a1 + 1)
    OBVIOUS
  <1>2. a1 + i1 - 1 = a + i + 1 /\ a1 + j - 1 = a + j
    OBVIOUS
  <1> HIDE DEF a1, i1, N
  <1>3. SubSeq(SubSeq(s, a1, N), i1, j) = SubSeq(s, a1 + i1 - 1, a1 + j - 1)
    BY <1>1, SubSeqOfSubSeq DEF N
  <1> QED BY <1>2, <1>3 DEF a1, i1, N

(* When the parts cover the payload they are its blocks.                   *)
LEMMA AllParts ==
  ASSUME input \in Seq(FileBytes), pos \in 0..Len(input), pos = Parsed(input, 0, 0).pos, hashed \in Seq(Seq(FileBytes)),
         \A i \in 1..Len(hashed) : hashed[i] = Part(i) /\ (i - 1) * BlockSize < PayLen,
         PayLen <= Len(hashed) * BlockSize
  PROVE  hashed = Blocks(Payload(input), BlockSize)
  <1> DEFINE n == Len(hashed)
             pay == Payload(input)
             Block(i) == SubSeq(pay, (i - 1) * BlockSize + 1, Smaller(i * BlockSize, Len(pay)))
  <1>1. BlockSize \in Nat \ {0} /\ n \in Nat /\ PayLen \in Nat /\ Len(input) \in Nat
    BY ZSignAssumption DEF PayLen
  <1>2. pay = SubSeq(input, pos + 1, Len(input)) /\ Len(pay) = PayLen
    BY DEF Payload, PayLen
  <1>3. (Len(pay) + BlockSize - 1) \div BlockSize = n
    <2>1. n = 0 \/ (n - 1) * BlockSize < PayLen
      <3>1. n # 0 => n \in 1..Len(hashed)
        BY <1>1
      <3> QED BY <3>1
    <2> HIDE DEF n, pay
    <2> QED BY <1>1, <1>2, <2>1, Ceiling DEF n
  <1>4. ASSUME NEW i \in 1..n PROVE hashed[i] = Block(i)
    <2> DEFINE from == (i - 1) * BlockSize
               to == i * BlockSize
    <2>1. from \in Nat /\ to \in Nat /\ to = from + BlockSize
      BY <1>1
    <2>2. from < PayLen /\ hashed[i] = SubSeq(input, pos + from + 1, pos + Smaller(to, PayLen))
      BY <1>4 DEF Part
    <2>3. Block(i) = SubSeq(pay, from + 1, Smaller(to, PayLen))
      BY <1>2
    <2> HIDE DEF from, to, n, pay, Block
    <2>4. from < Smaller(to, PayLen) /\ Smaller(to, PayLen) <= Len(input) - pos /\ Smaller(to, PayLen) \in Nat
      <3>1. from < PayLen /\ from < to /\ to \in Nat /\ from \in Nat
        BY <1>1, <2>1, <2>2
      <3>2. PayLen = Len(input) - pos /\ PayLen \in Nat
        BY <1>1 DEF PayLen
      <3>3. Smaller(to, PayLen) \in {to, PayLen} /\ Smaller(to, PayLen) <= PayLen
        BY ONLY <3>1, <3>2 DEF Smaller
      <3> QED BY ONLY <3>1, <3>2, <3>3
    <2>5. SubSeq(SubSeq(input, pos + 1, Len(input)), from + 1, Smaller(to, PayLen))
            = SubSeq(input, pos + from + 1, pos + Smaller(to, PayLen))
      <3> DEFINE j == Smaller(to, PayLen)
      <3>1. input \in Seq(FileBytes) /\ pos \in 0..Len(input)
        OBVIOUS
      <3>2. from \in Nat /\ j \in Nat /\ from < j /\ j <= Len(input) - pos
        BY <2>1, <2>4
      <3> HIDE DEF j
      <3>3. SubSeq(SubSeq(input, pos + 1, Len(input)), from + 1, j) = SubSeq(input, pos + from + 1, pos + j)
        BY ONLY <3>1, <3>2, PartOfPart
      <3> QED BY <3>3 DEF j
    <2> QED BY <1>2, <2>2, <2>3, <2>5
  <1>5. Blocks(pay, BlockSize) = [i \in 1..n |-> Block(i)]
    <2>1. Blocks(pay, BlockSize) = [i \in 1..((Len(pay) + BlockSize - 1) \div BlockSize) |-> Block(i)]
      BY DEF Blocks
    <2> HIDE DEF n, pay, Block
    <2> QED BY <1>3, <2>1
  <1>6. hashed = [i \in 1..n |-> hashed[i]]
    OBVIOUS
  <1> HIDE DEF n, pay, Block
  <1> QED BY <1>4, <1>5, <1>6 DEF pay

LEMMA CopyInit == Init => CopyInv
  BY DEF Init, CopyInv, AllHashed

LEMMA CopyHash ==
  ASSUME SignType, FoundInv, CopyInv, Unedited, HashBlock
  PROVE  CopyInv'
  <1> DEFINE n == Len(hashed)
             p == FromFile(BlockSize)
             size == Len(input)
  <1>1. /\ pc = "hash" /\ ~ AtEof /\ pc' \in {"exit1", "hash"} /\ hashed' = Append(hashed, p) /\ foff' = foff + Len(p)
        /\ UNCHANGED <<input, alias, fs, pos, edits>>
    BY DEF HashBlock, header
  <1>2. /\ fs["in"] = input /\ pos \in 0..size /\ input \in Seq(FileBytes) /\ size \in Nat
        /\ foff \in Nat /\ n \in Nat /\ BlockSize \in Nat \ {0} /\ hashed \in Seq(Seq(FileBytes))
    BY <1>1, FilesAreSeqs, ZSignAssumption DEF FoundInv, PastHeader, SignType
  <1>3. /\ foff = pos + Smaller(n * BlockSize, PayLen)
        /\ \A i \in 1..n : hashed[i] = Part(i) /\ (i - 1) * BlockSize < PayLen
    BY <1>1 DEF CopyInv
  <1>4. foff < size /\ Left = size - foff /\ PayLen \in Nat /\ pos + PayLen = size
        /\ size - foff = pos + PayLen - foff
    BY <1>1, <1>2 DEF AtEof, Left, PayLen
  <1>5. p = SubSeq(input, foff + 1, foff + Smaller(BlockSize, size - foff)) /\ p \in Seq(FileBytes)
        /\ Len(p) = Smaller(BlockSize, size - foff)
    <2>1. p = SubSeq(input, foff + 1, foff + Smaller(BlockSize, size - foff))
      BY <1>2, <1>4 DEF FromFile
    <2>2. p \in Seq(FileBytes) /\ Len(p) = Smaller(BlockSize, Left)
      <3>1. BlockSize \in Int
        BY <1>2
      <3> QED BY <1>1, <1>2, <3>1, FromFileIs
    <2> QED BY <1>4, <2>1, <2>2
  <1> HIDE DEF p, size
  <1>6. /\ foff = pos + n * BlockSize /\ n * BlockSize < PayLen
        /\ foff + Smaller(BlockSize, pos + PayLen - foff) = pos + Smaller((n + 1) * BlockSize, PayLen)
    <2> HIDE DEF n
    <2>1. pos \in Nat /\ n \in Nat /\ foff \in Nat /\ BlockSize \in Nat \ {0} /\ PayLen \in Nat
      BY <1>2, <1>4
    <2>2. foff = pos + Smaller(n * BlockSize, PayLen) /\ foff < pos + PayLen
      BY <1>3, <1>4
    <2>3. n * BlockSize \in Nat /\ (n + 1) * BlockSize = n * BlockSize + BlockSize
      BY <2>1
    <2> DEFINE nb == n * BlockSize
               n1b == (n + 1) * BlockSize
    <2> HIDE DEF nb, n1b
    <2>4. foff = pos + nb /\ nb < PayLen
      BY <2>1, <2>2, <2>3 DEF nb, n1b, Smaller
    <2>5. foff + Smaller(BlockSize, pos + PayLen - foff) = pos + Smaller(n1b, PayLen)
      BY ONLY <2>1, <2>3, <2>4 DEF nb, n1b, Smaller
    <2> QED BY <2>4, <2>5 DEF nb, n1b
  <1>7. p = Part(n + 1)
    <2> HIDE DEF n
    <2>1. (n + 1) - 1 = n
      BY <1>2
    <2>2. Part(n + 1) = SubSeq(input, pos + n * BlockSize + 1, pos + Smaller((n + 1) * BlockSize, PayLen))
      BY <2>1 DEF Part
    <2>3. p = SubSeq(input, foff + 1, foff + Smaller(BlockSize, pos + PayLen - foff))
      BY <1>4, <1>5
    <2>4. p = SubSeq(input, foff + 1, pos + Smaller((n + 1) * BlockSize, PayLen))
      BY <1>6, <2>3
    <2>5. foff + 1 = pos + n * BlockSize + 1
      BY <1>6
    <2> QED BY <2>2, <2>4, <2>5
  <1>8. /\ Len(hashed') = n + 1 /\ hashed'[n + 1] = p
        /\ \A i \in 1..n : hashed'[i] = hashed[i]
    <2>1. hashed \in Seq(Seq(FileBytes)) /\ p \in Seq(FileBytes)
      BY <1>2, <1>5
    <2> QED BY <1>1, <2>1, AppendProperties
  <1>9. PayLen' = PayLen /\ \A i : Part(i)' = Part(i)
    BY <1>1 DEF PayLen, Part
  <1>10. foff' = pos' + Smaller(Len(hashed') * BlockSize, PayLen')
    <2> HIDE DEF n
    <2>1. foff' = foff + Smaller(BlockSize, pos + PayLen - foff)
      BY <1>1, <1>4, <1>5
    <2> QED BY <1>1, <1>6, <1>8, <1>9, <2>1
  <1>11. ASSUME NEW i \in 1..Len(hashed') PROVE hashed'[i] = Part(i)' /\ (i - 1) * BlockSize < PayLen'
    <2> HIDE DEF n
    <2>1. i \in 1..n \/ i = n + 1
      BY <1>2, <1>8, <1>11
    <2>2. CASE i \in 1..n
      BY <1>3, <1>8, <1>9, <2>2
    <2>3. CASE i = n + 1
      <3>1. i - 1 = n
        BY <1>2, <2>3
      <3> QED BY <1>6, <1>7, <1>8, <1>9, <2>3, <3>1
    <2> QED BY <2>1, <2>2, <2>3
  <1> QED BY <1>1, <1>10, <1>11 DEF CopyInv, AllHashed

(* A block that is copied follows what was copied before.                  *)
LEMMA CopyMore ==
  ASSUME SignType, FoundInv, CopyInv, Unedited, CopyBlock
  PROVE  foff' \in pos'..Len(input') /\ fs'[Out'] \o buffer' = (NewHeader \o ToCopy(foff))'
  <1> DEFINE size == Len(input)
             n == Smaller(BlockSize, size - foff)
  <1>1. /\ pc = "copy" /\ ~ AtEof /\ buffer' = FromFile(BlockSize) /\ foff' = foff + Len(FromFile(BlockSize))
        /\ UNCHANGED <<input, alias, fs, pos, hashed, edits>>
    BY DEF CopyBlock, header
  <1>2. /\ fs["in"] = input /\ pos \in 0..size /\ input \in Seq(FileBytes) /\ size \in Nat
        /\ foff \in Nat /\ BlockSize \in Nat \ {0} /\ hashed \in Seq(Seq(FileBytes))
        /\ fs[Out] = NewHeader \o ToCopy(foff) /\ foff \in pos..size
    <2>1. fs["in"] = input /\ pos \in 0..size
      BY <1>1 DEF FoundInv, PastHeader, Writing
    <2>2. fs[Out] = NewHeader \o ToCopy(foff) /\ foff \in pos..size
      BY <1>1 DEF CopyInv
    <2>3. input \in Seq(FileBytes) /\ foff \in Nat /\ hashed \in Seq(Seq(FileBytes))
      BY FilesAreSeqs DEF SignType
    <2>4. BlockSize \in Nat \ {0}
      BY ZSignAssumption
    <2> QED BY <2>1, <2>2, <2>3, <2>4
  <1>3. foff < size /\ Left = size - foff
    BY <1>1, <1>2 DEF AtEof, Left
  <1>4. n \in 1..(size - foff)
    BY <1>2, <1>3 DEF Smaller
  <1>5. buffer' = SubSeq(input, foff + 1, foff + n) /\ Len(FromFile(BlockSize)) = n
    <2>1. Len(FromFile(BlockSize)) = Smaller(BlockSize, Left)
      <3>1. BlockSize \in Int /\ BlockSize \in Nat
        BY <1>2
      <3> QED BY <1>1, <1>2, <3>1, FromFileIs
    <2> QED BY <1>1, <1>2, <1>3, <2>1 DEF FromFile
  <1> DEFINE h == NewHeader
             u == ToCopy(foff)
             v == SubSeq(input, foff + 1, foff + n)
             w == ToCopy(foff + n)
  <1>6. u \in Seq(FileBytes) /\ v \in Seq(FileBytes) /\ u \o v = w
    <2> DEFINE m == foff + n
               p1 == pos + 1
    <2>1. p1 \in 1..size + 1 /\ foff \in (p1 - 1)..size /\ m \in foff..size /\ input \in Seq(FileBytes)
      BY <1>2, <1>4
    <2>2. u = SubSeq(input, p1, foff) /\ v = SubSeq(input, foff + 1, m) /\ w = SubSeq(input, p1, m)
      BY DEF ToCopy
    <2> HIDE DEF u, v, w, m, p1
    <2>3. SubSeq(input, p1, foff) \o SubSeq(input, foff + 1, m) = SubSeq(input, p1, m)
      BY <2>1, ConcatAdjacentSubSeq
    <2>4. SubSeq(input, p1, foff) \in Seq(FileBytes) /\ SubSeq(input, foff + 1, m) \in Seq(FileBytes)
      BY <1>2, <2>1 DEF p1
    <2> QED BY <2>2, <2>3, <2>4
  <1>7. (h \o u) \o v = h \o (u \o v)
    <2>1. h \in Seq(WriteBytes)
      BY <1>2, NewHeaderIs
    <2>2. u \in Seq(WriteBytes) /\ v \in Seq(WriteBytes)
      BY <1>6, FilesAreSeqs
    <2> HIDE DEF h, u, v
    <2> QED BY ONLY <2>1, <2>2, ConcatAssociative
  <1>8. Out' = Out /\ NewHeader' = NewHeader /\ ToCopy(foff)' = ToCopy(foff')
    BY <1>1 DEF Out, NewHeader, Signing, ToCopy
  <1>9. ToCopy(foff') = w /\ foff' \in pos'..Len(input')
    <2> HIDE DEF n
    <2>1. foff' = foff + n
      BY <1>1, <1>5
    <2>2. foff + n \in pos..size
      BY <1>2, <1>4
    <2>3. Len(input') = size /\ pos' = pos
      BY <1>1
    <2> QED BY <2>1, <2>2, <2>3
  <1> HIDE DEF h, u, v, w
  <1>10. fs'[Out'] \o buffer' = (h \o u) \o v
    BY <1>1, <1>2, <1>5, <1>8 DEF h, u, v
  <1> QED BY <1>6, <1>7, <1>8, <1>9, <1>10 DEF h

LEMMA CopyNext == SignType /\ SpaceInv /\ LeftInv /\ FoundInv /\ CopyInv /\ [Next]_vars /\ FoundInv' => CopyInv'
  <1> SUFFICES ASSUME SignType, SpaceInv, LeftInv, FoundInv, CopyInv, [Next]_vars, FoundInv', Unedited' PROVE CopyInv'
    BY DEF CopyInv
  <1>1. CASE UNCHANGED vars
    BY <1>1 DEF vars, CopyInv, Unedited, NewHeader, Signing, Out, ToCopy, Part, PayLen
  <1> SUFFICES ASSUME Next PROVE CopyInv'
    BY <1>1
  <1>2. Unedited /\ ~ Edit /\ fs'["in"] = fs["in"] /\ UNCHANGED <<input, alias, edits>> /\ Out' = Out
    BY StaysUnedited DEF Out
  <1>3. hashed' = hashed => NewHeader' = NewHeader
    BY DEF NewHeader, Signing
  <1>4. BlockSize \in Nat \ {0} /\ hashed \in Seq(Seq(FileBytes)) /\ Len(hashed) \in Nat /\ input \in Seq(FileBytes)
    BY FilesAreSeqs, ZSignAssumption DEF SignType
  <1>5. ASSUME NEW n PROVE UNCHANGED <<input, pos>> => ToCopy(n)' = ToCopy(n')
    BY DEF ToCopy
  <1>6. ASSUME pc' \notin AllHashed \cup {"hash"} PROVE CopyInv'
    BY <1>6 DEF CopyInv, AllHashed
  <1>7. CASE Open \/ HeaderTruncated \/ Stop
    BY <1>6, <1>7 DEF Open, HeaderTruncated, Stop, Exit, AllHashed
  <1>8. CASE ReadHeader
    <2>1. /\ pc = "header" /\ pc' \in {"header", "exit1", "hash"} /\ (pc' = "hash" => foff' = pos')
          /\ hashed' = hashed /\ pos' \in Nat
      BY <1>8, ReadHeaderType
    <2>2. hashed' = << >> /\ Len(hashed') = 0 /\ 0 * BlockSize = 0
      BY <1>4, <2>1 DEF SpaceInv
    <2>3. pc' = "hash" => PayLen' \in Nat
      BY <1>2, <1>4 DEF FoundInv, PastHeader, PayLen
    <2>4. pc' = "hash" => foff' = pos' + Smaller(Len(hashed') * BlockSize, PayLen')
      BY <2>1, <2>2, <2>3 DEF Smaller
    <2>5. \A i \in 1..Len(hashed') : FALSE
      BY <2>2
    <2>6. pc' \notin AllHashed
      BY <2>1 DEF AllHashed
    <2> QED BY <2>1, <2>4, <2>5, <2>6 DEF CopyInv
  <1>9. CASE HashBlock
    BY <1>2, <1>9, CopyHash
  <1>10. CASE Hashed
    <2>1. pc = "hash" /\ pc' = "opensig" /\ AtEof /\ UNCHANGED <<hashed, input, pos>>
      BY <1>2, <1>10 DEF Hashed, header
    <2>2. fs["in"] = input /\ pos \in 0..Len(input) /\ pos = Parsed(input, 0, 0).pos /\ Len(input) \in Nat /\ foff \in Nat
      BY <1>2, <1>4, <2>1 DEF FoundInv, PastHeader, SignType
    <2>3. /\ foff = pos + Smaller(Len(hashed) * BlockSize, PayLen)
          /\ \A i \in 1..Len(hashed) : hashed[i] = Part(i) /\ (i - 1) * BlockSize < PayLen
      BY <1>2, <2>1 DEF CopyInv
    <2>4. PayLen <= Len(hashed) * BlockSize
      <3> DEFINE m == Len(hashed) * BlockSize
      <3>1. m \in Nat
        BY <1>4
      <3>2. foff = pos + Smaller(m, PayLen)
        BY <2>3
      <3> HIDE DEF m
      <3>3. PayLen <= m
        BY <2>1, <2>2, <3>1, <3>2 DEF AtEof, Left, Smaller, PayLen
      <3> QED BY <3>3 DEF m
    <2>5. hashed = Blocks(Payload(input), BlockSize)
      BY <1>4, <2>2, <2>3, <2>4, AllParts
    <2> QED BY <2>1, <2>5 DEF CopyInv, AllHashed
  <1>11. CASE OpenSig \/ CreateSig
    <2>1. /\ pc \in {"opensig", "createsig"} /\ pc' \in {"createsig", "writeheader", "exit1"} /\ UNCHANGED <<hashed, input>>
      BY <1>2, <1>11 DEF OpenSig, CreateSig, Exit
    <2> QED BY <1>2, <2>1 DEF CopyInv, AllHashed
  <1>12. CASE Write
    <2>1. CASE Exit("exit1")
      BY <1>6, <2>1 DEF Exit, AllHashed
    <2>2. CASE ~ Exit("exit1")
      <3>1. /\ pc \in {"writeheader", "write"} /\ UNCHANGED <<pc, hashed, foff, pos>>
            /\ fs'[Out'] \o buffer' = fs[Out] \o buffer
        BY <1>12, <2>2, WriteIs DEF header
      <3>2. NewHeader' = NewHeader /\ ToCopy(foff)' = ToCopy(foff)
        BY <1>2, <1>3, <3>1 DEF ToCopy
      <3> QED BY <1>2, <3>1, <3>2 DEF CopyInv, AllHashed
    <2> QED BY <2>1, <2>2
  <1>13. CASE HeaderWritten
    <2>1. /\ pc = "writeheader" /\ pc' = "copy" /\ foff' = pos /\ pos' = pos /\ buffer = << >> /\ UNCHANGED <<hashed, fs>>
      BY <1>13 DEF HeaderWritten, header
    <2>2. fs[Out] \o << >> = NewHeader /\ fs[Out] \in Seq(WriteBytes)
      BY <2>1 DEF LeftInv, SignType, Writing
    <2>3. fs[Out] = NewHeader /\ NewHeader \o << >> = NewHeader
      BY <2>2
    <2>4. pos \in 0..Len(input)
      BY <1>2, <2>1 DEF FoundInv, PastHeader, Writing
    <2>5. ToCopy(foff)' = << >>
      <3>1. ToCopy(foff)' = SubSeq(input, pos + 1, pos)
        BY <1>2, <2>1 DEF ToCopy
      <3> QED BY <1>4, <2>4, <3>1, SubSeqEmpty
    <2>6. foff' \in pos'..Len(input')
      BY <1>2, <1>4, <2>1, <2>4
    <2>7. fs'[Out'] = (NewHeader \o ToCopy(foff))'
      BY <1>2, <1>3, <2>1, <2>3, <2>5
    <2> QED BY <1>2, <2>1, <2>6, <2>7 DEF CopyInv, AllHashed
  <1>14. CASE CopyBlock
    <2>1. pc = "copy" /\ pc' = "write" /\ hashed' = hashed
      BY <1>14 DEF CopyBlock
    <2>2. foff' \in pos'..Len(input') /\ fs'[Out'] \o buffer' = (NewHeader \o ToCopy(foff))'
      BY <1>2, <1>14, CopyMore
    <2> QED BY <1>2, <2>1, <2>2 DEF CopyInv, AllHashed
  <1>15. CASE Written
    <2>1. pc = "write" /\ pc' = "copy" /\ buffer = << >> /\ UNCHANGED <<hashed, fs, foff, pos>>
      BY <1>15 DEF Written, header
    <2>2. fs[Out] \o << >> = NewHeader \o ToCopy(foff) /\ fs[Out] \in Seq(WriteBytes)
      BY <1>2, <2>1 DEF CopyInv, SignType, Writing
    <2>3. fs[Out] = NewHeader \o ToCopy(foff)
      BY <2>2
    <2>4. NewHeader' = NewHeader /\ ToCopy(foff)' = ToCopy(foff)
      BY <1>2, <1>3, <2>1 DEF ToCopy
    <2> QED BY <1>2, <2>1, <2>3, <2>4 DEF CopyInv, AllHashed
  <1>16. CASE Copied
    <2>1. pc = "copy" /\ pc' = "exit0" /\ AtEof /\ UNCHANGED <<hashed, fs, foff, pos>>
      BY <1>16 DEF Copied, Exit, header
    <2>2. fs[Out] = NewHeader \o ToCopy(foff) /\ foff \in pos..Len(input) /\ fs["in"] = input /\ pos \in 0..Len(input)
      BY <1>2, <2>1 DEF CopyInv, FoundInv, PastHeader, Writing
    <2>3. foff = Len(input)
      BY <1>4, <2>1, <2>2 DEF AtEof, Left
    <2>4. NewHeader' = NewHeader /\ ToCopy(Len(input))' = ToCopy(Len(input))
      BY <1>2, <1>3, <2>1 DEF ToCopy
    <2> QED BY <1>2, <2>1, <2>2, <2>3, <2>4 DEF CopyInv, AllHashed
  <1>17. CASE Done
    BY <1>1, <1>17 DEF Done
  <1> QED
    BY <1>2, <1>7, <1>8, <1>9, <1>10, <1>11, <1>12, <1>13, <1>14, <1>15, <1>16, <1>17 DEF Next, Step

(* A signer that ends with success has written the archive of the payload  *)
(* of the file, if nobody else touched it: the header found in pieces ends *)
(* where it ends in the file, and both passes cut the same payload at the  *)
(* same places (readgz_header and zsign).                                  *)
THEOREM SigningAlwaysFaithful == RoundTripSpec => []SigningIsFaithful
  <1> DEFINE Inv == SignType /\ SpaceInv /\ LeftInv /\ FoundInv /\ CopyInv
  <1>1. Inv => SigningIsFaithful
    <2> SUFFICES ASSUME SignType, FoundInv, CopyInv, pc = "exit0", Unedited
                 PROVE  fs[Out] = Archive(Payload(input))
      BY DEF SigningIsFaithful, Unedited
    <2>1. hashed = Blocks(Payload(input), BlockSize) /\ fs[Out] = NewHeader \o ToCopy(Len(input))
      BY DEF CopyInv, AllHashed
    <2>2. ToCopy(Len(input)) = Payload(input)
      BY DEF FoundInv, PastHeader, ToCopy, Payload
    <2> QED BY <2>1, <2>2 DEF Archive, NewHeader, Signing
  <1>2. RoundTripInit => Inv
    BY SignTypeInit, SpaceInit, LeftInit, FoundInit, CopyInit DEF RoundTripInit
  <1>3. Inv /\ [RoundTripNext]_<<vars, vvars>> => Inv'
    <2>1. [RoundTripNext]_<<vars, vvars>> => [Next]_vars
      BY RoundTripSigns
    <2> QED BY <2>1, SignTypeNext, SpaceNext, LeftNext, FoundNext, CopyNext
  <1> HIDE DEF Inv
  <1> QED BY <1>1, <1>2, <1>3, PTL DEF RoundTripSpec
=============================================================================
