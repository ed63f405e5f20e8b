--------------------------- MODULE SignifyProofs ---------------------------
(* Proofs about Signify, for every number of processes, every set of       *)
(* command lines, files and edits: type correctness, and that concurrent -G*)
(* never damages or replaces a key file, never publishes a public key      *)
(* without its secret key, and leaves a complete pair when it succeeds;    *)
(* then what -S and -V -e leave in a file that no other process and no     *)
(* editor writes: a refusal leaves the old file, an extracted file is old  *)
(* or the beginning of something signed, a successful one is the whole of  *)
(* it, and a file signed with -e verifies against itself.                  *)
EXTENDS Signify, TLAPS

USE DEF Final, Reading, Writing, Goto

(* A file that is being written or read exists.                            *)
Opened ==
  \A p \in Procs :
    /\ pc[p] \in Writing => OutPath(p) \in DOMAIN fs
    /\ pc[p] = "read" => InPath(p) \in DOMAIN fs

(* What is proved together with TypeOK, as it needs it and is needed by it.*)
Typed == TypeOK /\ Opened /\ Len(InitSigned) <= Len(signed)

LEMMA SeqGrows == ASSUME NEW A, NEW B, A \subseteq B PROVE Seq(A) \subseteq Seq(B)
  OBVIOUS

LEMMA TokensGrow ==
  ASSUME NEW m \in Nat, NEW n \in Nat, m <= n
  PROVE  SigHeaders(m) \subseteq SigHeaders(n) /\ Tokens(m) \subseteq Tokens(n)
  <1>1. SigHeaders(m) \subseteq SigHeaders(n)
    BY DEF SigHeaders
  <1>2. QED
    BY <1>1 DEF Tokens, HeaderHalves

LEMMA HeaderTyped ==
  ASSUME NEW n \in Nat, NEW h \in SecHeaders \cup PubHeaders \cup SigHeaders(n)
  PROVE  Header(h) \in Seq(Tokens(n))
  BY DEF Header, Half, Tokens, HeaderHalves

LEMMA PieceTyped ==
  ASSUME NEW S, NEW s \in Seq(S), NEW m \in Nat, NEW n \in 1..(Len(s) - m)
  PROVE  SubSeq(s, m + 1, m + n) \in Seq(S)
  OBVIOUS

(* The header that is found is one of those that were looked for, and the  *)
(* content begins with it.                                                 *)
LEMMA HeaderFound ==
  ASSUME NEW content, NEW headers, HasHeader(content, headers)
  PROVE  HeaderOf(content, headers) \in headers /\ StartsWith(content, HeaderOf(content, headers))
  BY DEF HasHeader, HeaderOf

LEMMA WriteTyped ==
  ASSUME NEW T, Nul \in T, NEW content \in Seq(T), NEW offset \in Nat, NEW bytes \in Seq(T)
  PROVE  WriteAt(content, offset, bytes) \in Seq(T)
  BY SMTT(30) DEF WriteAt

LEMMA SigningTyped ==
  ASSUME NEW key, NEW body, signed \in Seq([key : Keys, body : Seq(Tokens(Len(signed)))])
  PROVE  /\ SigningOf(key, body) \in 1..(Len(signed) + 1)
         /\ SigningOf(key, body) <= Len(signed) =>
              signed[SigningOf(key, body)] = [key |-> key, body |-> body]
  <1> DEFINE Is(i) == signed[i] = [key |-> key, body |-> body]
  <1>1. Len(signed) \in Nat
    OBVIOUS
  <1>2. CASE \E i \in 1..Len(signed) : Is(i)
    <2>1. (CHOOSE i \in 1..Len(signed) : Is(i)) \in 1..Len(signed) /\ Is(CHOOSE i \in 1..Len(signed) : Is(i))
      BY <1>2
    <2> QED BY <1>1, <1>2, <2>1 DEF SigningOf
  <1>3. CASE ~ \E i \in 1..Len(signed) : Is(i)
    BY <1>1, <1>3 DEF SigningOf
  <1> QED BY <1>2, <1>3

LEMMA TypeInit == Init => Typed
  <1> SUFFICES ASSUME Init PROVE Typed
    OBVIOUS
  <1> USE NamesAssumption, FilesAssumption DEF Init
  <1>0. Len(signed) \in Nat /\ signed = InitSigned /\ << >> \in Seq(Tokens(Len(signed)))
    OBVIOUS
  <1>1. TypeOK
    <2>1. DOMAIN fs \subseteq Paths /\ \A f \in DOMAIN fs : fs[f] \in Seq(Tokens(Len(signed)))
      OBVIOUS
    <2>2. /\ job \in [Procs -> Jobs]
          /\ pc \in [Procs -> {"kdf", "start"}]
          /\ pos \in [Procs -> Nat]
      OBVIOUS
    <2>3. buf \in [Procs -> Seq(Tokens(Len(signed)))]
      BY <1>0
    <2>4. hdr \in [Procs -> {NoHeader}]
      OBVIOUS
    <2>5. signed \in Seq([key : Keys, body : Seq(Tokens(Len(signed)))]) /\ edits \in 0..MaxEdits
      OBVIOUS
    <2> HIDE DEF Init
    <2> QED BY <2>1, <2>2, <2>3, <2>4, <2>5 DEF TypeOK
  <1>2. Opened
    BY DEF Opened
  <1> QED BY <1>0, <1>1, <1>2 DEF Typed

(* What a step of one process leaves of TypeOK when it signs nothing.      *)
T == Tokens(Len(signed))
Headers == {NoHeader} \cup SecHeaders \cup SigHeaders(Len(signed))

LEMMA TypeParts ==
  ASSUME TypeOK
  PROVE  /\ \A f \in DOMAIN fs : fs[f] \in Seq(T)
         /\ DOMAIN fs \subseteq Paths
         /\ \A p \in Procs : buf[p] \in Seq(T) /\ pos[p] \in Nat /\ hdr[p] \in Headers
         /\ buf \in [Procs -> Seq(T)] /\ pos \in [Procs -> Nat] /\ hdr \in [Procs -> Headers]
         /\ Len(signed) \in Nat
  BY DEF TypeOK, T, Headers

LEMMA TypeKept ==
  ASSUME TypeOK, UNCHANGED <<job, edits, signed>>, NEW p \in Procs, NEW l, Goto(p, l),
         l \in Final \cup Reading \cup Writing \cup
               {"kdf", "opensec", "openpub", "readsec", "createsig", "opensig",
                "readsig", "parse", "readpub", "openmsg"},
         DOMAIN fs' \subseteq Paths, \A f \in DOMAIN fs' : fs'[f] \in Seq(T),
         buf' \in [Procs -> Seq(T)], pos' \in [Procs -> Nat], hdr' \in [Procs -> Headers],
         \A q \in Procs \ {p} : hdr'[q] = hdr[q],
         l \in {"opensec", "createsig"} => hdr'[p] \in SecHeaders,
         l \in {"opensig", "readpub"} => hdr'[p] \in SigHeaders(Len(signed))
  PROVE  TypeOK'
  <1>1. \A q \in Procs :
          /\ pc'[q] \in {"opensec", "createsig"} => hdr'[q] \in SecHeaders
          /\ pc'[q] \in {"opensig", "readpub"} => hdr'[q] \in SigHeaders(Len(signed))
    BY DEF TypeOK
  <1>2. /\ job' \in [Procs -> Jobs] /\ edits' \in 0..MaxEdits
        /\ pc' \in [Procs -> Final \cup Reading \cup Writing \cup
               {"kdf", "opensec", "openpub", "readsec", "createsig", "opensig",
                "readsig", "parse", "readpub", "openmsg"}]
        /\ signed' \in Seq([key : Keys, body : Seq(T)])
    BY DEF TypeOK, T
  <1> QED BY <1>1, <1>2 DEF TypeOK, T, Headers

(* The file a process reads from does not depend on where it is.           *)
LEMMA JobTyped ==
  ASSUME TypeOK, NEW p \in Procs
  PROVE  /\ job[p] \in Jobs /\ job[p] \in JobType
         /\ job[p].verb \in {"G", "S", "V"}
         /\ InPath(p) \in Paths
         /\ pc[p] \in Writing => OutPath(p) \in Paths
  BY JobsAssumption DEF TypeOK, JobType, InPath, OutPath

LEMMA PutTyped ==
  ASSUME TypeOK, NEW path \in Paths, NEW content \in Seq(T), Put(path, content)
  PROVE  /\ DOMAIN fs' = DOMAIN fs \cup {path}
         /\ DOMAIN fs' \subseteq Paths
         /\ \A f \in DOMAIN fs' : fs'[f] \in Seq(T)
  BY DEF TypeOK, Put, T

LEMMA FailTyped ==
  ASSUME TypeOK, NEW p \in Procs, NEW l \in {"fail", "stopped"}, Goto(p, l),
         UNCHANGED <<fs, buf, pos, hdr, signed, job, edits>>
  PROVE  TypeOK'
  BY TypeParts, TypeKept

LEMMA HeadersTyped ==
  ASSUME TypeOK, NEW p \in Procs, NEW path, NEW headers, NEW next,
         ReadHeader(p, path, headers, next), UNCHANGED <<job, edits>>,
         \/ headers = SecHeaders /\ next = "createsig"
         \/ headers = SigHeaders(Len(signed)) /\ next = "readpub"
  PROVE  TypeOK'
  <1>1. CASE path \in DOMAIN fs /\ HasHeader(fs[path], headers)
    <2> DEFINE h == HeaderOf(fs[path], headers)
    <2>1. h \in headers
      BY <1>1, HeaderFound
    <2>2. hdr' = [hdr EXCEPT ![p] = h] /\ Goto(p, next) /\ UNCHANGED <<fs, buf, pos, signed>>
      BY <1>1 DEF ReadHeader
    <2> HIDE DEF h
    <2>3. /\ hdr' \in [Procs -> Headers] /\ hdr'[p] = h
          /\ \A q \in Procs \ {p} : hdr'[q] = hdr[q]
      BY <2>1, <2>2, TypeParts DEF Headers
    <2>4. DOMAIN fs' \subseteq Paths /\ \A f \in DOMAIN fs' : fs'[f] \in Seq(T)
      BY <2>2, TypeParts
    <2>5. buf' \in [Procs -> Seq(T)] /\ pos' \in [Procs -> Nat] /\ UNCHANGED signed
      BY <2>2, TypeParts
    <2>6. CASE headers = SecHeaders /\ next = "createsig"
      BY <2>1, <2>2, <2>3, <2>4, <2>5, <2>6, TypeKept
    <2>7. CASE headers = SigHeaders(Len(signed)) /\ next = "readpub"
      BY <2>1, <2>2, <2>3, <2>4, <2>5, <2>7, TypeKept
    <2> QED BY <2>6, <2>7
  <1>2. CASE ~(path \in DOMAIN fs /\ HasHeader(fs[path], headers))
    BY <1>2, FailTyped DEF ReadHeader, Fail
  <1> QED BY <1>1, <1>2

LEMMA CreateTyped ==
  ASSUME TypeOK, NEW p \in Procs, NEW path \in Paths, NEW h \in SecHeaders \cup PubHeaders,
         NEW next \in {"writesec", "writepub"}, Create(p, path, h, next), UNCHANGED <<job, edits>>
  PROVE  TypeOK'
  <1>1. CASE path \in DOMAIN fs
    BY <1>1, FailTyped DEF Create, Fail
  <1>2. CASE path \notin DOMAIN fs
    <2>1. /\ Put(path, << >>) /\ buf' = [buf EXCEPT ![p] = Header(h)] /\ pos' = [pos EXCEPT ![p] = 0]
          /\ Goto(p, next) /\ UNCHANGED <<hdr, signed>>
      BY <1>2 DEF Create
    <2>0. << >> \in Seq(T)
      OBVIOUS
    <2>2. DOMAIN fs' \subseteq Paths /\ \A f \in DOMAIN fs' : fs'[f] \in Seq(T)
      BY <2>0, <2>1, PutTyped
    <2>3. Header(h) \in Seq(T)
      BY TypeParts, HeaderTyped DEF T
    <2>4. buf' \in [Procs -> Seq(T)] /\ pos' \in [Procs -> Nat]
      BY <2>1, <2>3, TypeParts
    <2> QED BY <2>1, <2>2, <2>4, TypeParts, TypeKept
  <1> QED BY <1>1, <1>2

(* CreateSig is the one step that adds a signing, and so new tokens.       *)
LEMMA CreateSigTyped ==
  ASSUME TypeOK, NEW p \in Procs, CreateSig(p), UNCHANGED <<job, edits>>
  PROVE  TypeOK'
  <1> DEFINE id == SigningOf(hdr[p].key, buf[p])
             h == [kind |-> "sig", key |-> hdr[p].key, id |-> id]
             new == [key |-> hdr[p].key, body |-> buf[p]]
             n == Len(signed)
  <1>1. CASE Fail(p)
    BY <1>1, FailTyped DEF Fail
  <1>2. ASSUME hdr' = [hdr EXCEPT ![p] = h],
               signed' = IF id <= n THEN signed ELSE Append(signed, new),
               Goto(p, "opensig"), UNCHANGED <<fs, buf, pos>>
        PROVE  TypeOK'
    <2>1. pc[p] = "createsig" /\ hdr[p].key \in Keys /\ n \in Nat
      BY DEF CreateSig, TypeOK, SecHeaders
    <2>2. id \in 1..(n + 1)
      BY SigningTyped DEF TypeOK
    <2> HIDE DEF id
    <2>3. CASE id <= n
      <3>1. h \in SigHeaders(n)
        BY <2>1, <2>2, <2>3 DEF SigHeaders
      <3> HIDE DEF h, new
      <3>2. hdr' \in [Procs -> Headers] /\ hdr'[p] = h /\ \A q \in Procs \ {p} : hdr'[q] = hdr[q]
        BY <1>2, <3>1, TypeParts DEF Headers
      <3>3. UNCHANGED signed
        BY <1>2, <2>3
      <3> QED BY <1>2, <3>1, <3>2, <3>3, TypeParts, TypeKept
    <2>4. CASE id = n + 1
      <3> DEFINE T1 == Tokens(n + 1)
      <3>1. h \in SigHeaders(n + 1)
        BY <2>1, <2>4 DEF SigHeaders
      <3>2. SigHeaders(n) \subseteq SigHeaders(n + 1) /\ T \subseteq T1
        BY <2>1, TokensGrow DEF T
      <3>3. Seq(T) \subseteq Seq(T1)
        BY <3>2, SeqGrows
      <3>4. new \in [key : Keys, body : Seq(T1)] /\ signed \in Seq([key : Keys, body : Seq(T)])
        BY <2>1, <3>3, TypeParts DEF TypeOK, T
      <3>5. [key : Keys, body : Seq(T)] \subseteq [key : Keys, body : Seq(T1)]
        BY <3>3
      <3>6. signed \in Seq([key : Keys, body : Seq(T1)])
        BY <3>4, <3>5, SeqGrows
      <3>7. signed' = Append(signed, new)
        BY <1>2, <2>1, <2>4
      <3> HIDE DEF h, new
      <3>8. signed' \in Seq([key : Keys, body : Seq(T1)]) /\ Len(signed') = n + 1
        BY <3>4, <3>6, <3>7
      <3>9. hdr' \in [Procs -> {NoHeader} \cup SecHeaders \cup SigHeaders(n + 1)]
        BY <1>2, <3>1, <3>2, TypeParts DEF Headers
      <3>10. \A q \in Procs :
               /\ pc'[q] \in {"opensec", "createsig"} => hdr'[q] \in SecHeaders
               /\ pc'[q] \in {"opensig", "readpub"} => hdr'[q] \in SigHeaders(n + 1)
        BY <1>2, <3>1, <3>2 DEF TypeOK
      <3>11. /\ DOMAIN fs' \subseteq Paths /\ \A f \in DOMAIN fs' : fs'[f] \in Seq(T1)
             /\ buf' \in [Procs -> Seq(T1)]
        BY <1>2, <3>3, TypeParts
      <3>12. /\ job' \in [Procs -> Jobs] /\ pos' \in [Procs -> Nat] /\ edits' \in 0..MaxEdits
             /\ pc' \in [Procs -> Final \cup Reading \cup Writing \cup
                  {"kdf", "opensec", "openpub", "readsec", "createsig", "opensig",
                   "readsig", "parse", "readpub", "openmsg"}]
        BY <1>2 DEF TypeOK
      <3> QED BY <3>8, <3>9, <3>10, <3>11, <3>12 DEF TypeOK
    <2> QED BY <2>1, <2>2, <2>3, <2>4
  <1> QED BY <1>1, <1>2 DEF CreateSig

LEMMA StepTyped ==
  ASSUME TypeOK, Opened, NEW p \in Procs, Step(p) \/ Stop(p), UNCHANGED <<job, edits>>
  PROVE  TypeOK'
  <1> DEFINE Same == UNCHANGED <<fs, buf, hdr, signed>>
  <1>1. CASE Kdf(p)
    <2>1. CASE Fail(p)
      BY <2>1, FailTyped DEF Fail
    <2>2. ASSUME NEW typed \in Typeable(job[p]),
                 hdr' = [hdr EXCEPT ![p] = [kind |-> "sec", key |-> p, pass |-> typed]],
                 Goto(p, "opensec"), UNCHANGED <<fs, buf, pos, signed>>
          PROVE  TypeOK'
      <3> DEFINE h == [kind |-> "sec", key |-> p, pass |-> typed]
      <3>1. h \in SecHeaders
        BY DEF SecHeaders, Keys, Typeable
      <3> HIDE DEF h
      <3>2. hdr' = [hdr EXCEPT ![p] = h]
        BY <2>2 DEF h
      <3>3. /\ hdr' \in [Procs -> Headers] /\ hdr'[p] = h
            /\ \A q \in Procs \ {p} : hdr'[q] = hdr[q]
        BY <3>1, <3>2, TypeParts DEF Headers
      <3> QED BY <2>2, <3>1, <3>3, TypeParts, TypeKept
    <2> QED BY <1>1, <2>1, <2>2 DEF Kdf
  <1>2. CASE OpenSec(p)
    BY <1>2, JobTyped, CreateTyped DEF OpenSec, JobType, TypeOK
  <1>3. CASE OpenPub(p)
    <2>1. [kind |-> "pub", key |-> p] \in PubHeaders
      BY DEF PubHeaders, Keys
    <2> QED BY <1>3, <2>1, JobTyped, CreateTyped DEF OpenPub, JobType
  <1>4. CASE OpenMsg(p)
    BY <1>4, FailTyped, TypeParts, TypeKept DEF OpenMsg, Fail
  <1>5. CASE ReadMsg(p)
    <2> DEFINE content == fs[InPath(p)]
    <2> PICK n \in 1..(Len(content) - pos[p]) :
          /\ buf' = [buf EXCEPT ![p] = @ \o SubSeq(content, pos[p] + 1, pos[p] + n)]
          /\ pos' = [pos EXCEPT ![p] = @ + n]
      BY <1>5 DEF ReadMsg
    <2> DEFINE more == SubSeq(content, pos[p] + 1, pos[p] + n)
    <2>0. InPath(p) \in DOMAIN fs
      BY <1>5 DEF ReadMsg, Opened
    <2>1. content \in Seq(T) /\ pos[p] \in Nat /\ n \in Nat /\ buf[p] \in Seq(T)
      BY <2>0, TypeParts
    <2> HIDE DEF content
    <2>2. more \in Seq(T)
      BY <2>1, PieceTyped
    <2>3. buf[p] \o more \in Seq(T) /\ pos[p] + n \in Nat
      BY <2>1, <2>2, SMTT(30)
    <2>4. buf' \in [Procs -> Seq(T)] /\ pos' \in [Procs -> Nat]
      BY <2>3, TypeParts
    <2>5. pc' = pc /\ UNCHANGED <<fs, hdr, signed>>
      BY <1>5 DEF ReadMsg
    <2> QED BY <2>4, <2>5 DEF TypeOK, T
  <1>6. CASE ReadMsgEof(p)
    <2>1. PICK l \in {"readsec", "parse", "readsig"} : Goto(p, l)
      BY <1>6 DEF ReadMsgEof
    <2>2. UNCHANGED <<fs, buf, pos, hdr, signed>>
      BY <1>6 DEF ReadMsgEof
    <2> QED BY <2>1, <2>2, TypeParts, TypeKept
  <1>7. CASE ReadSec(p)
    BY <1>7, HeadersTyped DEF ReadSec
  <1>8. CASE CreateSig(p)
    BY <1>8, CreateSigTyped
  <1>9. CASE OpenSig(p)
    <2>1. hdr[p] \in SigHeaders(Len(signed)) /\ buf[p] \in Seq(T) /\ Len(signed) \in Nat /\ << >> \in Seq(T)
      BY <1>9 DEF OpenSig, TypeOK, T
    <2>2. Header(hdr[p]) \in Seq(T)
      BY <2>1, HeaderTyped DEF T
    <2>3. Header(hdr[p]) \o (IF job[p].embedded THEN buf[p] ELSE << >>) \in Seq(T)
      BY <2>1, <2>2
    <2>4. DOMAIN fs' \subseteq Paths /\ \A f \in DOMAIN fs' : fs'[f] \in Seq(T)
      BY <1>9, <2>1, JobTyped, PutTyped DEF OpenSig, JobType
    <2>5. buf' \in [Procs -> Seq(T)] /\ pos' \in [Procs -> Nat]
      BY <1>9, <2>3, TypeParts DEF OpenSig
    <2> QED BY <1>9, <2>4, <2>5, TypeParts, TypeKept DEF OpenSig
  <1>10. CASE ReadSig(p)
    BY <1>10, HeadersTyped DEF ReadSig
  <1>11. CASE ParseEmbedded(p)
    <2> DEFINE headers == SigHeaders(Len(signed))
               h == HeaderOf(buf[p], headers)
    <2>1. CASE HasHeader(buf[p], headers)
      <3>1. h \in headers
        BY <2>1, HeaderFound
      <3>2. hdr' = [hdr EXCEPT ![p] = h] /\ Goto(p, "readpub") /\ UNCHANGED <<fs, pos, signed>>
            /\ buf' = [buf EXCEPT ![p] = AfterHeader(@)]
        BY <1>11, <2>1 DEF ParseEmbedded
      <3> HIDE DEF h
      <3>3. hdr' \in [Procs -> Headers] /\ hdr'[p] = h /\ \A q \in Procs \ {p} : hdr'[q] = hdr[q]
        BY <3>1, <3>2, TypeParts DEF Headers
      <3>4. AfterHeader(buf[p]) \in Seq(T)
        BY TypeParts DEF AfterHeader
      <3>5. buf' \in [Procs -> Seq(T)]
        BY <3>2, <3>4, TypeParts
      <3> QED BY <3>1, <3>2, <3>3, <3>5, TypeParts, TypeKept
    <2>2. CASE ~HasHeader(buf[p], headers)
      BY <1>11, <2>2, FailTyped DEF ParseEmbedded, Fail
    <2> QED BY <2>1, <2>2
  <1>12. CASE Verify(p)
    <2>1. CASE Fail(p)
      BY <2>1, FailTyped DEF Fail
    <2>2. CASE ~Fail(p)
      <3>1. PICK l \in {"openmsg", "ok"} : Goto(p, l)
        BY <1>12, <2>2 DEF Verify
      <3>2. UNCHANGED <<fs, buf, pos, hdr, signed>>
        BY <1>12, <2>2 DEF Verify
      <3> QED BY <3>1, <3>2, TypeParts, TypeKept
    <2> QED BY <2>1, <2>2
  <1>13. CASE OpenOut(p)
    <2>0. << >> \in Seq(T)
      OBVIOUS
    <2>1. DOMAIN fs' \subseteq Paths /\ \A f \in DOMAIN fs' : fs'[f] \in Seq(T)
      BY <1>13, <2>0, JobTyped, PutTyped DEF OpenOut, JobType
    <2>2. pos' \in [Procs -> Nat]
      BY <1>13, TypeParts DEF OpenOut
    <2> QED BY <1>13, <2>1, <2>2, TypeParts, TypeKept DEF OpenOut
  <1>14. CASE Write(p)
    <2> DEFINE f == OutPath(p)
    <2> PICK n \in 1..(Len(buf[p]) - pos[p]) :
          /\ Put(f, WriteAt(fs[f], pos[p], SubSeq(buf[p], pos[p] + 1, pos[p] + n)))
          /\ pos' = [pos EXCEPT ![p] = @ + n]
      BY <1>14 DEF Write
    <2>1. pos[p] \in Nat /\ n \in Nat /\ buf[p] \in Seq(T) /\ fs[f] \in Seq(T) /\ f \in Paths
      BY <1>14, TypeParts, JobTyped DEF Write, Opened
    <2>2. SubSeq(buf[p], pos[p] + 1, pos[p] + n) \in Seq(T)
      BY <2>1, PieceTyped
    <2>3. Nul \in T
      BY NamesAssumption DEF T, Tokens
    <2>4. WriteAt(fs[f], pos[p], SubSeq(buf[p], pos[p] + 1, pos[p] + n)) \in Seq(T)
      BY <2>1, <2>2, <2>3, WriteTyped
    <2>5. DOMAIN fs' \subseteq Paths /\ \A g \in DOMAIN fs' : fs'[g] \in Seq(T)
      BY <2>1, <2>4, PutTyped
    <2>6. pos' \in [Procs -> Nat]
      BY <2>1, TypeParts
    <2>7. UNCHANGED <<pc, buf, hdr, signed>>
      BY <1>14 DEF Write
    <2> QED BY <2>5, <2>6, <2>7 DEF TypeOK, T
  <1>15. CASE Close(p)
    <2>1. PICK l \in {"openpub", "ok"} : Goto(p, l)
      BY <1>15 DEF Close
    <2>2. UNCHANGED <<fs, buf, pos, hdr, signed>>
      BY <1>15 DEF Close
    <2> QED BY <2>1, <2>2, TypeParts, TypeKept
  <1>16. CASE Stop(p)
    BY <1>16, FailTyped DEF Stop
  <1> QED
    BY <1>1, <1>2, <1>3, <1>4, <1>5, <1>6, <1>7, <1>8, <1>9, <1>10, <1>11, <1>12, <1>13,
       <1>14, <1>15, <1>16 DEF Step, Generate, Sign, VerifyFile

LEMMA EditTyped == ASSUME TypeOK, Edit, Len(InitSigned) <= Len(signed), UNCHANGED <<job, pc>> PROVE TypeOK'
  <1> PICK e \in Edits : Put(e[1], e[2])
    BY DEF Edit
  <1>1. Len(InitSigned) \in Nat /\ Len(signed) \in Nat
    BY FilesAssumption DEF TypeOK
  <1>2. Seq(Tokens(Len(InitSigned))) \subseteq Seq(T)
    BY <1>1, TokensGrow, SeqGrows DEF T
  <1>3. e[1] \in Paths /\ e[2] \in Seq(T)
    BY <1>2, FilesAssumption
  <1>4. DOMAIN fs' \subseteq Paths /\ \A f \in DOMAIN fs' : fs'[f] \in Seq(T)
    BY <1>3, PutTyped
  <1>5. edits' \in 0..MaxEdits
    BY NamesAssumption DEF Edit, TypeOK
  <1>6. UNCHANGED <<job, pc, buf, pos, hdr, signed>>
    BY DEF Edit
  <1> QED BY <1>4, <1>5, <1>6 DEF TypeOK, T

(* Files are created and never removed, so what is open exists.            *)
LEMMA OpenedKept ==
  ASSUME TypeOK, Opened, NEW p \in Procs, Step(p) \/ Stop(p), UNCHANGED <<job, edits>>
  PROVE  Opened'
  <1> USE DEF Step, Generate, Sign, VerifyFile, Kdf, OpenSec, OpenPub, OpenMsg, ReadMsg, ReadMsgEof,
          ReadSec, CreateSig, OpenSig, ReadSig, ParseEmbedded, Verify, OpenOut, Write, Close, Stop
  <1>1. DOMAIN fs \subseteq DOMAIN fs'
    BY DEF Put, Create, ReadHeader, Fail
  <1>2. \A q \in Procs \ {p} : pc'[q] = pc[q]
    BY DEF TypeOK, Create, ReadHeader, Fail
  <1>3. \/ Kdf(p) \/ Close(p) \/ Stop(p)
        \/ OpenSec(p) \/ OpenPub(p) \/ OpenSig(p) \/ OpenOut(p) \/ Write(p)
        \/ OpenMsg(p) \/ ReadMsg(p) \/ ReadMsgEof(p)
        \/ ReadSec(p) \/ CreateSig(p) \/ ReadSig(p) \/ ParseEmbedded(p) \/ Verify(p)
    BY DEF Step, Generate, Sign, VerifyFile
  <1> HIDE DEF Step, Stop, Kdf, OpenSec, OpenPub, OpenMsg, ReadMsg, ReadMsgEof,
          ReadSec, CreateSig, OpenSig, ReadSig, ParseEmbedded, Verify, OpenOut, Write, Close
  <1>4. ASSUME pc'[p] \in Writing PROVE OutPath(p)' \in DOMAIN fs'
    <2>1. CASE OpenSec(p) \/ OpenPub(p) \/ OpenSig(p) \/ OpenOut(p)
      BY <1>4, <2>1 DEF TypeOK, OpenSec, OpenPub, OpenSig, OpenOut, Create, Fail, Put, OutPath
    <2>2. CASE Write(p)
      BY <1>1, <2>2 DEF TypeOK, Opened, OutPath, Write
    <2>3. CASE Kdf(p) \/ Close(p) \/ Stop(p)
      BY <1>4, <2>3 DEF TypeOK, Kdf, Close, Stop, Fail
    <2>4. CASE OpenMsg(p) \/ ReadMsg(p) \/ ReadMsgEof(p)
      BY <1>4, <2>4 DEF TypeOK, OpenMsg, ReadMsg, ReadMsgEof, Fail
    <2>5. CASE ReadSec(p) \/ CreateSig(p) \/ ReadSig(p) \/ ParseEmbedded(p) \/ Verify(p)
      BY <1>4, <2>5 DEF TypeOK, ReadSec, CreateSig, ReadSig, ParseEmbedded, Verify, ReadHeader, Fail
    <2> QED BY <1>3, <2>1, <2>2, <2>3, <2>4, <2>5
  <1>5. ASSUME pc'[p] = "read" PROVE InPath(p) \in DOMAIN fs'
    <2>1. CASE OpenMsg(p)
      BY <1>5, <2>1 DEF TypeOK, OpenMsg, Fail
    <2>2. CASE ReadMsg(p)
      BY <1>1, <2>2 DEF TypeOK, Opened, ReadMsg
    <2>3. CASE OpenSec(p) \/ OpenPub(p) \/ OpenSig(p) \/ OpenOut(p) \/ Write(p)
      BY <1>5, <2>3 DEF TypeOK, OpenSec, OpenPub, OpenSig, OpenOut, Write, Create, Fail
    <2>4. CASE Kdf(p) \/ Close(p) \/ Stop(p)
      BY <1>5, <2>4 DEF TypeOK, Kdf, Close, Stop, Fail
    <2>5. CASE ReadMsgEof(p) \/ ReadSec(p) \/ CreateSig(p) \/ ReadSig(p) \/ ParseEmbedded(p) \/ Verify(p)
      BY <1>5, <2>5 DEF TypeOK, ReadMsgEof, ReadSec, CreateSig, ReadSig, ParseEmbedded, Verify, ReadHeader, Fail
    <2> QED BY <1>3, <2>1, <2>2, <2>3, <2>4, <2>5
  <1> QED BY <1>1, <1>2, <1>4, <1>5 DEF Opened, InPath, OutPath, TypeOK

(* Signings are never forgotten.                                           *)
LEMMA SignedGrows ==
  ASSUME TypeOK, NEW p \in Procs, Step(p) \/ Stop(p)
  PROVE  Len(signed) <= Len(signed')
  <1>0. Len(signed) \in Nat /\ Len(signed) <= Len(signed)
    BY DEF TypeOK
  <1>1. CASE CreateSig(p)
    <2>1. CASE UNCHANGED signed
      BY <1>0, <2>1
    <2>2. CASE signed' = Append(signed, [key |-> hdr[p].key, body |-> buf[p]])
      BY <1>0, <2>2 DEF TypeOK
    <2> QED BY <1>1, <2>1, <2>2 DEF CreateSig, Fail
  <1>2. CASE ~CreateSig(p)
    <2>1. UNCHANGED signed
      BY <1>2 DEF Step, Generate, Sign, VerifyFile, Kdf, OpenSec, OpenPub, OpenMsg, ReadMsg, ReadMsgEof,
          ReadSec, OpenSig, ReadSig, ParseEmbedded, Verify, OpenOut, Write, Close, Stop,
          Create, ReadHeader, Fail
    <2> QED BY <1>0, <2>1
  <1> QED BY <1>1, <1>2

LEMMA Frame ==
  ASSUME NEW p \in Procs, Step(p) \/ Stop(p)
  PROVE  UNCHANGED <<job, edits>>
  BY DEF Step, Stop, Generate, Sign, VerifyFile, Kdf, OpenSec, OpenPub, OpenMsg, ReadMsg, ReadMsgEof,
         ReadSec, CreateSig, OpenSig, ReadSig, ParseEmbedded, Verify, OpenOut, Write, Close

LEMMA TypeNext == Typed /\ [Next]_vars => Typed'
  <1> SUFFICES ASSUME Typed, [Next]_vars PROVE Typed'
    OBVIOUS
  <1> USE DEF Typed
  <1>0. Len(InitSigned) \in Nat /\ Len(signed) \in Nat
    BY FilesAssumption DEF TypeOK
  <1>1. ASSUME NEW p \in Procs, Step(p) \/ Stop(p), UNCHANGED <<job, edits>>
        PROVE  Typed'
    <2>1. Len(signed) <= Len(signed') /\ TypeOK' /\ Opened'
      BY <1>1, SignedGrows, StepTyped, OpenedKept
    <2>2. Len(signed') \in Nat
      BY <2>1 DEF TypeOK
    <2> QED BY <1>0, <2>1, <2>2
  <1>2. CASE Edit
    <2>1. TypeOK'
      BY <1>2, EditTyped DEF Edit
    <2>2. Opened'
      BY <1>2 DEF Opened, InPath, OutPath, Edit, Put
    <2>3. UNCHANGED signed
      BY <1>2 DEF Edit
    <2> QED BY <2>1, <2>2, <2>3
  <1>3. CASE UNCHANGED vars
    BY <1>3 DEF vars, TypeOK, Opened, InPath, OutPath
  <1> QED BY <1>1, <1>2, <1>3, Frame DEF Next, Done

(* Whatever runs at the same time, every process keeps a header of the kind*)
(* its place in the program promises, and every file holds halves of       *)
(* headers and bytes of messages only (every handler of signify.c).        *)
THEOREM TypeCorrect == Spec => []TypeOK
  <1>1. Spec => []Typed
    BY TypeInit, TypeNext, PTL DEF Spec
  <1>2. Typed => TypeOK
    BY DEF Typed
  <1> QED BY <1>1, <1>2, PTL

-----------------------------------------------------------------------------
(* The key files.  The invariant that carries GeneratedPair, PubImpliesSec *)
(* and KeysNeverReplaced: what a -G is writing is the beginning of its own *)
(* header, no two processes write one key file, since each created its own *)
(* with O_EXCL, and what a -G has finished stays complete, as the writer of*)
(* a complete file has nothing left to write.                              *)

KeyWriting == {"writesec", "writepub"}
PubHeader(p) == [kind |-> "pub", key |-> p]
Written(p) == IF pc[p] = "writesec" THEN hdr[p] ELSE PubHeader(p)
Generated(p) == job[p].verb = "G" /\ pc[p] = "ok"

(* A process is at a place of its own command.                             *)
Placed ==
  \A p \in Procs :
    /\ pc[p] \in {"kdf", "opensec", "writesec", "openpub", "writepub"} => job[p].verb = "G"
    /\ pc[p] \in {"readsec", "createsig", "opensig", "writesig"} => job[p].verb = "S"
    /\ pc[p] \in {"openmsg", "writemsg"} => job[p].verb = "V" /\ job[p].embedded
    /\ pc[p] \in {"readsig", "parse", "readpub"} => job[p].verb = "V"
    /\ pc[p] \in Reading => job[p].verb \in {"S", "V"}

Drawn ==
  \A p \in Procs :
    pc[p] \in {"opensec", "writesec", "openpub", "writepub"} \/ Generated(p) =>
      hdr[p] \in SecHeaders /\ hdr[p].key = p

Partial ==
  \A p \in Procs : pc[p] \in KeyWriting =>
    /\ buf[p] = Header(Written(p))
    /\ pos[p] \in 0..2
    /\ fs[OutPath(p)] = SubSeq(buf[p], 1, pos[p])

Exclusive ==
  \A p, q \in Procs : p # q /\ pc[p] \in KeyWriting /\ pc[q] \in KeyWriting => OutPath(p) # OutPath(q)

Finished ==
  \A p \in Procs :
    /\ pc[p] \in {"openpub", "writepub"} \/ Generated(p) =>
         job[p].sec \in DOMAIN fs /\ fs[job[p].sec] = Header(hdr[p])
    /\ Generated(p) => job[p].pub \in DOMAIN fs /\ fs[job[p].pub] = Header(PubHeader(p))

SecOnDisk(p) ==
  /\ job[p].verb = "G"
  /\ job[p].sec \in DOMAIN fs
  /\ \E h \in SecHeaders : h.key = p /\ fs[job[p].sec] = Header(h)

SecFirst ==
  \A p \in Procs : \A f \in DOMAIN fs \cap KeyPaths :
    Len(fs[f]) > 0 /\ fs[f][1] = Half(1, PubHeader(p)) => SecOnDisk(p)

KeyInv == Placed /\ Drawn /\ Partial /\ Exclusive /\ Finished /\ SecFirst

LEMMA HeaderFacts ==
  ASSUME NEW h
  PROVE  Len(Header(h)) = 2 /\ Header(h)[1] = Half(1, h) /\ Header(h)[2] = Half(2, h)
  BY DEF Header

(* Writing the next piece of a header after a first piece gives a longer   *)
(* first piece.                                                            *)
LEMMA HeaderPieces ==
  ASSUME NEW h, NEW m \in 0..2, NEW n \in 1..(2 - m)
  PROVE  LET H == Header(h) IN
         WriteAt(SubSeq(H, 1, m), m, SubSeq(H, m + 1, m + n)) = SubSeq(H, 1, m + n)
  <1> DEFINE a == Half(1, h)
             b == Half(2, h)
  <1>1. Header(h) = <<a, b>>
    BY DEF Header
  <1> HIDE DEF a, b
  <1>2. CASE m = 0 /\ n = 1
    BY <1>1, <1>2 DEF WriteAt
  <1>3. CASE m = 0 /\ n = 2
    BY <1>1, <1>3 DEF WriteAt
  <1>4. CASE m = 1 /\ n = 1
    BY <1>1, <1>4 DEF WriteAt
  <1> QED BY <1>2, <1>3, <1>4

LEMMA HeaderWhole == ASSUME NEW h PROVE SubSeq(Header(h), 1, 2) = Header(h)
  <1> DEFINE a == Half(1, h)
             b == Half(2, h)
  <1>1. Header(h) = <<a, b>>
    BY DEF Header
  <1> HIDE DEF a, b
  <1>2. <<a, b>> \in Seq({a, b}) /\ Len(<<a, b>>) = 2
    OBVIOUS
  <1>3. \A s \in Seq({a, b}) : SubSeq(s, 1, Len(s)) = s
    OBVIOUS
  <1> QED BY <1>1, <1>2, <1>3

LEMMA HeaderPieceLen ==
  ASSUME NEW h, NEW m \in 0..2
  PROVE  Len(SubSeq(Header(h), 1, m)) = m
  <1>1. Header(h) = <<Half(1, h), Half(2, h)>>
    BY DEF Header
  <1>2. CASE m = 0
    BY <1>1, <1>2
  <1>3. CASE m = 1
    BY <1>1, <1>3
  <1>4. CASE m = 2
    BY <1>1, <1>4
  <1> QED BY <1>2, <1>3, <1>4

LEMMA KeyInit == Init => KeyInv
  <1> SUFFICES ASSUME Init PROVE KeyInv
    OBVIOUS
  <1>1. \A p \in Procs : job[p] \in Jobs /\ job[p].verb \in {"G", "S", "V"}
    BY JobsAssumption DEF Init, JobType
  <1>2. \A p \in Procs : pc[p] = IF job[p].verb = "G" THEN "kdf" ELSE "start"
    BY DEF Init
  <1>3. SecFirst
    BY FilesAssumption DEF Init, SecFirst, PubHeader
  <1> QED BY <1>1, <1>2, <1>3 DEF KeyInv, Placed, Drawn, Partial, Exclusive, Finished, Generated, KeyWriting

(* A step of a process that is no -G, or of an editor, leaves KeyInv alone:*)
(* it writes no key file.                                                  *)
LEMMA Undisturbed ==
  ASSUME Typed, KeyInv, Placed', UNCHANGED job,
         \A p \in Procs : job[p].verb = "G" =>
           pc'[p] = pc[p] /\ buf'[p] = buf[p] /\ pos'[p] = pos[p] /\ hdr'[p] = hdr[p],
         \A f \in KeyPaths : f \in DOMAIN fs' <=> f \in DOMAIN fs,
         \A f \in KeyPaths \cap DOMAIN fs : fs'[f] = fs[f]
  PROVE  KeyInv'
  <1> USE DEF KeyInv, Generated
  <1>1. \A p \in Procs : job[p].verb = "G" => job[p].sec \in KeyPaths /\ job[p].pub \in KeyPaths
    BY JobTyped DEF KeyPaths, Typed
  <1>2. \A p \in Procs : pc'[p] \in KeyWriting => job[p].verb = "G" /\ OutPath(p)' = OutPath(p)
    BY DEF Placed, KeyWriting, OutPath
  <1>3. Drawn'
    BY DEF Drawn, Placed
  <1>4. Partial'
    <2>1. \A p \in Procs : pc[p] \in KeyWriting => OutPath(p) \in KeyPaths \cap DOMAIN fs
      BY <1>1 DEF KeyWriting, OutPath, Placed, Typed, Opened
    <2> QED BY <1>2, <2>1 DEF Partial, KeyWriting, Written
  <1>5. Exclusive'
    BY <1>2 DEF Exclusive
  <1>6. Finished'
    BY <1>1 DEF Finished, Placed
  <1>7. SecFirst'
    BY <1>1 DEF SecFirst, SecOnDisk
  <1> QED BY <1>3, <1>4, <1>5, <1>6, <1>7

(* No other process notices a step of p.                                   *)
LEMMA Local ==
  ASSUME Typed, NEW p \in Procs, Step(p) \/ Stop(p)
  PROVE  \A q \in Procs \ {p} : pc'[q] = pc[q] /\ buf'[q] = buf[q] /\ pos'[q] = pos[q] /\ hdr'[q] = hdr[q]
  BY DEF Typed, TypeOK, Step, Generate, Sign, VerifyFile, Kdf, OpenSec, OpenPub, OpenMsg, ReadMsg, ReadMsgEof,
         ReadSec, CreateSig, OpenSig, ReadSig, ParseEmbedded, Verify, OpenOut, Write, Close, Stop,
         Create, ReadHeader, Fail

LEMMA PlacedKept ==
  ASSUME Typed, Placed, NEW p \in Procs, Step(p) \/ Stop(p), UNCHANGED job
  PROVE  Placed'
  <1>1. \A q \in Procs : job[q].verb \in {"G", "S", "V"}
    BY JobTyped DEF Typed
  <1>2. \A q \in Procs \ {p} : pc'[q] = pc[q]
    BY Local
  <1> DEFINE At(q, l) ==
        /\ l \in {"kdf", "opensec", "writesec", "openpub", "writepub"} => job[q].verb = "G"
        /\ l \in {"readsec", "createsig", "opensig", "writesig"} => job[q].verb = "S"
        /\ l \in {"openmsg", "writemsg"} => job[q].verb = "V" /\ job[q].embedded
        /\ l \in {"readsig", "parse", "readpub"} => job[q].verb = "V"
        /\ l \in Reading => job[q].verb \in {"S", "V"}
  <1>3. \A q \in Procs : At(q, pc[q])
    BY DEF Placed
  <1>4. At(p, pc'[p])
    <2>1. CASE Kdf(p) \/ OpenSec(p) \/ OpenPub(p) \/ OpenMsg(p) \/ ReadMsg(p) \/ ReadMsgEof(p)
      BY <1>1, <1>3, <2>1 DEF Typed, TypeOK, Kdf, OpenSec, OpenPub, OpenMsg, ReadMsg, ReadMsgEof, Create, Fail
    <2>2. CASE ReadSec(p) \/ CreateSig(p) \/ OpenSig(p) \/ ReadSig(p) \/ ParseEmbedded(p) \/ Verify(p)
      BY <1>1, <1>3, <2>2 DEF Typed, TypeOK, ReadSec, CreateSig, OpenSig, ReadSig, ParseEmbedded, Verify, ReadHeader, Fail
    <2>3. CASE OpenOut(p) \/ Write(p) \/ Close(p) \/ Stop(p)
      BY <1>1, <1>3, <2>3 DEF Typed, TypeOK, OpenOut, Write, Close, Stop
    <2> QED BY <2>1, <2>2, <2>3 DEF Step, Generate, Sign, VerifyFile
  <1>5. \A q \in Procs : At(q, pc'[q])
    BY <1>2, <1>3, <1>4
  <1> QED BY <1>5 DEF Placed

(* The writer of a key file continues its header.                          *)
LEMMA WriteKeyFile ==
  ASSUME Typed, KeyInv, NEW p \in Procs, Write(p), pc[p] \in KeyWriting
  PROVE  \E n \in 1..(2 - pos[p]) :
           /\ Put(OutPath(p), SubSeq(buf[p], 1, pos[p] + n))
           /\ pos' = [pos EXCEPT ![p] = @ + n]
  <1> DEFINE f == OutPath(p)
  <1>1. buf[p] = Header(Written(p)) /\ pos[p] \in 0..2 /\ fs[f] = SubSeq(buf[p], 1, pos[p])
    BY DEF KeyInv, Partial
  <1> PICK n \in 1..(Len(buf[p]) - pos[p]) :
        /\ Put(f, WriteAt(fs[f], pos[p], SubSeq(buf[p], pos[p] + 1, pos[p] + n)))
        /\ pos' = [pos EXCEPT ![p] = @ + n]
    BY DEF Write
  <1>2. n \in 1..(2 - pos[p])
    BY <1>1, HeaderFacts
  <1>3. WriteAt(fs[f], pos[p], SubSeq(buf[p], pos[p] + 1, pos[p] + n)) = SubSeq(buf[p], 1, pos[p] + n)
    BY <1>1, <1>2, HeaderPieces
  <1> QED BY <1>2, <1>3

(* What the writer of a key file finds complete it leaves as it is.        *)
LEMMA CompleteKept ==
  ASSUME Typed, KeyInv, NEW p \in Procs, Write(p), pc[p] \in KeyWriting,
         NEW f \in DOMAIN fs, NEW h, fs[f] = Header(h)
  PROVE  f \in DOMAIN fs' /\ fs'[f] = fs[f]
  <1> PICK n \in 1..(2 - pos[p]) : Put(OutPath(p), SubSeq(buf[p], 1, pos[p] + n))
    BY WriteKeyFile
  <1>1. CASE f # OutPath(p)
    BY <1>1 DEF Put
  <1>2. CASE f = OutPath(p)
    <2>1. buf[p] = Header(Written(p)) /\ pos[p] \in 0..2 /\ fs[f] = SubSeq(buf[p], 1, pos[p])
      BY <1>2 DEF KeyInv, Partial
    <2>2. Len(SubSeq(buf[p], 1, pos[p])) = pos[p]
      BY <2>1, HeaderPieceLen
    <2>3. pos[p] = 2
      BY <2>1, <2>2, HeaderFacts
    <2> QED BY <2>3
  <1> QED BY <1>1, <1>2

LEMMA KdfKept ==
  ASSUME Typed, KeyInv, Placed', NEW p \in Procs, Kdf(p), UNCHANGED job
  PROVE  KeyInv'
  <1>1. /\ UNCHANGED fs /\ pc[p] = "kdf" /\ pc'[p] \in {"opensec", "fail"}
        /\ pc'[p] = "opensec" => hdr'[p] \in SecHeaders /\ hdr'[p].key = p
    BY DEF Kdf, Typeable, Fail, Typed, TypeOK, SecHeaders, Keys
  <1>2. \A q \in Procs \ {p} : pc'[q] = pc[q] /\ buf'[q] = buf[q] /\ pos'[q] = pos[q] /\ hdr'[q] = hdr[q]
    BY Local DEF Step, Generate
  <1>3. \A q \in Procs : Generated(q)' <=> Generated(q)
    BY <1>1, <1>2 DEF Generated
  <1> USE DEF KeyInv
  <1>4. Drawn'
    BY <1>1, <1>2, <1>3 DEF Drawn, Generated
  <1>5. \A q \in Procs : pc'[q] \in KeyWriting => q # p /\ OutPath(q)' = OutPath(q) /\ Written(q)' = Written(q)
    BY <1>1, <1>2 DEF KeyWriting, OutPath, Written, PubHeader
  <1>6. Partial' /\ Exclusive'
    <2>1. \A q \in Procs : pc'[q] \in KeyWriting =>
            pc[q] \in KeyWriting /\ buf'[q] = buf[q] /\ pos'[q] = pos[q]
      BY <1>2, <1>5
    <2>2. Partial'
      BY <1>1, <1>5, <2>1 DEF Partial
    <2>3. Exclusive'
      BY <1>5, <2>1 DEF Exclusive
    <2> QED BY <2>2, <2>3
  <1>7. Finished'
    BY <1>1, <1>2, <1>3 DEF Finished, Generated
  <1>8. SecFirst'
    BY <1>1 DEF SecFirst, SecOnDisk
  <1> QED BY <1>4, <1>6, <1>7, <1>8

(* A process that ends leaves its files as they are.                       *)
LEMMA EndKept ==
  ASSUME Typed, KeyInv, Placed', NEW p \in Procs, pc'[p] \in {"fail", "stopped"},
         UNCHANGED <<fs, job>>, pc[p] # "ok",
         \A q \in Procs \ {p} : pc'[q] = pc[q] /\ buf'[q] = buf[q] /\ pos'[q] = pos[q] /\ hdr'[q] = hdr[q]
  PROVE  KeyInv'
  <1> USE DEF KeyInv
  <1>1. \A q \in Procs : Generated(q)' <=> Generated(q)
    BY DEF Generated
  <1>2. \A q \in Procs : pc'[q] \in KeyWriting => q # p /\ OutPath(q)' = OutPath(q) /\ Written(q)' = Written(q)
    BY DEF KeyWriting, OutPath, Written, PubHeader
  <1>3. Drawn'
    BY <1>1 DEF Drawn, Generated
  <1>4. Partial' /\ Exclusive'
    BY <1>2 DEF Partial, Exclusive
  <1>5. Finished'
    BY <1>1 DEF Finished, Generated
  <1>6. SecFirst'
    BY DEF SecFirst, SecOnDisk
  <1> QED BY <1>3, <1>4, <1>5, <1>6

(* O_EXCL: the new file is nobody else's, and empty.                       *)
LEMMA CreateKept ==
  ASSUME Typed, KeyInv, Placed', NEW p \in Procs, NEW path, NEW h, UNCHANGED <<job, hdr>>,
         path \notin DOMAIN fs, Put(path, << >>),
         buf' = [buf EXCEPT ![p] = Header(h)], pos' = [pos EXCEPT ![p] = 0],
         \/ pc[p] = "opensec" /\ pc' = [pc EXCEPT ![p] = "writesec"] /\ path = job[p].sec /\ h = hdr[p]
         \/ pc[p] = "openpub" /\ pc' = [pc EXCEPT ![p] = "writepub"] /\ path = job[p].pub /\ h = PubHeader(p)
  PROVE  KeyInv'
  <1> USE DEF KeyInv
  <1>1. /\ DOMAIN fs' = DOMAIN fs \cup {path} /\ fs'[path] = << >>
        /\ \A f \in DOMAIN fs : fs'[f] = fs[f]
    BY DEF Put
  <1>2. /\ pc'[p] \in KeyWriting /\ buf'[p] = Header(h) /\ pos'[p] = 0
        /\ OutPath(p)' = path /\ Written(p)' = h
    BY DEF Typed, TypeOK, KeyWriting, OutPath, Written, PubHeader
  <1>3. \A q \in Procs \ {p} : pc'[q] = pc[q] /\ buf'[q] = buf[q] /\ pos'[q] = pos[q]
    BY DEF Typed, TypeOK
  <1>4. \A q \in Procs \ {p} : OutPath(q)' = OutPath(q) /\ Written(q)' = Written(q)
    BY <1>3 DEF OutPath, Written, PubHeader
  <1>5. \A q \in Procs : pc[q] \in KeyWriting => OutPath(q) \in DOMAIN fs
    BY DEF Typed, Opened, KeyWriting
  <1>6. \A q \in Procs : Generated(q)' <=> Generated(q)
    BY <1>2, <1>3 DEF Generated, KeyWriting
  <1>7. Drawn'
    BY <1>2, <1>3, <1>6 DEF Drawn, KeyWriting, Generated
  <1>8. SubSeq(Header(h), 1, 0) = << >>
    BY DEF Header
  <1>9. Partial'
    <2>1. \A q \in Procs \ {p} : pc'[q] \in KeyWriting =>
            fs'[OutPath(q)'] = fs[OutPath(q)] /\ pc[q] \in KeyWriting
      BY <1>1, <1>3, <1>4, <1>5
    <2>2. \A q \in Procs \ {p} : pc'[q] \in KeyWriting =>
            /\ buf'[q] = Header(Written(q)')
            /\ pos'[q] \in 0..2
            /\ fs'[OutPath(q)'] = SubSeq(buf'[q], 1, pos'[q])
      BY <1>3, <1>4, <2>1 DEF Partial
    <2>3. /\ buf'[p] = Header(Written(p)')
          /\ pos'[p] \in 0..2
          /\ fs'[OutPath(p)'] = SubSeq(buf'[p], 1, pos'[p])
      BY <1>1, <1>2, <1>8
    <2> QED BY <2>2, <2>3 DEF Partial
  <1>10. Exclusive'
    BY <1>1, <1>2, <1>3, <1>4, <1>5 DEF Exclusive
  <1>11. Finished'
    BY <1>1, <1>2, <1>3, <1>6 DEF Finished, KeyWriting, Typed, TypeOK
  <1>12. SecFirst'
    BY <1>1 DEF SecFirst, SecOnDisk
  <1> QED BY <1>7, <1>9, <1>10, <1>11, <1>12

LEMMA WriteKept ==
  ASSUME Typed, KeyInv, NEW p \in Procs, Write(p), pc[p] \in KeyWriting, UNCHANGED job
  PROVE  KeyInv'
  <1> DEFINE f0 == OutPath(p)
  <1> PICK n \in 1..(2 - pos[p]) :
        /\ Put(f0, SubSeq(buf[p], 1, pos[p] + n))
        /\ pos' = [pos EXCEPT ![p] = @ + n]
    BY WriteKeyFile
  <1>1. UNCHANGED <<pc, buf, hdr, signed>>
    BY DEF Write
  <1>2. \A q \in Procs : OutPath(q)' = OutPath(q) /\ Written(q)' = Written(q) /\ (Generated(q)' <=> Generated(q))
    BY <1>1 DEF OutPath, Written, PubHeader, Generated
  <1>3. /\ buf[p] = Header(Written(p)) /\ pos[p] \in 0..2 /\ pos'[p] = pos[p] + n
        /\ f0 \in DOMAIN fs /\ DOMAIN fs' = DOMAIN fs
        /\ fs'[f0] = SubSeq(buf[p], 1, pos[p] + n)
        /\ \A f \in DOMAIN fs : f # f0 => fs'[f] = fs[f]
    BY DEF KeyInv, Partial, Typed, TypeOK, Opened, Put, KeyWriting
  <1>4. \A q \in Procs \ {p} : pos'[q] = pos[q]
    BY DEF Typed, TypeOK
  <1>5. \A f \in DOMAIN fs : \A h : fs[f] = Header(h) => fs'[f] = fs[f]
    BY CompleteKept
  <1>6. Placed' /\ Drawn'
    BY <1>1, <1>2 DEF KeyInv, Placed, Drawn
  <1>7. Partial'
    <2>1. \A q \in Procs \ {p} : pc[q] \in KeyWriting => OutPath(q) # f0 /\ OutPath(q) \in DOMAIN fs
      BY DEF KeyInv, Exclusive, KeyWriting, Typed, Opened
    <2>2. ASSUME NEW q \in Procs \ {p}, pc[q] \in KeyWriting
          PROVE  /\ buf[q] = Header(Written(q))
                 /\ pos'[q] \in 0..2
                 /\ fs'[OutPath(q)] = SubSeq(buf[q], 1, pos'[q])
      BY <1>3, <1>4, <2>1, <2>2 DEF KeyInv, Partial
    <2>3. pos'[p] \in 0..2
      BY <1>3
    <2> QED BY <1>1, <1>2, <1>3, <2>2, <2>3 DEF Partial
  <1>8. Exclusive'
    BY <1>1, <1>2 DEF KeyInv, Exclusive
  <1>9. Finished'
    BY <1>1, <1>2, <1>3, <1>5 DEF KeyInv, Finished
  <1>10. \A q \in Procs : SecOnDisk(q) => SecOnDisk(q)'
    BY <1>3, <1>5 DEF SecOnDisk
  <1>11. SecFirst'
    <2> SUFFICES ASSUME NEW q \in Procs, NEW f \in DOMAIN fs \cap KeyPaths,
                        Len(fs'[f]) > 0, fs'[f][1] = Half(1, PubHeader(q))
                 PROVE  SecOnDisk(q)'
      BY <1>3 DEF SecFirst
    <2>1. CASE f # f0
      BY <1>3, <1>10, <2>1 DEF KeyInv, SecFirst
    <2>2. CASE f = f0
      <3>1. fs'[f0][1] = Half(1, Written(p))
        <4>1. pos[p] + n \in 1..2
          BY <1>3
        <4>2. Header(Written(p)) = <<Half(1, Written(p)), Half(2, Written(p))>>
          BY DEF Header
        <4>3. CASE pos[p] + n = 1
          BY <1>3, <4>2, <4>3
        <4>4. CASE pos[p] + n = 2
          BY <1>3, <4>2, <4>4
        <4> QED BY <4>1, <4>3, <4>4
      <3>2. Written(p) = PubHeader(q)
        BY <2>2, <3>1 DEF Half
      <3>3. CASE pc[p] = "writesec"
        <4>1. hdr[p] \in SecHeaders /\ hdr[p] = PubHeader(q)
          BY <3>2, <3>3 DEF KeyInv, Drawn, Written
        <4> QED BY <4>1 DEF SecHeaders, PubHeader
      <3>4. CASE pc[p] = "writepub"
        <4>1. p = q
          BY <3>2, <3>4 DEF Written, PubHeader
        <4>2. SecOnDisk(p)
          BY <3>4 DEF KeyInv, Finished, Drawn, Placed, SecOnDisk
        <4> QED BY <1>10, <4>1, <4>2
      <3> QED BY <3>3, <3>4 DEF KeyWriting
    <2> QED BY <2>1, <2>2
  <1> QED BY <1>6, <1>7, <1>8, <1>9, <1>11 DEF KeyInv

(* A key file is closed only when all of its header is written.            *)
LEMMA CloseKept ==
  ASSUME Typed, KeyInv, Placed', NEW p \in Procs, Close(p), pc[p] \in KeyWriting, UNCHANGED job
  PROVE  KeyInv'
  <1>1. UNCHANGED <<fs, buf, pos, hdr, signed>> /\ pc'[p] \in {"openpub", "ok"}
        /\ (pc[p] = "writesec" <=> pc'[p] = "openpub") /\ (pc[p] = "writepub" <=> pc'[p] = "ok")
    BY DEF Close, KeyWriting, Typed, TypeOK
  <1>2. \A q \in Procs \ {p} : pc'[q] = pc[q]
    BY Local DEF Step
  <1>3. OutPath(p) \in DOMAIN fs /\ fs[OutPath(p)] = Header(Written(p))
    <2>1. buf[p] = Header(Written(p)) /\ pos[p] = 2 /\ fs[OutPath(p)] = SubSeq(buf[p], 1, 2)
      BY HeaderFacts DEF KeyInv, Partial, Close
    <2>2. SubSeq(Header(Written(p)), 1, 2) = Header(Written(p))
      BY HeaderWhole
    <2> QED BY <2>1, <2>2 DEF Typed, Opened, KeyWriting
  <1>4. \A q \in Procs : pc'[q] \in KeyWriting =>
          q # p /\ pc[q] \in KeyWriting /\ OutPath(q)' = OutPath(q) /\ Written(q)' = Written(q)
    BY <1>1, <1>2 DEF KeyWriting, OutPath, Written, PubHeader
  <1>5. Drawn'
    BY <1>1, <1>2 DEF KeyInv, Drawn, Generated, KeyWriting
  <1>6. Partial'
    BY <1>1, <1>4 DEF KeyInv, Partial
  <1>7. Exclusive'
    BY <1>4 DEF KeyInv, Exclusive
  <1>8. Finished'
    <2>0. ASSUME NEW q \in Procs \ {p}
          PROVE  /\ pc'[q] \in {"openpub", "writepub"} \/ Generated(q)' =>
                      job[q].sec \in DOMAIN fs /\ fs[job[q].sec] = Header(hdr[q])
                 /\ Generated(q)' => job[q].pub \in DOMAIN fs /\ fs[job[q].pub] = Header(PubHeader(q))
      BY <1>2 DEF KeyInv, Finished, Generated
    <2>1. CASE pc[p] = "writesec"
      <3>1. fs[job[p].sec] = Header(hdr[p]) /\ job[p].sec \in DOMAIN fs
        BY <1>3, <2>1 DEF OutPath, Written
      <3> QED BY <1>1, <2>0, <2>1, <3>1 DEF Finished, Generated
    <2>2. CASE pc[p] = "writepub"
      <3>1. fs[job[p].pub] = Header(PubHeader(p)) /\ job[p].pub \in DOMAIN fs
        BY <1>3, <2>2 DEF OutPath, Written
      <3>2. fs[job[p].sec] = Header(hdr[p]) /\ job[p].sec \in DOMAIN fs
        BY <2>2 DEF KeyInv, Finished
      <3> QED BY <1>1, <2>0, <2>2, <3>1, <3>2 DEF Finished, Generated
    <2> QED BY <2>1, <2>2 DEF KeyWriting
  <1>9. SecFirst'
    BY <1>1 DEF KeyInv, SecFirst, SecOnDisk
  <1> QED BY <1>5, <1>6, <1>7, <1>8, <1>9 DEF KeyInv

(* Every step that writes nothing a -G has created.                        *)
LEMMA OtherKept ==
  ASSUME Typed, KeyInv, Placed', NEW p \in Procs, Step(p), UNCHANGED job, job[p].verb # "G"
  PROVE  KeyInv'
  <1>1. \A f \in KeyPaths : (f \in DOMAIN fs' <=> f \in DOMAIN fs) /\ (f \in DOMAIN fs => fs'[f] = fs[f])
    <2>1. job[p] \in Jobs /\ (job[p].verb = "S" => job[p].sig \notin KeyPaths)
          /\ (job[p].verb = "V" /\ job[p].embedded => job[p].msg \notin KeyPaths)
      BY JobTyped, JobsAssumption DEF Typed
    <2>2. CASE OpenSig(p)
      BY <2>1, <2>2 DEF OpenSig, Put, KeyInv, Placed
    <2>3. CASE OpenOut(p)
      BY <2>1, <2>3 DEF OpenOut, Put, KeyInv, Placed
    <2>4. CASE Write(p)
      <3>1. OutPath(p) \notin KeyPaths
        BY <2>1, <2>4 DEF Write, OutPath, KeyInv, Placed
      <3>2. OutPath(p) \in DOMAIN fs
        BY <2>4 DEF Write, Typed, Opened
      <3> QED BY <2>4, <3>1, <3>2 DEF Write, Put
    <2>5. CASE ~(OpenSig(p) \/ OpenOut(p) \/ Write(p))
      <3>1. UNCHANGED fs
        BY <2>5 DEF Step, Generate, Sign, VerifyFile, Kdf, OpenSec, OpenPub, OpenMsg, ReadMsg, ReadMsgEof,
           ReadSec, CreateSig, ReadSig, ParseEmbedded, Verify, Close, ReadHeader, Fail, KeyInv, Placed
      <3> QED BY <3>1
    <2> QED BY <2>2, <2>3, <2>4, <2>5
  <1>2. \A q \in Procs : job[q].verb = "G" =>
          pc'[q] = pc[q] /\ buf'[q] = buf[q] /\ pos'[q] = pos[q] /\ hdr'[q] = hdr[q]
    BY Local
  <1> QED BY <1>1, <1>2, Undisturbed

LEMMA KeyNext == Typed /\ KeyInv /\ [Next]_vars => KeyInv'
  <1> SUFFICES ASSUME Typed, KeyInv, [Next]_vars PROVE KeyInv'
    OBVIOUS
  <1>1. ASSUME NEW p \in Procs, Step(p) \/ Stop(p), UNCHANGED <<job, edits>>
        PROVE  KeyInv'
    <2>1. Placed'
      BY <1>1, PlacedKept DEF KeyInv
    <2>2. \A q \in Procs \ {p} : pc'[q] = pc[q] /\ buf'[q] = buf[q] /\ pos'[q] = pos[q] /\ hdr'[q] = hdr[q]
      BY <1>1, Local
    <2>3. CASE Stop(p)
      BY <1>1, <2>1, <2>2, <2>3, EndKept DEF Stop, Typed, TypeOK
    <2>4. CASE Step(p) /\ job[p].verb # "G"
      BY <1>1, <2>1, <2>4, OtherKept
    <2>5. CASE Kdf(p)
      BY <1>1, <2>1, <2>5, KdfKept
    <2>6. CASE OpenSec(p)
      <3>1. CASE Fail(p)
        BY <1>1, <2>1, <2>2, <2>6, <3>1, EndKept DEF OpenSec, Fail, Typed, TypeOK
      <3>2. CASE ~Fail(p)
        BY <1>1, <2>1, <2>6, <3>2, CreateKept DEF OpenSec, Create
      <3> QED BY <3>1, <3>2
    <2>7. CASE OpenPub(p)
      <3>1. CASE Fail(p)
        BY <1>1, <2>1, <2>2, <2>7, <3>1, EndKept DEF OpenPub, Fail, Typed, TypeOK
      <3>2. CASE ~Fail(p)
        BY <1>1, <2>1, <2>7, <3>2, CreateKept DEF OpenPub, Create, PubHeader
      <3> QED BY <3>1, <3>2
    <2>8. CASE Write(p) /\ job[p].verb = "G"
      BY <1>1, <2>8, WriteKept DEF Write, KeyInv, Placed, KeyWriting
    <2>9. CASE Close(p) /\ job[p].verb = "G"
      BY <1>1, <2>1, <2>9, CloseKept DEF Close, KeyInv, Placed, KeyWriting
    <2> QED BY <1>1, <2>3, <2>4, <2>5, <2>6, <2>7, <2>8, <2>9
        DEF Step, Generate, Sign, VerifyFile, OpenMsg, ReadMsg, ReadMsgEof, ReadSec, CreateSig,
            OpenSig, ReadSig, ParseEmbedded, Verify, OpenOut, KeyInv, Placed
  <1>2. CASE Edit
    <2>1. UNCHANGED <<job, pc, buf, pos, hdr, signed>> /\ Placed'
      BY <1>2 DEF Edit, KeyInv, Placed
    <2>2. \A f \in KeyPaths : (f \in DOMAIN fs' <=> f \in DOMAIN fs) /\ (f \in DOMAIN fs => fs'[f] = fs[f])
      BY <1>2, JobsAssumption DEF Edit, Put
    <2> QED BY <2>1, <2>2, Undisturbed
  <1>3. CASE UNCHANGED vars
    BY <1>3, Undisturbed DEF vars, KeyInv, Placed
  <1> QED BY <1>1, <1>2, <1>3, Frame DEF Next, Done

LEMMA KeysInvariant == Spec => [](Typed /\ KeyInv)
  BY TypeInit, TypeNext, KeyInit, KeyNext, PTL DEF Spec

(* signify -G that ends with success leaves a complete pair of its own,    *)
(* whatever other commands do at the same time (generate, writekeyfile).   *)
THEOREM PairsComplete == Spec => []GeneratedPair
  <1>1. KeyInv => GeneratedPair
    BY DEF KeyInv, GeneratedPair, Finished, Generated, Owns, PubHeader
  <1> QED BY <1>1, KeysInvariant, PTL

(* No byte of a generated public key is on disk without its secret key:    *)
(* generate writes the secret key file first and in full.                  *)
THEOREM SecretBeforePublic == Spec => []PubImpliesSec
  <1>1. KeyInv => PubImpliesSec
    BY DEF KeyInv, SecFirst, SecOnDisk, PubImpliesSec, PubHeader
  <1> QED BY <1>1, KeysInvariant, PTL

LEMMA HeaderPrefix ==
  ASSUME NEW h, NEW m \in 0..2, NEW n \in 1..(2 - m)
  PROVE  IsPrefix(SubSeq(Header(h), 1, m), SubSeq(Header(h), 1, m + n))
  <1> DEFINE a == Half(1, h)
             b == Half(2, h)
  <1>1. Header(h) = <<a, b>>
    BY DEF Header
  <1> HIDE DEF a, b
  <1>2. CASE m = 0 /\ n = 1
    BY <1>1, <1>2 DEF IsPrefix
  <1>3. CASE m = 0 /\ n = 2
    BY <1>1, <1>3 DEF IsPrefix
  <1>4. CASE m = 1 /\ n = 1
    BY <1>1, <1>4 DEF IsPrefix
  <1> QED BY <1>2, <1>3, <1>4

LEMMA KeysGrow ==
  ASSUME Typed, KeyInv, [Next]_vars, NEW f \in DOMAIN fs \cap KeyPaths
  PROVE  f \in DOMAIN fs' /\ IsPrefix(fs[f], fs'[f])
  <1>1. fs[f] \in Seq(T)
    BY TypeParts DEF Typed
  <1>2. IsPrefix(fs[f], fs[f])
    BY <1>1 DEF IsPrefix
  <1>3. ASSUME NEW p \in Procs, Step(p) \/ Stop(p), UNCHANGED <<job, edits>>
        PROVE  f \in DOMAIN fs' /\ IsPrefix(fs[f], fs'[f])
    <2>1. job[p] \in Jobs /\ (job[p].verb = "S" => job[p].sig \notin KeyPaths)
          /\ (job[p].verb = "V" /\ job[p].embedded => job[p].msg \notin KeyPaths)
      BY JobTyped, JobsAssumption DEF Typed
    <2>2. CASE OpenSig(p) \/ OpenOut(p)
      BY <1>2, <2>1, <2>2 DEF OpenSig, OpenOut, Put, KeyInv, Placed
    <2>3. CASE Write(p) /\ pc[p] \notin KeyWriting
      <3>1. OutPath(p) # f
        BY <2>1, <2>3 DEF Write, OutPath, KeyWriting, KeyInv, Placed
      <3> QED BY <1>2, <2>3, <3>1 DEF Write, Put
    <2>4. CASE Write(p) /\ pc[p] \in KeyWriting
      <3> PICK n \in 1..(2 - pos[p]) : Put(OutPath(p), SubSeq(buf[p], 1, pos[p] + n))
        BY <2>4, WriteKeyFile
      <3>1. CASE f # OutPath(p)
        BY <1>2, <3>1 DEF Put
      <3>2. CASE f = OutPath(p)
        <4>1. /\ buf[p] = Header(Written(p)) /\ pos[p] \in 0..2 /\ fs[f] = SubSeq(buf[p], 1, pos[p])
              /\ f \in DOMAIN fs' /\ fs'[f] = SubSeq(buf[p], 1, pos[p] + n)
          BY <2>4, <3>2 DEF KeyInv, Partial, Put
        <4> QED BY <4>1, HeaderPrefix
      <3> QED BY <3>1, <3>2
    <2>5. CASE OpenSec(p) \/ OpenPub(p)
      BY <1>2, <2>5 DEF OpenSec, OpenPub, Create, Put, Fail
    <2>6. CASE ~(OpenSig(p) \/ OpenOut(p) \/ Write(p) \/ OpenSec(p) \/ OpenPub(p))
      <3>1. UNCHANGED fs
        BY <1>3, <2>6 DEF Step, Stop, Generate, Sign, VerifyFile, Kdf, OpenMsg, ReadMsg, ReadMsgEof,
           ReadSec, CreateSig, ReadSig, ParseEmbedded, Verify, Close, ReadHeader, Fail
      <3> QED BY <1>2, <3>1
    <2> QED BY <2>2, <2>3, <2>4, <2>5, <2>6
  <1>4. CASE Edit
    BY <1>2, <1>4, JobsAssumption DEF Edit, Put
  <1>5. CASE UNCHANGED vars
    BY <1>2, <1>5 DEF vars
  <1> QED BY <1>3, <1>4, <1>5, Frame DEF Next, Done

(* No command ever changes a byte that is in a key file: it is continued by*)
(* the process that created it, and by nobody else (writekeyfile).         *)
THEOREM KeysKept == Spec => KeysNeverReplaced
  <1>1. Typed /\ KeyInv /\ [Next]_vars =>
          [\A f \in DOMAIN fs \cap KeyPaths : f \in DOMAIN fs' /\ IsPrefix(fs[f], fs'[f])]_vars
    BY KeysGrow
  <1> QED BY <1>1, KeysInvariant, PTL DEF Spec, KeysNeverReplaced

-----------------------------------------------------------------------------
(* What is written: -S and -V -e                                           *)

(* The commands that write an output file: -S, and -V with -e.             *)
Emits(p) == job[p].verb = "S" \/ (job[p].verb = "V" /\ job[p].embedded)
Target(p) == IF job[p].verb = "S" THEN job[p].sig ELSE job[p].msg
Alone(p) == SoleWriter(p, Target(p))
Unopened == {"start", "read", "readsec", "createsig", "opensig", "readsig", "parse", "readpub", "openmsg", "fail"}

(* The output file is as it was at the start.                              *)
Kept(p) ==
  IF Target(p) \in DOMAIN Files THEN Target(p) \in DOMAIN fs /\ fs[Target(p)] = Files[Target(p)]
  ELSE Target(p) \notin DOMAIN fs
Holds(p, content) == Target(p) \in DOMAIN fs /\ fs[Target(p)] = content

(* The header in memory is of a signature that exists, and what is to be   *)
(* written is the message that was signed.                                 *)
Genuine(p) == hdr[p] \in SigHeaders(Len(signed)) /\ signed[hdr[p].id].key = hdr[p].key
Body(p) == signed[hdr[p].id].body
Due(p) ==
  IF job[p].verb = "V" THEN Body(p)
  ELSE Header(hdr[p]) \o (IF job[p].embedded THEN Body(p) ELSE << >>)
Piece(p) == \E i \in 1..Len(signed) : IsPrefix(fs[Target(p)], signed[i].body)

OutputAt(p) ==
  /\ pc[p] \in Unopened => (Alone(p) => Kept(p))
  /\ pc[p] \in {"opensig", "openmsg"} => Genuine(p) /\ buf[p] = Body(p)
  /\ pc[p] \in {"writesig", "writemsg"} =>
       /\ Genuine(p) /\ buf[p] = Due(p) /\ pos[p] <= Len(buf[p])
       /\ Alone(p) => Holds(p, SubSeq(buf[p], 1, pos[p]))
  /\ pc[p] = "ok" => Genuine(p) /\ (Alone(p) => Holds(p, Due(p)))
  /\ pc[p] = "stopped" /\ job[p].verb = "V" /\ Alone(p) /\ Target(p) \in DOMAIN fs =>
       Kept(p) \/ Piece(p)

OutputInv == \A p \in Procs : Emits(p) => OutputAt(p)

-----------------------------------------------------------------------------
LEMMA WritePieces ==
  ASSUME NEW B, NEW b \in Seq(B), NEW m \in Nat, m <= Len(b), NEW n \in 1..(Len(b) - m)
  PROVE  WriteAt(SubSeq(b, 1, m), m, SubSeq(b, m + 1, m + n)) = SubSeq(b, 1, m + n)
  <1> DEFINE s == SubSeq(b, 1, m)
             t == SubSeq(b, m + 1, m + n)
             w == SubSeq(b, 1, m + n)
  <1>0. Len(b) \in Nat /\ n \in Nat /\ m + n <= Len(b) /\ n >= 1
    OBVIOUS
  <1>1. Len(s) = m /\ \A i \in 1..m : s[i] = b[i]
    BY <1>0
  <1>2. Len(t) = n /\ \A i \in 1..n : t[i] = b[m + i]
    BY <1>0, SMTT(30)
  <1>3. w = [i \in 1..(m + n) |-> b[i]]
    BY <1>0
  <1> HIDE DEF s, t, w
  <1> DEFINE v(i) == IF i > m /\ i <= m + n THEN t[i - m] ELSE IF i <= m THEN s[i] ELSE Nul
  <1>4. WriteAt(s, m, t) = [i \in 1..(m + n) |-> v(i)]
    BY <1>0, <1>1, <1>2 DEF WriteAt
  <1>5. ASSUME NEW i \in 1..(m + n) PROVE v(i) = b[i]
    <2>1. CASE i > m
      <3>1. i - m \in 1..n /\ m + (i - m) = i
        BY <1>0, <2>1
      <3>2. t[i - m] = b[m + (i - m)]
        BY <1>2, <3>1
      <3> QED BY <1>0, <2>1, <3>1, <3>2
    <2>2. CASE i <= m
      <3>1. i \in 1..m
        BY <2>2
      <3> QED BY <1>1, <2>2, <3>1
    <2> QED BY <1>0, <2>1, <2>2
  <1> HIDE DEF v
  <1>6. [i \in 1..(m + n) |-> v(i)] = [i \in 1..(m + n) |-> b[i]]
    BY <1>5
  <1> QED BY <1>3, <1>4, <1>6 DEF s, t, w

LEMMA PieceIsPrefix ==
  ASSUME NEW B, NEW b \in Seq(B), NEW m \in Nat, m <= Len(b)
  PROVE  IsPrefix(SubSeq(b, 1, m), b)
  <1>1. Len(SubSeq(b, 1, m)) = m /\ \A i \in 1..m : SubSeq(b, 1, m)[i] = b[i]
    OBVIOUS
  <1> QED BY <1>1 DEF IsPrefix

LEMMA BehindHeader ==
  ASSUME NEW B, NEW h, NEW body \in Seq(B)
  PROVE  StartsWith(Header(h) \o body, h) /\ AfterHeader(Header(h) \o body) = body
  <1> DEFINE a == Half(1, h)
             b == Half(2, h)
             C == B \cup {a, b}
             s == Header(h) \o body
  <1>1. Header(h) = <<a, b>> /\ <<a, b>> \in Seq(C) /\ body \in Seq(C)
    BY DEF Header
  <1>2. Len(body) \in Nat
    OBVIOUS
  <1> HIDE DEF a, b, C
  <1>3. /\ s \in Seq(C) /\ Len(s) = 2 + Len(body) /\ s[1] = a /\ s[2] = b
        /\ \A i \in 1..Len(body) : s[i + 2] = body[i]
    BY <1>1, <1>2
  <1> HIDE DEF s
  <1>4. StartsWith(s, h)
    BY <1>2, <1>3 DEF StartsWith, a, b
  <1>5. SubSeq(s, 3, Len(s)) = body
    <2>1. SubSeq(s, 3, Len(s)) \in Seq(C) /\ Len(SubSeq(s, 3, Len(s))) = Len(body)
      BY <1>2, <1>3
    <2>2. \A i \in 1..Len(body) : SubSeq(s, 3, Len(s))[i] = body[i]
      BY <1>2, <1>3
    <2> DEFINE r == SubSeq(s, 3, Len(s))
    <2> HIDE DEF r
    <2>3. r \in Seq(C) /\ Len(r) = Len(body) /\ \A i \in 1..Len(body) : r[i] = body[i]
      BY <2>1, <2>2 DEF r
    <2>4. r = body
      BY <1>1, <2>3
    <2> QED BY <2>4 DEF r
  <1> QED BY <1>4, <1>5 DEF s, AfterHeader

-----------------------------------------------------------------------------
(* What a step leaves alone: signings are never changed, and a process     *)
(* writes no file but the outputs of its command.                          *)
LEMMA SigningsStay ==
  ASSUME TypeOK, NEW p \in Procs, Step(p) \/ Stop(p)
  PROVE  \A i \in 1..Len(signed) : signed'[i] = signed[i]
  <1>1. CASE CreateSig(p)
    <2>1. CASE UNCHANGED signed
      BY <2>1
    <2>2. CASE signed' = Append(signed, [key |-> hdr[p].key, body |-> buf[p]])
      BY <2>2 DEF TypeOK
    <2> QED BY <1>1, <2>1, <2>2 DEF CreateSig, Fail
  <1>2. CASE ~CreateSig(p)
    <2>1. UNCHANGED signed
      BY <1>2 DEF Step, Generate, Sign, VerifyFile, Kdf, OpenSec, OpenPub, OpenMsg, ReadMsg, ReadMsgEof,
          ReadSec, OpenSig, ReadSig, ParseEmbedded, Verify, OpenOut, Write, Close, Stop,
          Create, ReadHeader, Fail
    <2> QED BY <2>1
  <1> QED BY <1>1, <1>2

FileStays(f) == (f \in DOMAIN fs' <=> f \in DOMAIN fs) /\ (f \in DOMAIN fs => fs'[f] = fs[f])

LEMMA OnlyOutputsWritten ==
  ASSUME Typed, Placed, NEW p \in Procs, Step(p) \/ Stop(p), NEW f, f \notin Outputs(job[p])
  PROVE  FileStays(f)
  <1>0. job[p].verb \in {"G", "S", "V"}
    BY JobTyped DEF Typed
  <1>1. CASE UNCHANGED fs
    BY <1>1 DEF FileStays
  <1>2. ASSUME NEW path \in Outputs(job[p]), NEW content, Put(path, content)
        PROVE  FileStays(f)
    BY <1>2 DEF Put, FileStays
  <1>3. CASE OpenSec(p) \/ OpenPub(p)
    <2>1. {job[p].sec, job[p].pub} \subseteq Outputs(job[p])
      BY <1>3 DEF OpenSec, OpenPub, Placed, Outputs
    <2> QED BY <1>1, <1>2, <1>3, <2>1 DEF OpenSec, OpenPub, Create, Fail
  <1>4. CASE OpenSig(p)
    <2>1. job[p].sig \in Outputs(job[p])
      BY <1>4 DEF OpenSig, Placed, Outputs
    <2> QED BY <1>2, <1>4, <2>1 DEF OpenSig
  <1>5. CASE OpenOut(p)
    <2>1. job[p].msg \in Outputs(job[p])
      BY <1>5 DEF OpenOut, Placed, Outputs
    <2> QED BY <1>2, <1>5, <2>1 DEF OpenOut
  <1>6. CASE Write(p)
    <2>1. pc[p] \in Writing
      BY <1>6 DEF Write
    <2>2. CASE pc[p] = "writesec"
      BY <1>2, <1>6, <2>2 DEF Write, Placed, Outputs, OutPath
    <2>3. CASE pc[p] = "writepub"
      BY <1>2, <1>6, <2>3 DEF Write, Placed, Outputs, OutPath
    <2>4. CASE pc[p] = "writesig"
      BY <1>2, <1>6, <2>4 DEF Write, Placed, Outputs, OutPath
    <2>5. CASE pc[p] = "writemsg"
      BY <1>2, <1>6, <2>5 DEF Write, Placed, Outputs, OutPath
    <2> QED BY <2>1, <2>2, <2>3, <2>4, <2>5
  <1>7. CASE ~(OpenSec(p) \/ OpenPub(p) \/ OpenSig(p) \/ OpenOut(p) \/ Write(p))
    <2>1. UNCHANGED fs
      BY <1>7 DEF Step, Stop, Generate, Sign, VerifyFile, Kdf, OpenMsg, ReadMsg, ReadMsgEof,
           ReadSec, CreateSig, ReadSig, ParseEmbedded, Verify, Close, ReadHeader, Fail
    <2> QED BY <1>1, <2>1
  <1> QED BY <1>3, <1>4, <1>5, <1>6, <1>7

LEMMA TargetIsOutput ==
  ASSUME NEW p \in Procs, Emits(p)
  PROVE  Outputs(job[p]) = {Target(p)}
  BY DEF Emits, Target, Outputs

(* The types of what OutputAt speaks of.                                   *)
LEMMA BodyTyped ==
  ASSUME TypeOK, NEW i \in 1..Len(signed)
  PROVE  signed[i].body \in Seq(T)
  <1>1. signed \in Seq([key : Keys, body : Seq(T)])
    BY DEF TypeOK, T
  <1> DEFINE R == [key : Keys, body : Seq(T)]
  <1>2. signed[i] \in R
    <2>1. signed \in Seq(R)
      BY <1>1
    <2> HIDE DEF R
    <2> QED BY <2>1
  <1> QED BY <1>2

LEMMA GenuineTyped ==
  ASSUME TypeOK, NEW p \in Procs, Genuine(p)
  PROVE  /\ hdr[p].id \in 1..Len(signed)
         /\ Body(p) \in Seq(T)
         /\ Header(hdr[p]) \in Seq(T)
         /\ Due(p) \in Seq(T)
  <1>1. hdr[p].id \in 1..Len(signed) /\ Len(signed) \in Nat
    BY DEF Genuine, SigHeaders, TypeOK
  <1>2. Body(p) \in Seq(T) /\ << >> \in Seq(T)
    BY <1>1, BodyTyped DEF Body
  <1>3. Header(hdr[p]) \in Seq(T)
    BY <1>1, HeaderTyped DEF Genuine, T
  <1>4. Due(p) \in Seq(T)
    BY <1>2, <1>3 DEF Due
  <1> QED BY <1>1, <1>2, <1>3, <1>4

(* What is true of the output of p stays true when p does nothing and,     *)
(* if nobody else may write that file, the file stays as it is.            *)
LEMMA OutputUndisturbed ==
  ASSUME TypeOK, NEW p \in Procs, Emits(p), OutputAt(p), UNCHANGED job,
         pc'[p] = pc[p], buf'[p] = buf[p], pos'[p] = pos[p], hdr'[p] = hdr[p],
         Len(signed) <= Len(signed'), Len(signed') \in Nat,
         \A i \in 1..Len(signed) : signed'[i] = signed[i],
         Alone(p) => FileStays(Target(p))
  PROVE  OutputAt(p)'
  <1>0. Target(p)' = Target(p) /\ (Alone(p)' <=> Alone(p)) /\ Len(signed) \in Nat
    BY DEF Target, Alone, SoleWriter, TypeOK
  <1>1. ASSUME Genuine(p) PROVE Genuine(p)' /\ Body(p)' = Body(p) /\ Due(p)' = Due(p)
    <2>1. hdr[p].id \in 1..Len(signed)
      BY <1>1 DEF Genuine, SigHeaders
    <2>2. SigHeaders(Len(signed)) \subseteq SigHeaders(Len(signed'))
      BY <1>0, TokensGrow
    <2>3. signed'[hdr[p].id] = signed[hdr[p].id]
      BY <2>1
    <2> QED BY <1>1, <2>2, <2>3 DEF Genuine, Body, Due
  <1>2. ASSUME Alone(p), Kept(p) PROVE Kept(p)'
    BY <1>0, <1>2 DEF Kept, FileStays
  <1>3. ASSUME Alone(p), Target(p) \in DOMAIN fs, Piece(p) PROVE Piece(p)'
    <2> PICK i \in 1..Len(signed) : IsPrefix(fs[Target(p)], signed[i].body)
      BY <1>3 DEF Piece
    <2>1. i \in 1..Len(signed') /\ signed'[i] = signed[i] /\ fs'[Target(p)] = fs[Target(p)]
      BY <1>0, <1>3 DEF FileStays
    <2> QED BY <1>0, <2>1 DEF Piece
  <1>4. ASSUME NEW c, Alone(p), Holds(p, c) PROVE Holds(p, c)'
    BY <1>0, <1>4 DEF Holds, FileStays
  <1>5. pc'[p] \in Unopened => (Alone(p)' => Kept(p)')
    BY <1>0, <1>2 DEF OutputAt
  <1>6. pc'[p] \in {"opensig", "openmsg"} => Genuine(p)' /\ buf'[p] = Body(p)'
    BY <1>1 DEF OutputAt
  <1>7. pc'[p] \in {"writesig", "writemsg"} =>
          /\ Genuine(p)' /\ buf'[p] = Due(p)' /\ pos'[p] <= Len(buf'[p])
          /\ Alone(p)' => Holds(p, SubSeq(buf[p], 1, pos[p]))'
    BY <1>0, <1>1, <1>4 DEF OutputAt
  <1>8. pc'[p] = "ok" => Genuine(p)' /\ (Alone(p)' => Holds(p, Due(p))')
    <2>1. ASSUME pc[p] = "ok", Alone(p) PROVE Holds(p, Due(p))'
      <3>1. Genuine(p) /\ Target(p) \in DOMAIN fs /\ fs[Target(p)] = Due(p)
        BY <2>1 DEF OutputAt, Holds
      <3>2. Due(p)' = Due(p)
        BY <1>1, <3>1
      <3>3. Target(p) \in DOMAIN fs' /\ fs'[Target(p)] = Due(p)
        BY <2>1, <3>1 DEF FileStays
      <3> QED BY <1>0, <3>2, <3>3 DEF Holds
    <2> QED BY <1>0, <1>1, <2>1 DEF OutputAt
  <1>9. pc'[p] = "stopped" /\ job'[p].verb = "V" /\ Alone(p)' /\ Target(p)' \in DOMAIN fs' => Kept(p)' \/ Piece(p)'
    BY <1>0, <1>2, <1>3 DEF OutputAt, FileStays
  <1> QED BY <1>5, <1>6, <1>7, <1>8, <1>9 DEF OutputAt

-----------------------------------------------------------------------------
(* The steps of the process itself.  Until it opens the output file it has *)
(* written nothing.                                                        *)
Before == {"start", "read", "readsec", "createsig", "readsig", "parse", "readpub", "fail"}

LEMMA StaysUnopened ==
  ASSUME NEW p \in Procs, Emits(p), OutputAt(p), UNCHANGED <<fs, job>>,
         pc[p] \in Unopened, pc'[p] \in Before
  PROVE  OutputAt(p)'
  <1>1. Alone(p) => Kept(p)
    BY DEF OutputAt
  <1>2. (Alone(p)' <=> Alone(p)) /\ (Kept(p)' <=> Kept(p))
    BY DEF Alone, SoleWriter, Target, Kept
  <1>3. /\ pc'[p] \in Unopened
        /\ pc'[p] \notin {"opensig", "openmsg", "writesig", "writemsg", "ok", "stopped"}
    BY DEF Before, Unopened
  <1> QED BY <1>1, <1>2, <1>3 DEF OutputAt

(* createsig signs what is in memory, or finds that it was signed before.  *)
LEMMA CreateSigOutput ==
  ASSUME Typed, Placed, NEW p \in Procs, Emits(p), OutputAt(p), CreateSig(p)
  PROVE  OutputAt(p)'
  <1> DEFINE id == SigningOf(hdr[p].key, buf[p])
             h == [kind |-> "sig", key |-> hdr[p].key, id |-> id]
             new == [key |-> hdr[p].key, body |-> buf[p]]
             n == Len(signed)
  <1>0. pc \in [Procs -> Final \cup Reading \cup Writing \cup
               {"kdf", "opensec", "openpub", "readsec", "createsig", "opensig",
                "readsig", "parse", "readpub", "openmsg"}] /\ pc[p] = "createsig"
    BY DEF Typed, TypeOK, CreateSig
  <1>1. CASE Fail(p)
    <2>1. UNCHANGED <<fs, job>> /\ pc'[p] = "fail"
      BY <1>0, <1>1 DEF Fail, CreateSig
    <2> QED BY <1>0, <2>1, StaysUnopened DEF Unopened, Before
  <1>2. ASSUME hdr' = [hdr EXCEPT ![p] = h],
               signed' = IF id <= n THEN signed ELSE Append(signed, new),
               Goto(p, "opensig"), UNCHANGED <<fs, buf, pos>>
        PROVE  OutputAt(p)'
    <2>1. hdr[p].key \in Keys /\ n \in Nat /\ hdr \in [Procs -> Headers]
      BY <1>0, TypeParts DEF Typed, TypeOK, SecHeaders
    <2>2. id \in 1..(n + 1) /\ (id <= n => signed[id] = new)
      BY SigningTyped DEF Typed, TypeOK
    <2>3. signed \in Seq([key : Keys, body : Seq(T)])
      BY DEF Typed, TypeOK, T
    <2>4. h.id = id /\ h.key = hdr[p].key /\ new.key = hdr[p].key /\ new.body = buf[p]
      OBVIOUS
    <2>5. hdr'[p] = h /\ pc'[p] = "opensig" /\ buf'[p] = buf[p]
      BY <1>0, <1>2, <2>1
    <2>6. h \in SigHeaders(n + 1) /\ (id <= n => h \in SigHeaders(n))
      BY <2>1, <2>2 DEF SigHeaders
    <2> HIDE DEF id, new, h
    <2>7. hdr'[p] \in SigHeaders(Len(signed')) /\ signed'[id] = new
      <3>1. CASE id <= n
        BY <1>2, <2>2, <2>5, <2>6, <3>1
      <3>2. CASE id = n + 1
        <4>1. signed' = Append(signed, new)
          BY <1>2, <2>1, <3>2
        <4>2. Len(signed') = n + 1 /\ signed'[n + 1] = new
          BY <2>3, <4>1
        <4> QED BY <2>5, <2>6, <3>2, <4>2
      <3> QED BY <2>1, <2>2, <3>1, <3>2
    <2>8. Genuine(p)' /\ buf'[p] = Body(p)'
      BY <2>4, <2>5, <2>7 DEF Genuine, Body
    <2>9. Alone(p)' => Kept(p)'
      <3>1. UNCHANGED <<fs, job>>
        BY <1>2 DEF CreateSig
      <3>2. Alone(p) => Kept(p)
        BY <1>0 DEF OutputAt, Unopened
      <3> QED BY <3>1, <3>2 DEF Alone, SoleWriter, Target, Kept
    <2> QED BY <2>5, <2>8, <2>9 DEF OutputAt
  <1> QED BY <1>1, <1>2 DEF CreateSig

(* verifymsg accepts only what the key has signed.                         *)
LEMMA VerifyOutput ==
  ASSUME Typed, Placed, NEW p \in Procs, Emits(p), OutputAt(p), Verify(p)
  PROVE  OutputAt(p)'
  <1>0. pc \in [Procs -> Final \cup Reading \cup Writing \cup
               {"kdf", "opensec", "openpub", "readsec", "createsig", "opensig",
                "readsig", "parse", "readpub", "openmsg"}] /\ pc[p] = "readpub"
    BY DEF Typed, TypeOK, Verify
  <1>1. CASE Fail(p)
    <2>1. UNCHANGED <<fs, job>> /\ pc'[p] = "fail"
      BY <1>0, <1>1 DEF Fail, Verify
    <2> QED BY <1>0, <2>1, StaysUnopened DEF Unopened, Before
  <1>2. CASE ~Fail(p)
    <2>0. job[p].verb = "V" /\ job[p].embedded
      BY <1>0 DEF Emits, Placed
    <2> DEFINE k == HeaderOf(fs[job[p].pub], PubHeaders).key
    <2>1. Verifies(k, hdr[p], buf[p]) /\ Goto(p, "openmsg") /\ UNCHANGED <<fs, buf, pos, hdr, signed, job>>
      BY <1>2, <2>0 DEF Verify
    <2>2. hdr[p] \in SigHeaders(Len(signed))
      BY <1>0 DEF Typed, TypeOK
    <2> HIDE DEF k
    <2>3. signed[hdr[p].id].key = hdr[p].key /\ signed[hdr[p].id].body = buf[p]
      BY <2>1 DEF Verifies
    <2>4. Genuine(p)' /\ buf'[p] = Body(p)' /\ pc'[p] = "openmsg"
      BY <1>0, <2>1, <2>2, <2>3 DEF Genuine, Body
    <2>5. Alone(p)' => Kept(p)'
      <3>1. Alone(p) => Kept(p)
        BY <1>0 DEF OutputAt, Unopened
      <3> QED BY <2>1, <3>1 DEF Alone, SoleWriter, Target, Kept
    <2> QED BY <2>4, <2>5 DEF OutputAt
  <1> QED BY <1>1, <1>2

(* The output is opened, empty, and what is to be written is what is due.  *)
LEMMA OpenOutput ==
  ASSUME Typed, Placed, NEW p \in Procs, Emits(p), OutputAt(p), OpenSig(p) \/ OpenOut(p)
  PROVE  OutputAt(p)'
  <1>0. /\ pc \in [Procs -> Final \cup Reading \cup Writing \cup
               {"kdf", "opensec", "openpub", "readsec", "createsig", "opensig",
                "readsig", "parse", "readpub", "openmsg"}]
        /\ pc[p] \in {"opensig", "openmsg"}
        /\ buf \in [Procs -> Seq(T)] /\ pos \in [Procs -> Nat]
    BY TypeParts DEF Typed, TypeOK, OpenSig, OpenOut
  <1>1. Genuine(p) /\ buf[p] = Body(p)
    BY <1>0 DEF OutputAt
  <1>2. UNCHANGED <<hdr, signed, job>> /\ Put(Target(p), << >>) /\ pos'[p] = 0
    BY <1>0 DEF OpenSig, OpenOut, Placed, Target
  <1>3. Genuine(p)' /\ Due(p)' = Due(p) /\ Target(p)' = Target(p)
    BY <1>1, <1>2 DEF Genuine, Due, Body, Target
  <1>4. buf'[p] = Due(p) /\ pc'[p] \in {"writesig", "writemsg"}
    <2>1. CASE OpenSig(p)
      BY <1>0, <1>1, <2>1 DEF OpenSig, Due, Placed
    <2>2. CASE OpenOut(p)
      BY <1>0, <1>1, <2>2 DEF OpenOut, Due, Placed
    <2> QED BY <2>1, <2>2
  <1>5. Due(p) \in Seq(T)
    BY <1>1, GenuineTyped DEF Typed
  <1>6. SubSeq(Due(p), 1, 0) = << >> /\ 0 <= Len(Due(p))
    BY <1>5
  <1>7. Holds(p, SubSeq(buf[p], 1, pos[p]))'
    BY <1>2, <1>3, <1>4, <1>6 DEF Holds, Put
  <1> QED BY <1>2, <1>3, <1>4, <1>6, <1>7 DEF OutputAt, Unopened

(* writeall writes the next piece.                                         *)
LEMMA WriteOutput ==
  ASSUME Typed, Placed, NEW p \in Procs, Emits(p), OutputAt(p), Write(p)
  PROVE  OutputAt(p)'
  <1> DEFINE f == OutPath(p)
             b == buf[p]
  <1>0. pc[p] \in {"writesig", "writemsg"} /\ UNCHANGED <<job, pc, buf, hdr, signed>>
    BY DEF Write, Placed, Emits
  <1>1. f = Target(p)
    BY <1>0 DEF OutPath, Target, Placed
  <1>2. b \in Seq(T) /\ pos[p] \in Nat /\ pos \in [Procs -> Nat]
    BY TypeParts DEF Typed
  <1>3. Genuine(p) /\ b = Due(p) /\ pos[p] <= Len(b) /\ (Alone(p) => Holds(p, SubSeq(b, 1, pos[p])))
    BY <1>0 DEF OutputAt
  <1> PICK n \in 1..(Len(b) - pos[p]) :
        /\ Put(f, WriteAt(fs[f], pos[p], SubSeq(b, pos[p] + 1, pos[p] + n)))
        /\ pos' = [pos EXCEPT ![p] = @ + n]
    BY DEF Write
  <1>4. pos'[p] = pos[p] + n /\ pos[p] + n <= Len(b)
    BY <1>2
  <1>5. WriteAt(SubSeq(b, 1, pos[p]), pos[p], SubSeq(b, pos[p] + 1, pos[p] + n)) = SubSeq(b, 1, pos[p] + n)
    BY <1>2, <1>3, WritePieces
  <1> HIDE DEF f, b
  <1>6. Alone(p) => fs'[f] = SubSeq(b, 1, pos[p] + n) /\ f \in DOMAIN fs'
    BY <1>1, <1>3, <1>5 DEF Holds, Put
  <1>7. Genuine(p)' /\ Due(p)' = Due(p) /\ Target(p)' = Target(p) /\ (Alone(p)' <=> Alone(p)) /\ buf'[p] = b
    BY <1>0, <1>3 DEF Genuine, Due, Body, Target, Alone, SoleWriter, b
  <1>8. Alone(p)' => Holds(p, SubSeq(buf[p], 1, pos[p]))'
    BY <1>1, <1>4, <1>6, <1>7 DEF Holds
  <1>9. buf'[p] = Due(p)' /\ pos'[p] <= Len(buf'[p]) /\ pc'[p] \in {"writesig", "writemsg"}
    BY <1>0, <1>3, <1>4, <1>7
  <1> QED BY <1>7, <1>8, <1>9 DEF OutputAt, Unopened

(* The file is closed when all of it has been written.                     *)
LEMMA CloseOutput ==
  ASSUME Typed, Placed, NEW p \in Procs, Emits(p), OutputAt(p), Close(p)
  PROVE  OutputAt(p)'
  <1>0. /\ pc[p] \in {"writesig", "writemsg"} /\ UNCHANGED <<job, fs, buf, pos, hdr, signed>>
        /\ pos[p] = Len(buf[p])
    BY DEF Close, Placed, Emits
  <1>1. pc'[p] = "ok"
    BY <1>0 DEF Close, Typed, TypeOK
  <1>2. Genuine(p) /\ buf[p] = Due(p) /\ (Alone(p) => Holds(p, SubSeq(buf[p], 1, pos[p])))
    BY <1>0 DEF OutputAt
  <1>3. buf[p] \in Seq(T)
    BY TypeParts DEF Typed
  <1>4. SubSeq(buf[p], 1, Len(buf[p])) = buf[p]
    BY <1>3
  <1>5. Genuine(p)' /\ (Alone(p)' => Holds(p, Due(p))')
    BY <1>0, <1>2, <1>4 DEF Genuine, Due, Body, Target, Alone, SoleWriter, Holds
  <1> QED BY <1>1, <1>5 DEF OutputAt, Unopened

(* Wherever it is stopped, the file is old or the beginning of a message.  *)
LEMMA StopOutput ==
  ASSUME Typed, Placed, NEW p \in Procs, Emits(p), OutputAt(p), Stop(p)
  PROVE  OutputAt(p)'
  <1>0. pc'[p] = "stopped" /\ pc[p] \notin Final /\ UNCHANGED <<job, fs, signed>>
    BY DEF Stop, Typed, TypeOK
  <1>1. ASSUME job[p].verb = "V", Alone(p), Target(p) \in DOMAIN fs
        PROVE  Kept(p) \/ Piece(p)
    <2>1. pc[p] \in Unopened \cup {"writemsg"}
      BY <1>0, <1>1 DEF Typed, TypeOK, Placed, Unopened
    <2>2. CASE pc[p] \in Unopened
      BY <1>1, <2>2 DEF OutputAt
    <2>3. CASE pc[p] = "writemsg"
      <3>1. Genuine(p) /\ buf[p] = Body(p) /\ pos[p] <= Len(buf[p]) /\ fs[Target(p)] = SubSeq(buf[p], 1, pos[p])
        BY <1>1, <2>3 DEF OutputAt, Due, Holds
      <3>2. hdr[p].id \in 1..Len(signed) /\ Body(p) \in Seq(T) /\ pos[p] \in Nat
        BY <3>1, GenuineTyped, TypeParts DEF Typed
      <3>3. IsPrefix(fs[Target(p)], signed[hdr[p].id].body)
        BY <3>1, <3>2, PieceIsPrefix DEF Body
      <3> QED BY <3>2, <3>3 DEF Piece
    <2> QED BY <2>1, <2>2, <2>3
  <1>2. job'[p].verb = "V" /\ Alone(p)' /\ Target(p)' \in DOMAIN fs' => Kept(p)' \/ Piece(p)'
    BY <1>0, <1>1 DEF Alone, SoleWriter, Target, Kept, Piece
  <1> QED BY <1>0, <1>2 DEF OutputAt, Unopened

-----------------------------------------------------------------------------
LEMMA OwnStep ==
  ASSUME Typed, Placed, NEW p \in Procs, Emits(p), OutputAt(p), Step(p) \/ Stop(p), UNCHANGED job
  PROVE  OutputAt(p)'
  <1>0. pc \in [Procs -> Final \cup Reading \cup Writing \cup
               {"kdf", "opensec", "openpub", "readsec", "createsig", "opensig",
                "readsig", "parse", "readpub", "openmsg"}]
    BY DEF Typed, TypeOK
  <1>1. ~Generate(p)
    BY DEF Generate, Kdf, OpenSec, OpenPub, Placed, Emits
  <1>2. CASE OpenMsg(p) \/ ReadMsg(p) \/ ReadMsgEof(p)
    <2>1. UNCHANGED fs /\ pc[p] \in Unopened /\ pc'[p] \in Before
      BY <1>0, <1>2 DEF OpenMsg, ReadMsg, ReadMsgEof, Fail, Unopened, Before
    <2> QED BY <2>1, StaysUnopened
  <1>3. CASE ReadSec(p) \/ ReadSig(p) \/ ParseEmbedded(p)
    <2>1. UNCHANGED fs /\ pc[p] \in Unopened /\ pc'[p] \in Before
      BY <1>0, <1>3 DEF ReadSec, ReadSig, ParseEmbedded, ReadHeader, Fail, Unopened, Before
    <2> QED BY <2>1, StaysUnopened
  <1>4. CASE CreateSig(p)
    BY <1>4, CreateSigOutput
  <1>5. CASE Verify(p)
    BY <1>5, VerifyOutput
  <1>6. CASE OpenSig(p) \/ OpenOut(p)
    BY <1>6, OpenOutput
  <1>7. CASE Write(p)
    BY <1>7, WriteOutput
  <1>8. CASE Close(p)
    BY <1>8, CloseOutput
  <1>9. CASE Stop(p)
    BY <1>9, StopOutput
  <1> QED
    BY <1>1, <1>2, <1>3, <1>4, <1>5, <1>6, <1>7, <1>8, <1>9 DEF Step, Sign, VerifyFile

LEMMA OutputInit == Init => OutputInv
  <1> SUFFICES ASSUME Init, NEW p \in Procs, Emits(p) PROVE OutputAt(p)
    BY DEF OutputInv
  <1>1. pc[p] = "start" /\ fs = Files
    BY DEF Init, Emits
  <1> QED BY <1>1 DEF OutputAt, Kept, Unopened

LEMMA OutputNext == Typed /\ Placed /\ OutputInv /\ [Next]_vars => OutputInv'
  <1> SUFFICES ASSUME Typed, Placed, OutputInv, [Next]_vars PROVE OutputInv'
    OBVIOUS
  <1>0. TypeOK /\ Typed' /\ \A p \in Procs : Emits(p) => OutputAt(p)
    BY TypeNext DEF Typed, OutputInv
  <1>1. Len(signed') \in Nat
    BY <1>0 DEF Typed, TypeOK
  <1>2. ASSUME UNCHANGED job, NEW p \in Procs, Emits(p)' PROVE Emits(p)
    BY <1>2 DEF Emits
  <1>3. ASSUME NEW q \in Procs, Step(q) \/ Stop(q), UNCHANGED job,
               NEW p \in Procs, Emits(p)
        PROVE  OutputAt(p)'
    <2>1. CASE p = q
      BY <1>0, <1>3, <2>1, OwnStep
    <2>2. CASE p # q
      <3>1. pc'[p] = pc[p] /\ buf'[p] = buf[p] /\ pos'[p] = pos[p] /\ hdr'[p] = hdr[p]
        BY <1>3, <2>2, Local
      <3>2. Len(signed) <= Len(signed') /\ \A i \in 1..Len(signed) : signed'[i] = signed[i]
        BY <1>0, <1>3, SignedGrows, SigningsStay
      <3>3. Alone(p) => Target(p) \notin Outputs(job[q])
        BY <2>2 DEF Alone, SoleWriter
      <3>4. Alone(p) => FileStays(Target(p))
        BY <1>3, <3>3, OnlyOutputsWritten
      <3> QED BY <1>0, <1>1, <1>3, <3>1, <3>2, <3>4, OutputUndisturbed
    <2> QED BY <2>1, <2>2
  <1>4. ASSUME Edit, NEW p \in Procs, Emits(p) PROVE OutputAt(p)'
    <2>1. UNCHANGED <<job, pc, buf, pos, hdr, signed>>
      BY <1>4 DEF Edit
    <2>2. Len(signed) <= Len(signed') /\ \A i \in 1..Len(signed) : signed'[i] = signed[i]
      BY <1>1, <2>1
    <2>3. Alone(p) => FileStays(Target(p))
      BY <1>4 DEF Edit, Put, Alone, SoleWriter, FileStays
    <2> QED BY <1>0, <1>1, <1>4, <2>1, <2>2, <2>3, OutputUndisturbed
  <1>5. ASSUME UNCHANGED vars, NEW p \in Procs, Emits(p) PROVE OutputAt(p)'
    <2>1. Len(signed) <= Len(signed') /\ \A i \in 1..Len(signed) : signed'[i] = signed[i]
      BY <1>1, <1>5 DEF vars
    <2>2. FileStays(Target(p))
      BY <1>5 DEF vars, FileStays
    <2> QED BY <1>0, <1>1, <1>5, <2>1, <2>2, OutputUndisturbed DEF vars
  <1>6. ASSUME NEW q \in Procs, Step(q) \/ Stop(q) PROVE OutputInv'
    BY <1>2, <1>3, <1>6, Frame DEF OutputInv
  <1>7. CASE Edit
    BY <1>2, <1>4, <1>7 DEF OutputInv, Edit
  <1>8. CASE UNCHANGED vars
    BY <1>2, <1>5, <1>8 DEF OutputInv, vars
  <1> QED BY <1>6, <1>7, <1>8 DEF Next, Done

LEMMA OutputsInvariant == Spec => [](Typed /\ Placed /\ OutputInv)
  <1>1. KeyInv => Placed
    BY DEF KeyInv
  <1>2. Spec => [](Typed /\ Placed)
    BY <1>1, KeysInvariant, PTL
  <1> QED BY <1>2, OutputInit, OutputNext, PTL DEF Spec

(* A file signed with -e verifies against itself, although the message is  *)
(* read piece by piece while others edit it: what is signed and what is    *)
(* written is the copy in memory (sign, createsig).                        *)
THEOREM EmbeddedAlwaysConsistent == Spec => []EmbeddedSelfConsistent
  <1>1. Typed /\ OutputInv => EmbeddedSelfConsistent
    <2> SUFFICES ASSUME Typed, OutputInv, NEW p \in Procs,
                        job[p].verb = "S", job[p].embedded, pc[p] = "ok", SoleWriter(p, job[p].sig)
                 PROVE  /\ StartsWith(fs[job[p].sig], hdr[p])
                        /\ signed[hdr[p].id] = [key |-> hdr[p].key, body |-> AfterHeader(fs[job[p].sig])]
      BY DEF EmbeddedSelfConsistent
    <2>1. Target(p) = job[p].sig /\ Alone(p)
      BY DEF Target, Alone
    <2>2. Genuine(p) /\ fs[job[p].sig] = Header(hdr[p]) \o Body(p)
      BY <2>1 DEF OutputInv, OutputAt, Emits, Holds, Due
    <2>3. Body(p) \in Seq(T) /\ hdr[p].id \in 1..Len(signed)
      BY <2>2, GenuineTyped DEF Typed
    <2>4. StartsWith(fs[job[p].sig], hdr[p]) /\ AfterHeader(fs[job[p].sig]) = Body(p)
      BY <2>2, <2>3, BehindHeader
    <2>5. signed[hdr[p].id] = [key |-> hdr[p].key, body |-> Body(p)]
      <3> DEFINE R == [key : Keys, body : Seq(T)]
                 r == signed[hdr[p].id]
      <3>1. signed \in Seq(R)
        BY DEF Typed, TypeOK, T
      <3> HIDE DEF R
      <3>2. r \in R
        BY <2>3, <3>1
      <3> HIDE DEF r
      <3>3. r = [key |-> r.key, body |-> r.body]
        BY <3>2 DEF R
      <3>4. r.key = hdr[p].key /\ r.body = Body(p)
        BY <2>2 DEF Genuine, Body, r
      <3> QED BY <3>3, <3>4 DEF r
    <2> QED BY <2>4, <2>5
  <1> QED BY <1>1, OutputsInvariant, PTL

(* A refused -S or -V -e leaves its output file as it was: every check of  *)
(* the input comes before the open (createsig, verifyembedded).            *)
THEOREM RefusalAlwaysKeeps == Spec => []RefusalKeepsOutput
  <1>1. Typed /\ OutputInv => RefusalKeepsOutput
    <2> SUFFICES ASSUME Typed, OutputInv, NEW p \in Procs, pc[p] = "fail", job[p].verb \in {"S", "V"},
                        NEW f \in Outputs(job[p]), SoleWriter(p, f)
                 PROVE  IF f \in DOMAIN Files THEN f \in DOMAIN fs /\ fs[f] = Files[f] ELSE f \notin DOMAIN fs
      BY DEF RefusalKeepsOutput
    <2>1. Emits(p)
      <3>1. CASE job[p].verb = "S"
        BY <3>1 DEF Emits
      <3>2. CASE job[p].verb = "V"
        BY <3>2 DEF Emits, Outputs
      <3> QED BY <3>1, <3>2
    <2>2. f = Target(p)
      BY <2>1, TargetIsOutput
    <2>3. Kept(p)
      BY <2>1, <2>2 DEF OutputInv, OutputAt, Unopened, Alone
    <2> QED BY <2>2, <2>3 DEF Kept
  <1> QED BY <1>1, OutputsInvariant, PTL

(* The file that -V -e extracts is at every moment, however the command    *)
(* ends, the old one or the beginning of a message that was signed.        *)
THEOREM ExtractedAlwaysSigned == Spec => []ExtractedIsSigned
  <1>1. Typed /\ Placed /\ OutputInv => ExtractedIsSigned
    <2> SUFFICES ASSUME Typed, Placed, OutputInv, NEW p \in Procs,
                        job[p].verb = "V", job[p].embedded, SoleWriter(p, job[p].msg), job[p].msg \in DOMAIN fs
                 PROVE  \/ job[p].msg \in DOMAIN Files /\ fs[job[p].msg] = Files[job[p].msg]
                        \/ \E i \in 1..Len(signed) : IsPrefix(fs[job[p].msg], signed[i].body)
      BY DEF ExtractedIsSigned
    <2>1. Emits(p) /\ Target(p) = job[p].msg /\ Alone(p)
      BY DEF Emits, Target, Alone
    <2>2. OutputAt(p)
      BY <2>1 DEF OutputInv
    <2>3. Kept(p) => job[p].msg \in DOMAIN Files /\ fs[job[p].msg] = Files[job[p].msg]
      BY <2>1 DEF Kept
    <2>4. ASSUME Genuine(p), NEW m \in Nat, m <= Len(Body(p)), fs[job[p].msg] = SubSeq(Body(p), 1, m)
          PROVE  Piece(p)
      <3>1. hdr[p].id \in 1..Len(signed) /\ Body(p) \in Seq(T)
        BY <2>4, GenuineTyped DEF Typed
      <3>2. IsPrefix(fs[job[p].msg], Body(p))
        BY <2>4, <3>1, PieceIsPrefix
      <3> QED BY <2>1, <3>1, <3>2 DEF Piece, Body
    <2>5. pc[p] \in Unopened \cup {"writemsg", "ok", "stopped"}
      BY DEF Typed, TypeOK, Placed, Unopened
    <2>6. CASE pc[p] \in Unopened
      BY <2>1, <2>2, <2>3, <2>6 DEF OutputAt
    <2>7. CASE pc[p] = "writemsg"
      <3>1. Genuine(p) /\ buf[p] = Body(p) /\ pos[p] <= Len(buf[p]) /\ fs[job[p].msg] = SubSeq(buf[p], 1, pos[p])
        BY <2>1, <2>2, <2>7 DEF OutputAt, Due, Holds
      <3>2. pos[p] \in Nat
        BY TypeParts DEF Typed
      <3> QED BY <2>1, <2>4, <3>1, <3>2 DEF Piece
    <2>8. CASE pc[p] = "ok"
      <3>1. Genuine(p) /\ fs[job[p].msg] = Body(p)
        BY <2>1, <2>2, <2>8 DEF OutputAt, Due, Holds
      <3>2. Body(p) \in Seq(T)
        BY <3>1, GenuineTyped DEF Typed
      <3>3. Len(Body(p)) \in Nat /\ SubSeq(Body(p), 1, Len(Body(p))) = Body(p)
        BY <3>2
      <3> DEFINE n == Len(Body(p))
      <3>4. n \in Nat /\ n <= Len(Body(p)) /\ fs[job[p].msg] = SubSeq(Body(p), 1, n)
        BY <3>1, <3>3
      <3> HIDE DEF n
      <3>5. Piece(p)
        BY <2>4, <3>1, <3>4
      <3> QED BY <2>1, <3>5 DEF Piece
    <2>9. CASE pc[p] = "stopped"
      BY <2>1, <2>2, <2>3, <2>9 DEF OutputAt, Piece
    <2> QED BY <2>5, <2>6, <2>7, <2>8, <2>9
  <1> QED BY <1>1, OutputsInvariant, PTL

(* A successful -V -e has written the whole of what its key signed, and    *)
(* nothing of a longer file that was there before (verify, writeall).      *)
THEOREM ExtractedAlwaysComplete == Spec => []ExtractedComplete
  <1>1. OutputInv => ExtractedComplete
    BY DEF OutputInv, OutputAt, ExtractedComplete, Emits, Target, Alone, Holds, Due, Body, Genuine
  <1> QED BY <1>1, OutputsInvariant, PTL

=============================================================================
