----------------------------- MODULE Arc4random ----------------------------
(* The random numbers of libbsd/arc4random.c and arc4random_linux.h, which *)
(* key pairs, salts and key numbers are made of: a buffer of keystream, a  *)
(* key that is replaced whenever the buffer is filled, a count of bytes    *)
(* until fresh entropy is due, and the detection of a fork.                *)
(*                                                                         *)
(* A mutex lets one call run at a time in a process, and processes share   *)
(* no memory: a call runs to its end before another begins.                *)
EXTENDS Chacha, SequencesExt

CONSTANTS
  Processes, Pids,  \* places for processes, and the numbers the system gives
  FirstPids,        \* the number of the first: 1 where it is the init of its system
  KEYIV,            \* KEYSZ + IVSZ
  RSBUFSZ,
  REKEY_BASE,
  ValSize,          \* sizeof(uint32_t)
  Lengths,          \* how many bytes are asked for at once
  DatLengths,       \* how many bytes a caller gives to be mixed in
  MaxCalls, MaxForks

ASSUME Arc4randomAssumption ==
  /\ {KEYIV, RSBUFSZ, REKEY_BASE, ValSize} \subseteq Nat \ {0}
  /\ RSBUFSZ % BLOCKSZ = 0
  /\ RSBUFSZ >= KEYIV + ValSize
  \* chacha_private.h: stopping at 2^70 bytes is the user's responsibility
  /\ Blocks(ValSize) + Blocks(RSBUFSZ) <= U32 * U32
  /\ Processes # {} /\ Pids \cup FirstPids \subseteq Nat \ {0}
  /\ Lengths \cup DatLengths \subseteq Nat

VARIABLES
  mem,     \* of every process its pid and its static variables
  me,      \* the process that is in a call
  request, left,   \* the call, and the bytes it still has to give or to count
  drawn,   \* the caller's buffer as far as it is filled
  rpc,     \* where the call is
  entropy, \* how often getentropy was called
  used,    \* the keystream that was given out, or used for a key or a count
  past,    \* what each process and those it came from have given out
  since,   \* how much of it since there was fresh entropy
  calls, forks

avars == <<mem, me, request, left, drawn, rpc, entropy, used, past, since, calls, forks>>

NoRs == [have |-> -1, count |-> -1]      \* rs == NULL
NoRsx == [input |-> Keyed(<< >>), buf |-> << >>]
Gone == [pid |-> 0, rs |-> NoRs, rsx |-> NoRsx, rs_pid |-> 0, forked |-> FALSE]
Zero == << >>

Allocated(s) == s.rs # NoRs
Alive == {p \in Processes : mem[p].pid # 0}
Nobody == CHOOSE p \in Processes : TRUE

RandomIdle ==
  /\ mem = [p \in Processes |-> Gone] /\ me = Nobody /\ request = "none" /\ left = 0 /\ drawn = << >>
  /\ rpc = "idle" /\ entropy = 0 /\ used = {} /\ past = [p \in Processes |-> {}]
  /\ since = [p \in Processes |-> 0] /\ calls = 0 /\ forks = 0

(* One process, which may be the first of its system.                      *)
RandomInit ==
  /\ \E k \in FirstPids : mem = [p \in Processes |-> IF p = Nobody THEN [Gone EXCEPT !.pid = k] ELSE Gone]
  /\ me = Nobody /\ request = "none" /\ left = 0 /\ drawn = << >>
  /\ rpc = "idle" /\ entropy = 0 /\ used = {} /\ past = [p \in Processes |-> {}]
  /\ since = [p \in Processes |-> 0] /\ calls = 0 /\ forks = 0

-----------------------------------------------------------------------------
(* _rs_rekey and _rs_stir, as what they make of a process's variables.  A  *)
(* key is named by the key its bytes were made with, the counter at that   *)
(* time, and what was mixed in; a first key by the entropy it is.          *)

KeyFrom(input, dat) == Append(input.key, <<input.counter, dat>>)
KeyBytes(s) == {chacha_encrypt_bytes(s.rsx.input, KEYIV).stream[k] : k \in 1..KEYIV}

(* Mutant of Rekeyed: what was given out can be computed again.            *)
RekeyedSameKey(s, dat) ==
  LET made == chacha_encrypt_bytes(s.rsx.input, RSBUFSZ)
  IN [s EXCEPT !.rs.have = RSBUFSZ - KEYIV,
               !.rsx = [input |-> made.input,
                        buf |-> [k \in 1..RSBUFSZ |-> IF k <= KEYIV THEN Zero ELSE made.stream[k]]]]

(* The buffer is filled, its first bytes are mixed with dat, become the key*)
(* and are zeroed.                                                         *)
Rekeyed(s, dat) ==
  LET made == chacha_encrypt_bytes(s.rsx.input, RSBUFSZ)
  IN [s EXCEPT !.rs.have = RSBUFSZ - KEYIV,
               !.rsx = [input |-> Keyed(KeyFrom(s.rsx.input, dat)),
                        buf |-> [k \in 1..RSBUFSZ |-> IF k <= KEYIV THEN Zero ELSE made.stream[k]]]]

Seeded(s) ==
  IF Allocated(s)
    THEN Rekeyed(s, <<"entropy", entropy>>)
    ELSE [s EXCEPT !.rsx.input = Keyed(<< <<"entropy", entropy>> >>)]

(* The count is not predictable: it is made of keystream.                  *)
Stirred(s, fuzz) ==
  [Seeded(s) EXCEPT
     !.rs = [have |-> 0, count |-> REKEY_BASE + fuzz],
     !.rsx = [input |-> chacha_encrypt_bytes(Seeded(s).rsx.input, ValSize).input,
              buf |-> [k \in 1..RSBUFSZ |-> Zero]]]
FuzzBytes(s) == LET x == chacha_encrypt_bytes(Seeded(s).rsx.input, ValSize).stream
                IN {x[k] : k \in 1..ValSize}

Fuzz == 0..(REKEY_BASE - 1)

-----------------------------------------------------------------------------
(* The calls *)

(* _rs_forkdetect *)
IsFork(s) == s.rs_pid \in {0, 1} \/ s.rs_pid # s.pid \/ s.forked
Reset(s) == [s EXCEPT !.rs_pid = s.pid, !.forked = FALSE,
                      !.rs = IF Allocated(s) THEN [have |-> 0, count |-> 0] ELSE @]

(* Mutant of ForkDetect: a process is known by its number.                 *)
ForkDetectByPid(s) == IF s.rs_pid \in {0, 1} \/ s.rs_pid # s.pid THEN Reset(s) ELSE s

ForkDetect(s) == IF IsFork(s) THEN Reset(s) ELSE s

(* arc4random, arc4random_buf and arc4random_addrandom look for a fork,    *)
(* arc4random_stir does not.                                               *)
Begin(p) ==
  /\ rpc = "idle" /\ p \in Alive /\ calls < MaxCalls
  /\ calls' = calls + 1 /\ me' = p
  /\ \/ /\ \/ request' = "buf" /\ left' \in Lengths
           \/ request' = "addrandom" /\ left' \in DatLengths
           \/ request' = "u32" /\ left' = ValSize
        /\ mem' = [mem EXCEPT ![p] = ForkDetect(@)]
        /\ rpc' = "count"
     \/ request' = "stir" /\ left' = 0 /\ rpc' = "stir" /\ UNCHANGED mem
  /\ UNCHANGED <<drawn, entropy, used, past, since, forks>>

Remaining(count) == IF count <= left THEN 0 ELSE count - left

(* _rs_stir_if_needed: entropy when none is left for all of this call.     *)
Stir ==
  /\ \/ rpc = "count" /\ (~ Allocated(mem[me]) \/ mem[me].rs.count <= left) /\ rpc' = "take"
     \/ rpc = "stir" /\ rpc' = "return"
  /\ \E fuzz \in Fuzz : mem' = [mem EXCEPT ![me] =
       [Stirred(mem[me], fuzz) EXCEPT !.rs.count = Remaining(REKEY_BASE + fuzz)]]
  /\ used' = used \cup FuzzBytes(mem[me]) \cup (IF Allocated(mem[me]) THEN KeyBytes(mem[me]) ELSE {})
  /\ entropy' = entropy + 1 /\ since' = [since EXCEPT ![me] = 0]
  /\ UNCHANGED <<me, request, left, drawn, past, calls, forks>>

(* Mutant of CountDown: a call that is too long is not counted.            *)
CountDownKeeps ==
  /\ rpc = "count" /\ Allocated(mem[me]) /\ mem[me].rs.count > left /\ rpc' = "take"
  /\ UNCHANGED <<mem, me, request, left, drawn, entropy, used, past, since, calls, forks>>

CountDown ==
  /\ rpc = "count" /\ Allocated(mem[me]) /\ mem[me].rs.count > left /\ rpc' = "take"
  /\ mem' = [mem EXCEPT ![me].rs.count = Remaining(@)]
  /\ UNCHANGED <<me, request, left, drawn, entropy, used, past, since, calls, forks>>

(* _rs_rekey(NULL, 0), in a process's variables s.                         *)
Rekey(s) ==
  /\ mem' = [mem EXCEPT ![me] = Rekeyed(s, <<"nothing">>)]
  /\ used' = used \cup KeyBytes(s)

(* memcpy and memset of m bytes.                                           *)
Keystream(s, m) == SubSeq(s.rsx.buf, RSBUFSZ - s.rs.have + 1, RSBUFSZ - s.rs.have + m)
Taken(s, m) ==
  [s EXCEPT !.rs.have = @ - m,
            !.rsx.buf = [k \in DOMAIN @ |->
               IF k - (RSBUFSZ - s.rs.have) \in 1..m THEN Zero ELSE @[k]]]

(* One turn of the loop of _rs_random_buf.                                 *)
TakeSome ==
  /\ rpc = "take" /\ request = "buf" /\ left > 0
  /\ LET s == mem[me]
         m == IF left < s.rs.have THEN left ELSE s.rs.have
     IN /\ drawn' = drawn \o Keystream(s, m)
        /\ left' = left - m
        /\ IF s.rs.have = m
             THEN Rekey(Taken(s, m))
             ELSE mem' = [mem EXCEPT ![me] = Taken(s, m)] /\ UNCHANGED used
  /\ UNCHANGED <<me, request, rpc, entropy, past, since, calls, forks>>

(* _rs_random_u32 *)
TakeRekey ==
  /\ rpc = "take" /\ request = "u32" /\ left > 0 /\ mem[me].rs.have < ValSize
  /\ Rekey(mem[me])
  /\ UNCHANGED <<me, request, left, drawn, rpc, entropy, past, since, calls, forks>>

TakeVal ==
  /\ rpc = "take" /\ request = "u32" /\ left > 0 /\ mem[me].rs.have >= ValSize
  /\ drawn' = Keystream(mem[me], ValSize) /\ left' = 0
  /\ mem' = [mem EXCEPT ![me] = Taken(@, ValSize)]
  /\ UNCHANGED <<me, request, rpc, entropy, used, past, since, calls, forks>>

(* arc4random_addrandom: datlen bytes of the caller's are mixed in.        *)
AddRandom ==
  /\ rpc = "take" /\ request = "addrandom"
  /\ mem' = [mem EXCEPT ![me] = Rekeyed(@, IF left = 0 THEN <<"nothing">> ELSE <<"dat", left>>)]
  /\ used' = used \cup KeyBytes(mem[me])
  /\ since' = [since EXCEPT ![me] = @ + left] /\ left' = 0
  /\ rpc' = "return"
  /\ UNCHANGED <<me, request, drawn, entropy, past, calls, forks>>

HandOut ==
  /\ rpc = "return" \/ (rpc = "take" /\ request # "addrandom" /\ left = 0)
  /\ LET given == {drawn[k] : k \in 1..Len(drawn)} IN
       used' = used \cup given /\ past' = [past EXCEPT ![me] = @ \cup given]
  /\ since' = [since EXCEPT ![me] = @ + Len(drawn)]
  /\ rpc' = "idle" /\ me' = Nobody /\ request' = "none" /\ drawn' = << >>
  /\ UNCHANGED <<mem, left, entropy, calls, forks>>

-----------------------------------------------------------------------------
(* fork(2): the memory is copied (it is MAP_PRIVATE), and the handler runs *)
(* in the child if the parent has come to register it.                     *)
Fork(p, q) ==
  /\ rpc = "idle" /\ forks < MaxForks /\ calls < MaxCalls /\ p \in Alive /\ q \notin Alive
  /\ \E k \in Pids \ {1} :
       /\ \A r \in Alive : mem[r].pid # k
       /\ mem' = [mem EXCEPT ![q] = [mem[p] EXCEPT !.pid = k, !.forked = @ \/ Allocated(mem[p])]]
  /\ past' = [past EXCEPT ![q] = past[p]] /\ since' = [since EXCEPT ![q] = since[p]]
  /\ forks' = forks + 1
  /\ UNCHANGED <<me, request, left, drawn, rpc, entropy, used, calls>>

(* exit(3); in a call where no entropy or no memory is to be had. MaxCalls *)
(* bounds what comes after.                                                *)
Die(p) ==
  /\ p \in Alive /\ ((rpc = "idle" /\ calls < MaxCalls) \/ (me = p /\ rpc \in {"count", "stir"}))
  /\ mem' = [mem EXCEPT ![p] = Gone]
  /\ past' = [past EXCEPT ![p] = {}] /\ since' = [since EXCEPT ![p] = 0]
  /\ rpc' = "idle" /\ me' = Nobody /\ request' = "none" /\ left' = 0 /\ drawn' = << >>
  /\ UNCHANGED <<entropy, used, calls, forks>>

RandomStep ==
  \/ Stir \/ CountDown
  \/ TakeSome \/ TakeRekey \/ TakeVal \/ AddRandom \/ HandOut

RandomCall ==
  \/ \E p \in Processes : Begin(p) \/ Die(p)
  \/ \E p, q \in Processes : Fork(p, q)

RandomSpec == RandomInit /\ [][RandomStep \/ RandomCall]_avars

-----------------------------------------------------------------------------
(* No byte of keystream is given out twice, by one process or by two that  *)
(* come from one another; none was used for a key or a count, and none is  *)
(* one that was zeroed, however calls, rekeying and forks follow on each   *)
(* other and although numbers of processes come back.                      *)
GivenOnce ==
  /\ \A k \in 1..Len(drawn) : drawn[k] # Zero /\ drawn[k] \notin used
  /\ \A k, l \in 1..Len(drawn) : drawn[k] = drawn[l] => k = l

(* Backtracking resistance (arc4random.c:103): between calls, what a       *)
(* process gave out is neither in its buffer nor to be computed from its   *)
(* key. A key gives the keystream under it and under all keys made of that.*)
PastIsGone ==
  rpc = "idle" => \A p \in Alive : \A b \in past[p] :
    /\ ~ IsPrefix(mem[p].rsx.input.key, b[1])
    /\ \A k \in 1..Len(mem[p].rsx.buf) : mem[p].rsx.buf[k] # b

(* No call takes bytes when twice REKEY_BASE were given out or mixed in    *)
(* since there was fresh entropy, unless it is one call that asks for more.*)
ReseededInTime ==
  rpc = "take" => since[me] = 0 \/ since[me] + Len(drawn) + left < 2 * REKEY_BASE
=============================================================================
