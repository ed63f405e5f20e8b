----------------------------- MODULE ZRoundTrip ----------------------------
(* The two ends of signed archives together: what -S -z leaves in its      *)
(* output file, whole or not, is sent through a pipe to -V -z.             *)
EXTENDS ZSign

CONSTANTS Name, Signings

VARIABLES sent, voff, vpc, vhbuf, vsz, vstate, vpos, vcomment, vresidual, vbuffer, vwrote, vsha, vout

vvars == <<sent, voff, vpc, vhbuf, vsz, vstate, vpos, vcomment, vresidual, vbuffer, vwrote, vsha, vout>>

V == INSTANCE ZVerify WITH
       Streams <- {}, stream <- sent, off <- voff, pc <- vpc, hbuf <- vhbuf, sz <- vsz,
       state <- vstate, pos <- vpos, comment <- vcomment, residual <- vresidual,
       buffer <- vbuffer, wrote <- vwrote, sha <- vsha, out <- vout

(* What the owner of the key has signed, as for ZVerify.                   *)
ASSUME RoundTripAssumption ==
  /\ Name # Nul
  /\ \A s \in Signings :
       /\ s.size \in Nat \ {0}
       /\ s.blocks \in Seq(Seq(V!Bytes))
       /\ \A k \in 1..Len(s.blocks) :
            /\ Len(s.blocks[k]) \in 1..s.size
            /\ k < Len(s.blocks) => Len(s.blocks[k]) = s.size
       /\ Nul \notin Range(Comment(s))

RoundTripInit ==
  /\ Init
  /\ sent = << >> /\ vpc = "idle" /\ voff = 0
  /\ vhbuf = << >> /\ vsz = Size /\ vstate = 0 /\ vpos = 0 /\ vcomment = << >>
  /\ vresidual = 0 /\ vbuffer = << >> /\ vwrote = 0 /\ vsha = 0
  /\ vout = V!NoFile

(* The output file is sent once the signer has ended, however it ended.    *)
Send ==
  /\ pc \in Exits /\ vpc = "idle" /\ Out \in DOMAIN fs
  /\ sent' = fs[Out] /\ vpc' = "header"
  /\ UNCHANGED <<vars, voff, vhbuf, vsz, vstate, vpos, vcomment, vresidual, vbuffer, vwrote, vsha, vout>>

SignStep == Step /\ UNCHANGED vvars
VerifyStep == vpc # "idle" /\ V!Step /\ UNCHANGED vars

RoundTripDone ==
  /\ pc \in Exits
  /\ vpc \in V!Exits \/ Out \notin DOMAIN fs
  /\ UNCHANGED <<vars, vvars>>

RoundTripNext ==
  \/ SignStep
  \/ (Stop \/ Edit) /\ UNCHANGED vvars
  \/ Send \/ VerifyStep
  \/ RoundTripDone

RoundTripSpec ==
  /\ RoundTripInit /\ [][RoundTripNext]_<<vars, vvars>>
  /\ WF_<<vars, vvars>>(SignStep) /\ WF_<<vars, vvars>>(Send) /\ WF_<<vars, vvars>>(VerifyStep)

-----------------------------------------------------------------------------
(* What the verifier accepts is what the signer hashed and signed, or it   *)
(* was sent the old output file, which the signer did not get to, and that *)
(* was signed before: never the beginning of an archive, nor one whose file*)
(* was edited between hashing and copying (zsign, zverify, copy_blocks).   *)
AcceptedWasSigned ==
  vpc = "exit0" =>
    \/ Signing \in Signings /\ vout = V!Archive(Signing)
    \/ /\ sent \in (IF alias THEN {input} ELSE Outputs)
       /\ \E s \in Signings : vout = V!Archive(s)

(* The signer ends, and an archive that it made with success of a file that*)
(* nobody edited is accepted in the end, however the pipe cuts it, and the *)
(* verifier puts out the same archive: zsign and zverify agree on the      *)
(* header, on the blocks and on the end, and neither waits for the other.  *)
Made == pc = "exit0" /\ edits = 0 /\ ~ alias
SignedIsAccepted ==
  <>(pc \in Exits /\ (Made => vpc = "exit0" /\ vout = Archive(Payload(input))))
=============================================================================
