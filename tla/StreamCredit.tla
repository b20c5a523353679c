------------------------------ MODULE StreamCredit ------------------------------
(* What the limit on incoming streams promises, for one stream type, without    *)
(* maps, channels or locks.  The acceptor grants stream numbers; the peer opens *)
(* streams up to the granted number; a stream that is both accepted and         *)
(* complete is done and earns the peer one more, up to the number MaxStreamCount *)
(* that a stream ID can still encode.                                           *)
EXTENDS Integers

CONSTANTS
  MaxNumStreams,   \* Config.MaxIncomingStreams / MaxIncomingUniStreams
  MaxStreamCount   \* protocol.MaxStreamCount: 2^60 in the code

VARIABLES
  granted,  \* the highest stream number the peer may open
  opened,   \* the highest stream number the peer has opened
  done      \* how many streams are accepted and complete

creditVars == <<granted, opened, done>>

Smaller(a, b) == IF a <= b THEN a ELSE b

CreditInit ==
  /\ granted = MaxNumStreams
  /\ opened = 0
  /\ done = 0

\* A frame for stream n opens n and every lower stream that is not open yet.
Open(n) ==
  /\ opened < n /\ n <= granted
  /\ opened' = n
  /\ UNCHANGED <<granted, done>>

Finish ==
  /\ done < opened
  /\ done' = done + 1
  /\ granted' = Smaller(MaxStreamCount, done' + MaxNumStreams)
  /\ UNCHANGED opened

CreditNext ==
  \/ \E n \in 1..MaxStreamCount : Open(n)
  \/ Finish

CreditSpec == CreditInit /\ [][CreditNext]_creditVars
================================================================================
