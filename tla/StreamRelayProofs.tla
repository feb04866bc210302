-------------------------- MODULE StreamRelayProofs --------------------------
(***************************************************************************)
(* Two properties of the relay for every interval and every length of the   *)
(* stream: pings come between events and never after the last one, and the  *)
(* client of a silent stream does not wait longer than two intervals.       *)
(*                                                                         *)
(* The first rests on Writing: what is in the pipe was put there by the     *)
(* goroutine that holds the mutex.  No ping follows the last event, though  *)
(* the mutex is free before the pipe is closed, because the encoder has     *)
(* just written (Ending).  The second compares three clocks: the time since *)
(* the last write is the time since the client got something, but for the   *)
(* moments between the two (Together), and it is small enough for the next  *)
(* tick to come in time (Ticking).                                          *)
(***************************************************************************)
EXTENDS StreamRelay, TLAPS

Writing ==
    /\ encoder = "write" <=> mu = "encoder"
    /\ keepalive = "write" <=> mu = "keepalive"
    /\ down.data # Empty => \/ mu = "encoder" /\ down.data = out.data
                            \/ mu = "keepalive" /\ down.data = "ping"

\* The last event is what is written before the pipe is closed, and nothing else is.
Ending ==
    /\ encoder \in {"lock", "write"} => (out.data = "last" <=> out.then = "close")
    /\ out.data # "ping"
    /\ encoder = "close" => since = 0 /\ keepalive # "write"
    /\ encoder = "gone" <=> down.writer = "closed"
    /\ done => encoder = "gone"
    /\ keepalive = "gone" => done
    /\ handler = "send" <=> taken # Empty
    /\ down.reader = "closed" => cancelled
    /\ seen = "last" => taken = Empty
    /\ seen = "last" \/ taken = "last" =>
         /\ down.data = Empty
         /\ (encoder = "write" /\ out.then = "close") \/ encoder \in {"close", "gone"}

Live == ~cancelled /\ down.writer = "open"

\* What is taken from the pipe reaches the client before time goes on.
Together ==
    Live =>
        /\ \/ gap = since
           \/ gap = 0 /\ mu # "nobody" /\ down.data = Empty
           \/ since = 0 /\ taken # Empty
        /\ mu # "nobody" /\ down.data = Empty => gap = 0 \/ taken # Empty
        /\ taken # Empty => since = 0 \/ (mu # "nobody" /\ down.data = Empty)

\* A ping is written at the next tick, or at the one after it.
Ticking ==
    /\ gap <= 2 * Interval /\ since <= 2 * Interval
    /\ ticker.fired \/ keepalive \in {"lock", "write"} => ticker.next = Interval
    /\ Live /\ keepalive = "select" /\ ~ticker.fired => since + ticker.next <= 2 * Interval

Safe == TypeOK /\ Writing /\ Ending

IInv == Safe /\ Together /\ Ticking

----------------------------------------------------------------------------
(* Every step *)

LEMMA InvInit == Init => IInv
<1> SUFFICES ASSUME Init PROVE IInv
  OBVIOUS
<1> USE ConstantsAssumption DEF Init, Empty, Output
<1>1. TypeOK
  <2>1. up \in [data : Input \cup {Empty}, writer : {"open", "closed", "failed"}]
    OBVIOUS
  <2>2. down \in [data : Output \cup {Empty}, writer : {"open", "closed"},
                  reader : {"open", "closed"}]
    OBVIOUS
  <2>3. ticker \in [next : 1..Interval, fired : BOOLEAN]
    OBVIOUS
  <2>4. done \in BOOLEAN /\ cancelled \in BOOLEAN /\ client \in BOOLEAN
    BY Zenon
  <2>5. out \in [data : Output, then : {"read", "finish", "close"}]
    OBVIOUS
  <2>6. reads \in 0..MaxReads /\ since \in Nat /\ gap \in Nat
    OBVIOUS
  <2> QED
    BY <2>1, <2>2, <2>3, <2>4, <2>5, <2>6 DEF TypeOK
<1>2. Writing /\ Ending
  BY DEF Writing, Ending
<1>3. Together /\ Ticking
  BY DEF Together, Ticking, Live
<1> QED
  BY <1>1, <1>2, <1>3 DEF IInv, Safe

\* The encoder writes an event or nothing, and goes on reading or finishes.
LEMMA ReadOutcomes ==
    ASSUME TypeOK, EncoderReads
    PROVE  /\ encoder = "read" /\ up' = [up EXCEPT !.data = Empty]
           /\ \/ /\ encoder' = "lock"
                 /\ \E then \in {"read", "finish"} : out' = [data |-> "event", then |-> then]
              \/ encoder' \in {"read", "finish"} /\ out' = out
           /\ UNCHANGED <<down, upstream, keepalive, handler, mu, taken, done, cancelled,
                          client, seen, reads, clock>>
<1>1. up.data \in Input
  BY DEF TypeOK, EncoderReads
<1>2. CASE up.data \in {"data", "whole"}
  BY <1>2 DEF EncoderReads, EncoderWrites
<1>3. CASE up.data \in {"quiet", "error", "stop"}
  BY <1>3 DEF EncoderReads, EncoderGoes
<1> QED
  BY <1>1, <1>2, <1>3 DEF Input

LEMMA TypeOKStep == Safe /\ [Next]_vars => TypeOK'
<1> SUFFICES ASSUME Safe, [Next]_vars PROVE TypeOK'
  OBVIOUS
<1> USE ConstantsAssumption DEF Safe, TypeOK, Input, Output, Empty, pipes, clock
<1>1. ASSUME NEW m \in {"error", "whole"}, Report(m) PROVE TypeOK'
  BY <1>1 DEF Report
<1>2. CASE Reported
  BY <1>2 DEF Reported
<1>3. CASE Connect
  BY <1>3 DEF Connect
<1>4. ASSUME NEW m \in Input, Copy(m) PROVE TypeOK'
  BY <1>4 DEF Copy
<1>5. ASSUME NEW how \in {"closed", "failed"}, CopyEnds(how) PROVE TypeOK'
  BY <1>5 DEF CopyEnds
<1>6. CASE EncoderStarts
  BY <1>6 DEF EncoderStarts, EncoderWrites
<1>7. CASE EncoderLocks
  BY <1>7 DEF EncoderLocks, EncoderGoes
<1>8. CASE EncoderUnlocks
  BY <1>8 DEF EncoderUnlocks, EncoderGoes
<1>9. CASE EncoderReads
  BY <1>9, ReadOutcomes
<1>10. CASE EncoderReadsEnd
  BY <1>10 DEF EncoderReadsEnd, EncoderGoes
<1>11. CASE EncoderFinishes
  BY <1>11 DEF EncoderFinishes, EncoderWrites
<1>12. CASE EncoderCloses
  BY <1>12 DEF EncoderCloses, EncoderGoes
<1>13. CASE KeepaliveTicks
  <2>1. ticker' \in [next : 1..Interval, fired : BOOLEAN]
    BY <1>13, Zenon DEF KeepaliveTicks
  <2> QED
    BY <1>13, <2>1, SMT DEF KeepaliveTicks
<1>14. CASE KeepaliveLocks
  BY <1>14 DEF KeepaliveLocks
<1>15. CASE KeepaliveUnlocks
  BY <1>15 DEF KeepaliveUnlocks
<1>16. CASE KeepaliveExits
  BY <1>16 DEF KeepaliveExits
<1>17. CASE HandlerReads
  BY <1>17 DEF HandlerReads
<1>18. CASE HandlerSends
  <2>1. cancelled' \in BOOLEAN
    BY <1>18, Zenon DEF HandlerSends, Return
  <2>2. /\ down' \in [data : Output \cup {Empty}, writer : {"open", "closed"},
                      reader : {"open", "closed"}]
        /\ handler' \in {"read", "send", "gone"}
        /\ taken' \in Output \cup {Empty} /\ seen' \in Output \cup {Empty} /\ gap' \in Nat
    <3>1. CASE client
      BY <1>18, <3>1 DEF HandlerSends
    <3>2. CASE ~client
      <4>1. /\ handler' = "gone" /\ taken' = Empty /\ UNCHANGED <<seen, gap>>
            /\ down' = [down EXCEPT !.data = Empty, !.reader = "closed"]
        BY <1>18, <3>2, Zenon DEF HandlerSends, Return
      <4>2. down' \in [data : Output \cup {Empty}, writer : {"open", "closed"},
                      reader : {"open", "closed"}]
        BY <4>1
      <4> QED
        BY <4>1, <4>2
    <3> QED
      BY <3>1, <3>2
  <2>3. UNCHANGED <<up, upstream, encoder, keepalive, mu, out, done, client, reads, since,
                    ticker>>
    BY <1>18 DEF HandlerSends
  <2> QED
    BY <2>1, <2>2, <2>3
<1>19. CASE HandlerReadsEnd
  <2>1. cancelled' \in BOOLEAN
    BY <1>19, Zenon DEF HandlerReadsEnd, Return
  <2>2. /\ down' \in [data : Output \cup {Empty}, writer : {"open", "closed"},
                      reader : {"open", "closed"}]
        /\ handler' \in {"read", "send", "gone"}
    BY <1>19 DEF HandlerReadsEnd, Return
  <2>3. UNCHANGED <<up, upstream, encoder, keepalive, mu, out, taken, done, client, seen,
                    reads, clock>>
    BY <1>19 DEF HandlerReadsEnd
  <2> QED
    BY <2>1, <2>2, <2>3
<1>20. CASE ClientLeaves
  <2>1. cancelled' \in BOOLEAN /\ client' \in BOOLEAN
    BY <1>20, Zenon DEF ClientLeaves
  <2> QED
    BY <1>20, <2>1, SMT DEF ClientLeaves
<1>21. CASE Time
  BY <1>21 DEF Time, Quiet
<1>22. CASE UNCHANGED vars
  BY <1>22 DEF vars
<1> QED
  BY <1>1, <1>2, <1>3, <1>4, <1>5, <1>6, <1>7, <1>8, <1>9, <1>10, <1>11,
     <1>12, <1>13, <1>14, <1>15, <1>16, <1>17, <1>18, <1>19, <1>20, <1>21, <1>22
  DEF Next, Upstream, Encoder, Keepalive, Handler

LEMMA WritingStep == Safe /\ [Next]_vars => Writing'
<1> SUFFICES ASSUME Safe, [Next]_vars PROVE Writing'
  OBVIOUS
<1> USE ConstantsAssumption DEF Safe, TypeOK, Writing, Ending, Output, Empty, pipes, clock
<1>1. ASSUME NEW m \in {"error", "whole"}, Report(m) PROVE Writing'
  BY <1>1 DEF Report
<1>2. CASE Reported
  BY <1>2 DEF Reported
<1>3. CASE Connect
  BY <1>3 DEF Connect
<1>4. ASSUME NEW m \in Input, Copy(m) PROVE Writing'
  BY <1>4 DEF Copy
<1>5. ASSUME NEW how \in {"closed", "failed"}, CopyEnds(how) PROVE Writing'
  BY <1>5 DEF CopyEnds
<1>6. CASE EncoderStarts
  BY <1>6 DEF EncoderStarts, EncoderWrites
<1>7. CASE EncoderLocks
  BY <1>7 DEF EncoderLocks, EncoderGoes
<1>8. CASE EncoderUnlocks
  BY <1>8 DEF EncoderUnlocks, EncoderGoes
<1>9. CASE EncoderReads
  BY <1>9, ReadOutcomes
<1>10. CASE EncoderReadsEnd
  BY <1>10 DEF EncoderReadsEnd, EncoderGoes
<1>11. CASE EncoderFinishes
  BY <1>11 DEF EncoderFinishes, EncoderWrites
<1>12. CASE EncoderCloses
  BY <1>12 DEF EncoderCloses, EncoderGoes
<1>13. CASE KeepaliveTicks
  BY <1>13 DEF KeepaliveTicks
<1>14. CASE KeepaliveLocks
  BY <1>14 DEF KeepaliveLocks
<1>15. CASE KeepaliveUnlocks
  BY <1>15 DEF KeepaliveUnlocks
<1>16. CASE KeepaliveExits
  BY <1>16 DEF KeepaliveExits
<1>17. CASE HandlerReads
  BY <1>17 DEF HandlerReads
<1>18. CASE HandlerSends
  BY <1>18 DEF HandlerSends, Return
<1>19. CASE HandlerReadsEnd
  BY <1>19 DEF HandlerReadsEnd, Return
<1>20. CASE ClientLeaves
  BY <1>20 DEF ClientLeaves
<1>21. CASE Time
  BY <1>21 DEF Time, Quiet
<1>22. CASE UNCHANGED vars
  BY <1>22 DEF vars
<1> QED
  BY <1>1, <1>2, <1>3, <1>4, <1>5, <1>6, <1>7, <1>8, <1>9, <1>10, <1>11,
     <1>12, <1>13, <1>14, <1>15, <1>16, <1>17, <1>18, <1>19, <1>20, <1>21, <1>22
  DEF Next, Upstream, Encoder, Keepalive, Handler

LEMMA EndingStep == Safe /\ [Next]_vars => Ending'
<1> SUFFICES ASSUME Safe, [Next]_vars PROVE Ending'
  OBVIOUS
<1> USE ConstantsAssumption DEF Safe, TypeOK, Writing, Ending, Output, Empty, pipes, clock
<1>1. ASSUME NEW m \in {"error", "whole"}, Report(m) PROVE Ending'
  BY <1>1 DEF Report
<1>2. CASE Reported
  BY <1>2 DEF Reported
<1>3. CASE Connect
  BY <1>3 DEF Connect
<1>4. ASSUME NEW m \in Input, Copy(m) PROVE Ending'
  BY <1>4 DEF Copy
<1>5. ASSUME NEW how \in {"closed", "failed"}, CopyEnds(how) PROVE Ending'
  BY <1>5 DEF CopyEnds
<1>6. CASE EncoderStarts
  BY <1>6 DEF EncoderStarts, EncoderWrites
<1>7. CASE EncoderLocks
  BY <1>7 DEF EncoderLocks, EncoderGoes
<1>8. CASE EncoderUnlocks
  BY <1>8 DEF EncoderUnlocks, EncoderGoes
<1>9. CASE EncoderReads
  BY <1>9, ReadOutcomes
<1>10. CASE EncoderReadsEnd
  BY <1>10 DEF EncoderReadsEnd, EncoderGoes
<1>11. CASE EncoderFinishes
  BY <1>11 DEF EncoderFinishes, EncoderWrites
<1>12. CASE EncoderCloses
  BY <1>12 DEF EncoderCloses, EncoderGoes
<1>13. CASE KeepaliveTicks
  BY <1>13 DEF KeepaliveTicks
<1>14. CASE KeepaliveLocks
  BY <1>14 DEF KeepaliveLocks
<1>15. CASE KeepaliveUnlocks
  BY <1>15 DEF KeepaliveUnlocks
<1>16. CASE KeepaliveExits
  BY <1>16 DEF KeepaliveExits
<1>17. CASE HandlerReads
  BY <1>17 DEF HandlerReads
<1>18. CASE HandlerSends
  <2>1. CASE client
    BY <1>18, <2>1 DEF HandlerSends
  <2>2. CASE ~client
    BY <1>18, <2>2, ZenonT(60) DEF HandlerSends, Return
  <2> QED
    BY <2>1, <2>2
<1>19. CASE HandlerReadsEnd
  BY <1>19 DEF HandlerReadsEnd, Return
<1>20. CASE ClientLeaves
  BY <1>20 DEF ClientLeaves
<1>21. CASE Time
  BY <1>21 DEF Time, Quiet
<1>22. CASE UNCHANGED vars
  BY <1>22 DEF vars
<1> QED
  BY <1>1, <1>2, <1>3, <1>4, <1>5, <1>6, <1>7, <1>8, <1>9, <1>10, <1>11,
     <1>12, <1>13, <1>14, <1>15, <1>16, <1>17, <1>18, <1>19, <1>20, <1>21, <1>22
  DEF Next, Upstream, Encoder, Keepalive, Handler

LEMMA TogetherStep == Safe /\ Together /\ [Next]_vars => Together'
<1> SUFFICES ASSUME Safe /\ Together, [Next]_vars PROVE Together'
  OBVIOUS
<1> USE ConstantsAssumption DEF Safe, TypeOK, Writing, Ending, Together, Live, Output,
                                Empty, pipes, clock
<1>1. ASSUME NEW m \in {"error", "whole"}, Report(m) PROVE Together'
  BY <1>1 DEF Report
<1>2. CASE Reported
  BY <1>2 DEF Reported
<1>3. CASE Connect
  BY <1>3 DEF Connect
<1>4. ASSUME NEW m \in Input, Copy(m) PROVE Together'
  BY <1>4 DEF Copy
<1>5. ASSUME NEW how \in {"closed", "failed"}, CopyEnds(how) PROVE Together'
  BY <1>5 DEF CopyEnds
<1>6. CASE EncoderStarts
  BY <1>6 DEF EncoderStarts, EncoderWrites
<1>7. CASE EncoderLocks
  BY <1>7 DEF EncoderLocks, EncoderGoes
<1>8. CASE EncoderUnlocks
  BY <1>8 DEF EncoderUnlocks, EncoderGoes
<1>9. CASE EncoderReads
  BY <1>9, ReadOutcomes
<1>10. CASE EncoderReadsEnd
  BY <1>10 DEF EncoderReadsEnd, EncoderGoes
<1>11. CASE EncoderFinishes
  BY <1>11 DEF EncoderFinishes, EncoderWrites
<1>12. CASE EncoderCloses
  BY <1>12 DEF EncoderCloses, EncoderGoes
<1>13. CASE KeepaliveTicks
  BY <1>13 DEF KeepaliveTicks
<1>14. CASE KeepaliveLocks
  BY <1>14 DEF KeepaliveLocks
<1>15. CASE KeepaliveUnlocks
  BY <1>15 DEF KeepaliveUnlocks
<1>16. CASE KeepaliveExits
  BY <1>16 DEF KeepaliveExits
<1>17. CASE HandlerReads
  BY <1>17 DEF HandlerReads
<1>18. CASE HandlerSends
  <2>1. CASE client
    BY <1>18, <2>1 DEF HandlerSends
  <2>2. CASE ~client
    BY <1>18, <2>2 DEF HandlerSends, Return
  <2> QED
    BY <2>1, <2>2
<1>19. CASE HandlerReadsEnd
  BY <1>19 DEF HandlerReadsEnd, Return
<1>20. CASE ClientLeaves
  BY <1>20 DEF ClientLeaves
<1>21. CASE Time
  BY <1>21 DEF Time, Quiet
<1>22. CASE UNCHANGED vars
  BY <1>22 DEF vars
<1> QED
  BY <1>1, <1>2, <1>3, <1>4, <1>5, <1>6, <1>7, <1>8, <1>9, <1>10, <1>11,
     <1>12, <1>13, <1>14, <1>15, <1>16, <1>17, <1>18, <1>19, <1>20, <1>21, <1>22
  DEF Next, Upstream, Encoder, Keepalive, Handler

LEMMA TickingStep == Safe /\ Together /\ Ticking /\ [Next]_vars => Ticking'
<1> SUFFICES ASSUME Safe /\ Together /\ Ticking, [Next]_vars PROVE Ticking'
  OBVIOUS
<1> USE ConstantsAssumption DEF Safe, TypeOK, Writing, Ending, Together, Ticking, Live,
                                Output, Empty, pipes, clock
<1>1. ASSUME NEW m \in {"error", "whole"}, Report(m) PROVE Ticking'
  BY <1>1 DEF Report
<1>2. CASE Reported
  BY <1>2 DEF Reported
<1>3. CASE Connect
  BY <1>3 DEF Connect
<1>4. ASSUME NEW m \in Input, Copy(m) PROVE Ticking'
  BY <1>4 DEF Copy
<1>5. ASSUME NEW how \in {"closed", "failed"}, CopyEnds(how) PROVE Ticking'
  BY <1>5 DEF CopyEnds
<1>6. CASE EncoderStarts
  BY <1>6 DEF EncoderStarts, EncoderWrites
<1>7. CASE EncoderLocks
  BY <1>7 DEF EncoderLocks, EncoderGoes
<1>8. CASE EncoderUnlocks
  BY <1>8 DEF EncoderUnlocks, EncoderGoes
<1>9. CASE EncoderReads
  BY <1>9, ReadOutcomes
<1>10. CASE EncoderReadsEnd
  BY <1>10 DEF EncoderReadsEnd, EncoderGoes
<1>11. CASE EncoderFinishes
  BY <1>11 DEF EncoderFinishes, EncoderWrites
<1>12. CASE EncoderCloses
  BY <1>12 DEF EncoderCloses, EncoderGoes
<1>13. CASE KeepaliveTicks
  BY <1>13 DEF KeepaliveTicks
<1>14. CASE KeepaliveLocks
  BY <1>14 DEF KeepaliveLocks
<1>15. CASE KeepaliveUnlocks
  BY <1>15 DEF KeepaliveUnlocks
<1>16. CASE KeepaliveExits
  BY <1>16 DEF KeepaliveExits
<1>17. CASE HandlerReads
  BY <1>17 DEF HandlerReads
<1>18. CASE HandlerSends
  BY <1>18 DEF HandlerSends, Return
<1>19. CASE HandlerReadsEnd
  BY <1>19 DEF HandlerReadsEnd, Return
<1>20. CASE ClientLeaves
  BY <1>20 DEF ClientLeaves
<1>21. CASE Time
  BY <1>21 DEF Time, Quiet
<1>22. CASE UNCHANGED vars
  BY <1>22 DEF vars
<1> QED
  BY <1>1, <1>2, <1>3, <1>4, <1>5, <1>6, <1>7, <1>8, <1>9, <1>10, <1>11,
     <1>12, <1>13, <1>14, <1>15, <1>16, <1>17, <1>18, <1>19, <1>20, <1>21, <1>22
  DEF Next, Upstream, Encoder, Keepalive, Handler

LEMMA Inductive == Spec => []IInv
<1>1. IInv /\ [Next]_vars => IInv'
  BY TypeOKStep, WritingStep, EndingStep, TogetherStep, TickingStep DEF IInv, Safe
<1> QED
  BY <1>1, InvInit, PTL DEF Spec

----------------------------------------------------------------------------
(* The theorems *)

\* Every variable keeps its type.
THEOREM TypeCorrect == Spec => []TypeOK
<1>1. IInv => TypeOK
  BY DEF IInv, Safe
<1> QED
  BY <1>1, Inductive, PTL

\* A silent stream is pinged in time, for every interval.
THEOREM HearsInTime == Spec => []ClientHearsInTime
<1>1. IInv => ClientHearsInTime
  BY DEF IInv, Ticking, ClientHearsInTime
<1> QED
  BY <1>1, Inductive, PTL

\* Pings neither replace nor split an event, and none follows the last one.
THEOREM PingsDoNotDisturb == Spec => PingsBetweenEvents
<1> DEFINE Undisturbed ==
      /\ encoder' = "write" => mu' = "encoder"
      /\ keepalive' = "write" => mu' = "keepalive"
      /\ down'.data # Empty => down'.data = IF mu' = "keepalive" THEN "ping" ELSE out'.data
      /\ seen = "last" => seen' = "last"
<1>1. IInv /\ IInv' /\ [Next]_vars => [Undisturbed]_vars
  <2> SUFFICES ASSUME IInv, IInv', Next PROVE Undisturbed
    OBVIOUS
  <2>1. seen = "last" => seen' = "last"
    BY DEF Next, Upstream, Encoder, Keepalive, Handler, Report, Reported, Connect, Copy,
           CopyEnds, EncoderStarts, EncoderLocks, EncoderUnlocks, EncoderReads,
           EncoderReadsEnd, EncoderFinishes, EncoderCloses, KeepaliveTicks, KeepaliveLocks,
           KeepaliveUnlocks, KeepaliveExits, HandlerReads, HandlerSends, HandlerReadsEnd,
           ClientLeaves, Time, IInv, Safe, Ending
  <2> QED
    BY <2>1 DEF IInv, Safe, Writing
<1> QED
  BY <1>1, Inductive, PTL DEF Spec, PingsBetweenEvents

=============================================================================
