----------------------------- MODULE StreamRelay -----------------------------
(***************************************************************************)
(* The four goroutines behind one converted stream.  The handler            *)
(* (streamCompatResponse, internal/proxy/proxy.go) copies from a pipe to    *)
(* the client; the upstream goroutine it started copies the upstream body   *)
(* into another pipe; the encoder and the keepalive goroutine of streamPipe *)
(* (internal/compat/sse.go) share the writing end of the first pipe under   *)
(* a mutex.  A write to a pipe blocks until it is read, or until the        *)
(* reader closes its end.  What the encoder makes of the upstream bytes is  *)
(* in MessagesStream and ResponsesStream.                                   *)
(*                                                                         *)
(* Time passes in steps, only while every goroutine waits: executing takes  *)
(* no time.                                                                 *)
(***************************************************************************)
EXTENDS Integers

CONSTANTS
    Interval,  \* streamKeepaliveInterval, in steps of time
    MaxReads   \* bound on the reads from the upstream body

ASSUME ConstantsAssumption == Interval \in Nat \ {0} /\ MaxReads \in Nat

VARIABLES
    up,        \* the pipe from the upstream goroutine to the encoder
    down,      \* the pipe to the handler
    upstream, encoder, keepalive, handler,  \* where the goroutines are
    mu,        \* the goroutine that holds streamPipe's mutex
    out,       \* what the encoder writes, and where it goes on after it
    taken,     \* what the handler has read and not yet sent
    done,      \* the channel that stops the keepalive goroutine is closed
    cancelled, \* the context of the request
    client,    \* the client is there
    seen,      \* the last thing it got
    reads,     \* from the upstream body
    since,     \* time since lastWrite
    gap,       \* time since the client got something
    ticker     \* time to its next tick, and whether a tick waits in its channel

pipes == <<up, down>>
clock == <<since, gap, ticker>>
vars == <<pipes, upstream, encoder, keepalive, handler, mu, out, taken, done, cancelled,
          client, seen, reads, clock>>

Empty == "empty"

\* What one write to the encoder's pipe makes it do: emit an event, nothing, note an
\* error, emit and stop at [DONE], stop at [DONE] or at a line longer than 8 MB.
Input == {"data", "quiet", "error", "whole", "stop"}

Output == {"event", "ping", "last"}

Init ==
    /\ up = [data |-> Empty, writer |-> "open"]
    /\ down = [data |-> Empty, writer |-> "open", reader |-> "open"]
    /\ upstream = "do" /\ encoder = "start" /\ keepalive = "select" /\ handler = "read"
    /\ mu = "nobody"
    /\ out = [data |-> "event", then |-> "read"]
    /\ taken = Empty
    /\ done = FALSE /\ cancelled = FALSE
    /\ client = TRUE /\ seen = Empty
    /\ reads = 0
    /\ since = 0 /\ gap = 0
    /\ ticker = [next |-> Interval, fired |-> FALSE]

----------------------------------------------------------------------------
(* The upstream goroutine *)

\* No connection, an error status, a JSON answer: one write, then the pipe is closed.
Report(m) ==
    /\ upstream = "do"
    /\ cancelled => m = "error"
    /\ up' = [up EXCEPT !.data = m]
    /\ upstream' = "report"
    /\ UNCHANGED <<down, encoder, keepalive, handler, mu, out, taken, done, cancelled,
                   client, seen, reads, clock>>

Reported ==
    /\ upstream = "report"
    /\ up.data = Empty
    /\ up' = [up EXCEPT !.writer = "closed"]
    /\ upstream' = "gone"
    /\ UNCHANGED <<down, encoder, keepalive, handler, mu, out, taken, done, cancelled,
                   client, seen, reads, clock>>

Connect ==
    /\ upstream = "do"
    /\ ~cancelled
    /\ upstream' = "copy"
    /\ UNCHANGED <<pipes, encoder, keepalive, handler, mu, out, taken, done, cancelled,
                   client, seen, reads, clock>>

\* io.Copy: the next read follows a write that was taken.
Copy(m) ==
    /\ upstream = "copy"
    /\ up.data = Empty
    /\ ~cancelled
    /\ reads < MaxReads
    /\ reads' = reads + 1
    /\ up' = [up EXCEPT !.data = m]
    /\ UNCHANGED <<down, upstream, encoder, keepalive, handler, mu, out, taken, done,
                   cancelled, client, seen, clock>>

\* The end of the body closes the pipe, a read error closes it with the error.
CopyEnds(how) ==
    /\ upstream = "copy"
    /\ up.data = Empty
    /\ cancelled => how = "failed"
    /\ up' = [up EXCEPT !.writer = how]
    /\ upstream' = "gone"
    /\ UNCHANGED <<down, encoder, keepalive, handler, mu, out, taken, done, cancelled,
                   client, seen, reads, clock>>

----------------------------------------------------------------------------
(* The encoder *)

EncoderWrites(data, then) == encoder' = "lock" /\ out' = [data |-> data, then |-> then]

EncoderGoes(place) == encoder' = place /\ UNCHANGED out

EncoderStarts ==
    /\ encoder = "start"
    /\ EncoderWrites("event", "read")
    /\ UNCHANGED <<pipes, upstream, keepalive, handler, mu, taken, done, cancelled,
                   client, seen, reads, clock>>

\* The write callback: the result of the write is ignored.
EncoderLocks ==
    /\ encoder = "lock"
    /\ mu = "nobody"
    /\ mu' = "encoder"
    /\ down' = IF down.reader = "open" THEN [down EXCEPT !.data = out.data] ELSE down
    /\ EncoderGoes("write")
    /\ UNCHANGED <<up, upstream, keepalive, handler, taken, done, cancelled, client, seen,
                   reads, clock>>

EncoderUnlocks ==
    /\ encoder = "write"
    /\ down.data = Empty
    /\ mu' = "nobody"
    /\ since' = 0
    /\ EncoderGoes(out.then)
    /\ UNCHANGED <<pipes, upstream, keepalive, handler, taken, done, cancelled, client,
                   seen, reads, gap, ticker>>

EncoderReads ==
    /\ encoder = "read"
    /\ up.data # Empty
    /\ up' = [up EXCEPT !.data = Empty]
    /\ CASE up.data = "data" -> EncoderWrites("event", "read")
         [] up.data = "whole" -> EncoderWrites("event", "finish")
         [] up.data \in {"quiet", "error"} -> EncoderGoes("read")
         [] up.data = "stop" -> EncoderGoes("finish")
    /\ UNCHANGED <<down, upstream, keepalive, handler, mu, taken, done, cancelled, client,
                   seen, reads, clock>>

\* Mutant of EncoderReadsEnd: a read error closes the pipe without a last event.
EncoderDropsTheEnd ==
    /\ encoder = "read"
    /\ up.data = Empty /\ up.writer # "open"
    /\ EncoderGoes(IF up.writer = "failed" THEN "close" ELSE "finish")
    /\ UNCHANGED <<pipes, upstream, keepalive, handler, mu, taken, done, cancelled, client,
                   seen, reads, clock>>

EncoderReadsEnd ==
    /\ encoder = "read"
    /\ up.data = Empty /\ up.writer # "open"
    /\ EncoderGoes("finish")
    /\ UNCHANGED <<pipes, upstream, keepalive, handler, mu, taken, done, cancelled, client,
                   seen, reads, clock>>

EncoderFinishes ==
    /\ encoder = "finish"
    /\ EncoderWrites("last", "close")
    /\ UNCHANGED <<pipes, upstream, keepalive, handler, mu, taken, done, cancelled, client,
                   seen, reads, clock>>

EncoderCloses ==
    /\ encoder = "close"
    /\ done' = TRUE
    /\ down' = [down EXCEPT !.writer = "closed"]
    /\ EncoderGoes("gone")
    /\ UNCHANGED <<up, upstream, keepalive, handler, mu, taken, cancelled, client, seen,
                   reads, clock>>

----------------------------------------------------------------------------
(* The keepalive goroutine *)

KeepaliveTicks ==
    /\ keepalive = "select"
    /\ ticker.fired
    /\ ticker' = [ticker EXCEPT !.fired = FALSE]
    /\ keepalive' = "lock"
    /\ UNCHANGED <<pipes, upstream, encoder, handler, mu, out, taken, done, cancelled,
                   client, seen, reads, since, gap>>

\* Mutants of KeepaliveLocks: it pings at every second tick only; or at every tick, also
\* into a pipe whose writing end is closed.
KeepaliveWaitsLonger ==
    /\ keepalive = "lock"
    /\ mu = "nobody"
    /\ \/ /\ since > 2 * Interval
          /\ mu' = "keepalive"
          /\ down' = IF down.reader = "open" /\ down.writer = "open"
                     THEN [down EXCEPT !.data = "ping"] ELSE down
          /\ keepalive' = "write"
       \/ /\ since <= 2 * Interval
          /\ keepalive' = "select"
          /\ UNCHANGED <<mu, down>>
    /\ UNCHANGED <<up, upstream, encoder, handler, out, taken, done, cancelled, client,
                   seen, reads, clock>>

KeepaliveIgnoresTheEnd ==
    /\ keepalive = "lock"
    /\ mu = "nobody"
    /\ mu' = "keepalive"
    /\ down' = IF down.reader = "open" THEN [down EXCEPT !.data = "ping"] ELSE down
    /\ keepalive' = "write"
    /\ UNCHANGED <<up, upstream, encoder, handler, out, taken, done, cancelled, client,
                   seen, reads, clock>>

\* lastWrite is taken after a write and the tick is delivered with a small delay: one
\* interval after a write that a tick has caused, either may come first.
KeepaliveLocks ==
    /\ keepalive = "lock"
    /\ mu = "nobody"
    /\ \/ /\ since >= Interval
          /\ mu' = "keepalive"
          /\ down' = IF down.reader = "open" /\ down.writer = "open"
                     THEN [down EXCEPT !.data = "ping"] ELSE down
          /\ keepalive' = "write"
       \/ /\ since <= Interval
          /\ keepalive' = "select"
          /\ UNCHANGED <<mu, down>>
    /\ UNCHANGED <<up, upstream, encoder, handler, out, taken, done, cancelled, client,
                   seen, reads, clock>>

KeepaliveUnlocks ==
    /\ keepalive = "write"
    /\ down.data = Empty
    /\ mu' = "nobody"
    /\ since' = 0
    /\ keepalive' = "select"
    /\ UNCHANGED <<pipes, upstream, encoder, handler, out, taken, done, cancelled, client,
                   seen, reads, gap, ticker>>

KeepaliveExits ==
    /\ keepalive = "select"
    /\ done
    /\ keepalive' = "gone"
    /\ UNCHANGED <<pipes, upstream, encoder, handler, mu, out, taken, done, cancelled,
                   client, seen, reads, clock>>

----------------------------------------------------------------------------
(* The handler and its client *)

HandlerReads ==
    /\ handler = "read"
    /\ down.data # Empty
    /\ taken' = down.data
    /\ down' = [down EXCEPT !.data = Empty]
    /\ handler' = "send"
    /\ UNCHANGED <<up, upstream, encoder, keepalive, mu, out, done, cancelled, client, seen,
                   reads, clock>>

\* Mutant of Return: the reading end of the pipe is not closed.
ReturnWithoutClose ==
    /\ handler' = "gone"
    /\ cancelled' = TRUE
    /\ UNCHANGED down

\* The deferred Close unblocks whoever writes; net/http cancels the request's context.
Return ==
    /\ handler' = "gone"
    /\ down' = [down EXCEPT !.data = Empty, !.reader = "closed"]
    /\ cancelled' = TRUE

HandlerSends ==
    /\ handler = "send"
    /\ taken' = Empty
    /\ IF client
       THEN /\ seen' = taken
            /\ gap' = 0
            /\ handler' = "read"
            /\ UNCHANGED <<down, cancelled>>
       ELSE Return /\ UNCHANGED <<seen, gap>>
    /\ UNCHANGED <<up, upstream, encoder, keepalive, mu, out, done, client, reads, since,
                   ticker>>

HandlerReadsEnd ==
    /\ handler = "read"
    /\ down.data = Empty /\ down.writer = "closed"
    /\ Return
    /\ UNCHANGED <<up, upstream, encoder, keepalive, mu, out, taken, done, client, seen,
                   reads, clock>>

ClientLeaves ==
    /\ client
    /\ client' = FALSE
    /\ cancelled' = TRUE
    /\ UNCHANGED <<pipes, upstream, encoder, keepalive, handler, mu, out, taken, done, seen,
                   reads, clock>>

----------------------------------------------------------------------------

Quiet == /\ encoder = "read" /\ up.data = Empty /\ up.writer = "open"
         /\ keepalive = "select" /\ ~ticker.fired
         /\ handler = "read" /\ down.data = Empty
         /\ ~cancelled

\* Mutant of Time: the ticker counts down to zero.
TimeToZero ==
    /\ Quiet
    /\ since' = since + 1
    /\ gap' = gap + 1
    /\ ticker' = IF ticker.next = 0 THEN [next |-> Interval, fired |-> TRUE]
                                    ELSE [ticker EXCEPT !.next = @ - 1]
    /\ UNCHANGED <<pipes, upstream, encoder, keepalive, handler, mu, out, taken, done,
                   cancelled, client, seen, reads>>

Time ==
    /\ Quiet
    /\ since' = since + 1
    /\ gap' = gap + 1
    /\ ticker' = IF ticker.next = 1 THEN [next |-> Interval, fired |-> TRUE]
                                    ELSE [ticker EXCEPT !.next = @ - 1]
    /\ UNCHANGED <<pipes, upstream, encoder, keepalive, handler, mu, out, taken, done,
                   cancelled, client, seen, reads>>

Upstream == \/ \E m \in {"error", "whole"} : Report(m)
            \/ Reported
            \/ Connect
            \/ \E m \in Input : Copy(m)
            \/ \E how \in {"closed", "failed"} : CopyEnds(how)

Encoder == \/ EncoderStarts \/ EncoderLocks \/ EncoderUnlocks \/ EncoderReads
           \/ EncoderReadsEnd \/ EncoderFinishes \/ EncoderCloses

Keepalive == KeepaliveTicks \/ KeepaliveLocks \/ KeepaliveUnlocks \/ KeepaliveExits

Handler == HandlerReads \/ HandlerSends \/ HandlerReadsEnd

Next == Upstream \/ Encoder \/ Keepalive \/ Handler \/ ClientLeaves \/ Time

Spec == Init /\ [][Next]_vars

\* Goroutines run.  Nothing says that the upstream ever answers, goes on or ends: the
\* HTTP client has no timeout, and only a cancelled request is sure to end.
FairSpec ==
    /\ Spec
    /\ SF_vars(EncoderLocks) /\ WF_vars(Encoder)
    /\ WF_vars(Keepalive)
    /\ WF_vars(Handler)
    /\ WF_vars(Reported)
    /\ WF_vars(cancelled /\ Upstream)

----------------------------------------------------------------------------
(* Properties *)

TypeOK ==
    /\ up \in [data : Input \cup {Empty}, writer : {"open", "closed", "failed"}]
    /\ down \in [data : Output \cup {Empty}, writer : {"open", "closed"},
                 reader : {"open", "closed"}]
    /\ upstream \in {"do", "report", "copy", "gone"}
    /\ encoder \in {"start", "lock", "write", "read", "finish", "close", "gone"}
    /\ keepalive \in {"select", "lock", "write", "gone"}
    /\ handler \in {"read", "send", "gone"}
    /\ mu \in {"nobody", "encoder", "keepalive"}
    /\ out \in [data : Output, then : {"read", "finish", "close"}]
    /\ taken \in Output \cup {Empty} /\ seen \in Output \cup {Empty}
    /\ done \in BOOLEAN /\ cancelled \in BOOLEAN /\ client \in BOOLEAN
    /\ reads \in 0..MaxReads
    /\ since \in Nat /\ gap \in Nat
    /\ ticker \in [next : 1..Interval, fired : BOOLEAN]

\* However long the upstream is silent, the client never waits two full intervals for a
\* sign of life.  (One interval is not guaranteed, see the README.)
ClientHearsInTime == gap <= 2 * Interval

\* Pings come between events: none while an event is written or still being read, which
\* it would replace or split, and none after the last event.
PingsBetweenEvents ==
    [][ /\ encoder' = "write" => mu' = "encoder"
        /\ keepalive' = "write" => mu' = "keepalive"
        /\ down'.data # Empty => down'.data = IF mu' = "keepalive" THEN "ping" ELSE out'.data
        /\ seen = "last" => seen' = "last" ]_vars

\* When the upstream is through, for whatever reason, the client gets its last event.
ClientGetsTheEnd == upstream = "gone" ~> seen = "last" \/ ~client

\* A client that leaves ends the handler, and with it the request, and no handler that has
\* returned leaves the encoder or the keepalive goroutine behind, which is what deferring
\* the Close of the encoder's pipe is for.
NobodyStaysBehind ==
    ~client \/ handler = "gone" ~> /\ handler = "gone"
                                   /\ encoder = "gone"
                                   /\ keepalive = "gone"

=============================================================================
