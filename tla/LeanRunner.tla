------------------------------ MODULE LeanRunner ------------------------------
(* The differential test's peer process: the caller, the worker thread that    *)
(* does the blocking reads and writes for it, and the process itself           *)
(* (drt/run.py LeanRunner).  The two threads share the queues `requests` and   *)
(* `replies` and the two pipes; only the caller has timeouts, and any of its   *)
(* waits may run into one.                                                     *)
(*                                                                             *)
(* The process is outside the repository's Python and owes nothing: it may     *)
(* hang, exit, write lines nobody asked for, close its output, or leave a      *)
(* descendant that escapes the process group with both pipes open.             *)
EXTENDS Integers, Sequences

CONSTANTS
  MaxRuns,   \* bound: cases run in one `with` block
  MaxExtras  \* bound: lines the process writes that answer nothing

ASSUME BoundsAssumption == MaxRuns \in Nat /\ MaxExtras \in Nat

VARIABLES
  caller,    \* where the caller is
  verdict,   \* "open", or how the `with` block ended: "clean" or "failed"
  sent,      \* cases handed to run
  returned,  \* what run returned, in order: the case it was called for, the line
  requests,  \* LeanRunner.requests: case numbers, then None
  replies,   \* LeanRunner.replies: what the worker read
  worker,    \* what the worker thread is doing
  closedBy,  \* threads that closed the streams
  peer,      \* the process: "alive", "zero", "failed" or "killed"
  escaped,   \* a descendant outside the process group holds the pipes
  muted,     \* the process closed its stdout
  stdin,     \* requests in the pipe, not yet read
  stdout,    \* lines in the pipe, not yet read
  taken,     \* requests the process has read and not answered
  extras,    \* lines written that answer nothing
  written    \* history: lines the process wrote

vars == <<caller, verdict, sent, returned, requests, replies, worker, closedBy,
          peer, escaped, muted, stdin, stdout, taken, extras, written>>
pipes == <<peer, escaped, muted, stdin, stdout, taken, extras, written>>

None == 0
Line(k) == [kind |-> "line", n |-> k]
Extra == Line(0)
Malformed == [kind |-> "malformed", n |-> 0]
Eof == [kind |-> "eof", n |-> 0]
Exception == [kind |-> "exception", n |-> 0]
Trailing(n) == [kind |-> "trailing", n |-> n]
Lines == [kind : {"line", "malformed"}, n : Nat]
Items == Lines \cup [kind : {"eof", "exception", "trailing"}, n : Nat]

CallerStates == {"ready", "awaiting", "finishing", "dying", "closing", "joining", "closed"}
WorkerStates == {"idle", "writing", "reading", "draining", "waiting", "exited"}

Init ==
  /\ caller = "ready" /\ verdict = "open" /\ sent = 0 /\ returned = <<>>
  /\ requests = <<>> /\ replies = <<>> /\ worker = "idle" /\ closedBy = {}
  /\ peer = "alive" /\ escaped = FALSE /\ muted = FALSE
  /\ stdin = <<>> /\ stdout = <<>> /\ taken = <<>> /\ extras = 0 /\ written = 0

Readable == (peer = "alive" /\ ~muted) \/ escaped  \* somebody can still write to stdout
Writable == peer = "alive" \/ escaped              \* somebody can still read stdin

-----------------------------------------------------------------------------
(* The caller                                                                  *)

Run ==
  /\ caller = "ready" /\ sent < MaxRuns
  /\ sent' = sent + 1
  /\ requests' = Append(requests, sent + 1)
  /\ caller' = "awaiting"
  /\ UNCHANGED <<verdict, returned, replies, worker, closedBy, pipes>>

(* replies.get, then parse_reply.                                              *)
GetReply ==
  /\ caller = "awaiting" /\ replies # <<>>
  /\ replies' = Tail(replies)
  /\ LET r == Head(replies) IN
     \/ /\ r.kind = "line"
        /\ returned' = Append(returned, [case |-> sent, line |-> r])
        /\ caller' = "ready" /\ UNCHANGED verdict
     \/ /\ r.kind = "malformed"
        /\ caller' = "closing" /\ verdict' = "failed" /\ UNCHANGED returned
     \/ /\ r.kind \in {"eof", "exception"}
        /\ caller' = "dying" /\ verdict' = "failed" /\ UNCHANGED returned
  /\ UNCHANGED <<sent, requests, worker, closedBy, pipes>>

(* Fault: a timed-out runner stays open for the next case.                     *)
TimeOutStaysOpen ==
  /\ caller = "awaiting" /\ replies = <<>>
  /\ caller' = "ready"
  /\ UNCHANGED <<verdict, sent, returned, requests, replies, worker, closedBy, pipes>>

TimeOut ==
  /\ caller = "awaiting" /\ replies = <<>>
  /\ caller' = "closing" /\ verdict' = "failed"
  /\ UNCHANGED <<sent, returned, requests, replies, worker, closedBy, pipes>>

(* _death: wait for the process, and kill it when the wait times out.          *)
Death ==
  /\ caller = "dying"
  /\ peer' = IF peer = "alive" THEN "killed" ELSE peer
  /\ caller' = "closing"
  /\ UNCHANGED <<verdict, sent, returned, requests, replies, worker, closedBy,
                 escaped, muted, stdin, stdout, taken, extras, written>>

(* The `with` body ends or raises.                                             *)
Finish ==
  /\ caller = "ready"
  /\ caller' = "finishing"
  /\ requests' = Append(requests, None)
  /\ UNCHANGED <<verdict, sent, returned, replies, worker, closedBy, pipes>>

Abandon ==
  /\ caller = "ready"
  /\ caller' = "closing" /\ verdict' = "failed"
  /\ UNCHANGED <<sent, returned, requests, replies, worker, closedBy, pipes>>

(* Fault: only the exit status is looked at.                                   *)
GetTrailingIgnored ==
  /\ caller = "finishing" /\ replies # <<>>
  /\ replies' = Tail(replies)
  /\ verdict' = IF peer = "zero" THEN "clean" ELSE "failed"
  /\ caller' = "closing"
  /\ UNCHANGED <<sent, returned, requests, worker, closedBy, pipes>>

GetTrailing ==
  /\ caller = "finishing" /\ replies # <<>>
  /\ replies' = Tail(replies)
  /\ verdict' = IF Head(replies) = Trailing(0) /\ peer = "zero" THEN "clean" ELSE "failed"
  /\ caller' = "closing"
  /\ UNCHANGED <<sent, returned, requests, worker, closedBy, pipes>>

FinishTimeOut ==
  /\ caller = "finishing" /\ replies = <<>>
  /\ caller' = "closing" /\ verdict' = "failed"
  /\ UNCHANGED <<sent, returned, requests, replies, worker, closedBy, pipes>>

(* close: kill the process group, wait, tell the worker to end.                *)
Close ==
  /\ caller = "closing"
  /\ peer' = IF peer = "alive" THEN "killed" ELSE peer
  /\ requests' = Append(requests, None)
  /\ caller' = "joining"
  /\ UNCHANGED <<verdict, sent, returned, replies, worker, closedBy,
                 escaped, muted, stdin, stdout, taken, extras, written>>

(* Fault: the streams are closed whether or not the worker has ended.          *)
JoinThenClose ==
  /\ caller = "joining"
  /\ caller' = "closed"
  /\ closedBy' = closedBy \cup {"caller"}
  /\ UNCHANGED <<verdict, sent, returned, requests, replies, worker, pipes>>

(* Fault: join without a timeout.                                              *)
JoinForever ==
  /\ caller = "joining" /\ worker = "exited"
  /\ caller' = "closed"
  /\ closedBy' = closedBy \cup {"caller"}
  /\ UNCHANGED <<verdict, sent, returned, requests, replies, worker, pipes>>

(* worker.join returns when the worker has ended or when it times out, and the *)
(* streams are closed only in the first case.                                  *)
Join ==
  /\ caller = "joining"
  /\ caller' = "closed"
  /\ \/ worker = "exited" /\ closedBy' = closedBy \cup {"caller"}
     \/ worker # "exited" /\ UNCHANGED closedBy
  /\ UNCHANGED <<verdict, sent, returned, requests, replies, worker, pipes>>

-----------------------------------------------------------------------------
(* The worker: _exchange                                                       *)

Tell(item) == replies' = Append(replies, item)

(* A request the pipe has room for is written at once; a larger one blocks the *)
(* worker until the process reads.  With no reader left the write raises.      *)
TakeRequest ==
  /\ worker = "idle" /\ requests # <<>>
  /\ requests' = Tail(requests)
  /\ LET k == Head(requests) IN
     \/ /\ k = None
        /\ closedBy' = closedBy \cup {"worker"}
        /\ worker' = "draining" /\ UNCHANGED <<stdin, replies>>
     \/ /\ k # None /\ Writable
        /\ stdin' = Append(stdin, k)
        /\ worker' \in {"writing", "reading"} /\ UNCHANGED <<replies, closedBy>>
     \/ /\ k # None /\ ~Writable
        /\ Tell(Exception) /\ worker' = "exited" /\ UNCHANGED <<stdin, closedBy>>
  /\ UNCHANGED <<caller, verdict, sent, returned, peer, escaped, muted, stdout,
                 taken, extras, written>>

WriteEnds ==
  /\ worker = "writing"
  /\ \/ stdin = <<>> /\ worker' = "reading" /\ UNCHANGED replies
     \/ stdin # <<>> /\ ~Writable /\ worker' = "exited" /\ Tell(Exception)
  /\ UNCHANGED <<caller, verdict, sent, returned, requests, closedBy, pipes>>

ReadLine ==
  /\ worker = "reading"
  /\ \/ /\ stdout # <<>>
        /\ Tell(Head(stdout)) /\ stdout' = Tail(stdout)
     \/ /\ stdout = <<>> /\ ~Readable
        /\ Tell(Eof) /\ UNCHANGED stdout
  /\ worker' = "idle"
  /\ UNCHANGED <<caller, verdict, sent, returned, requests, closedBy,
                 peer, escaped, muted, stdin, taken, extras, written>>

(* stdout.read() to the end, then process.wait().                              *)
Drain ==
  /\ worker = "draining" /\ ~Readable
  /\ worker' = "waiting"
  /\ UNCHANGED <<caller, verdict, sent, returned, requests, replies, closedBy, pipes>>

Wait ==
  /\ worker = "waiting" /\ peer # "alive"
  /\ worker' = "exited"
  /\ Tell(Trailing(Len(stdout)))
  /\ stdout' = <<>>
  /\ UNCHANGED <<caller, verdict, sent, returned, requests, closedBy,
                 peer, escaped, muted, stdin, taken, extras, written>>

-----------------------------------------------------------------------------
(* The process                                                                 *)

Mine == <<caller, verdict, sent, returned, requests, replies, worker, closedBy>>

PeerReads ==
  /\ peer = "alive" /\ stdin # <<>>
  /\ taken' = Append(taken, Head(stdin)) /\ stdin' = Tail(stdin)
  /\ UNCHANGED <<Mine, peer, escaped, muted, stdout, extras, written>>

PeerAnswers ==
  /\ peer = "alive" /\ ~muted /\ taken # <<>>
  /\ stdout' = Append(stdout, Line(Head(taken))) /\ taken' = Tail(taken)
  /\ written' = written + 1
  /\ UNCHANGED <<Mine, peer, escaped, muted, stdin, extras>>

PeerWritesExtra ==
  /\ peer = "alive" /\ ~muted /\ extras < MaxExtras
  /\ \E line \in {Extra, Malformed} : stdout' = Append(stdout, line)
  /\ extras' = extras + 1 /\ written' = written + 1
  /\ UNCHANGED <<Mine, peer, escaped, muted, stdin, taken>>

PeerEnds ==
  /\ peer = "alive"
  /\ peer' \in {"zero", "failed"}
  /\ UNCHANGED <<Mine, escaped, muted, stdin, stdout, taken, extras, written>>

PeerMisbehaves ==
  /\ peer = "alive"
  /\ \/ ~muted /\ muted' = TRUE /\ UNCHANGED escaped
     \/ ~escaped /\ escaped' = TRUE /\ UNCHANGED muted
  /\ UNCHANGED <<Mine, peer, stdin, stdout, taken, extras, written>>

-----------------------------------------------------------------------------
CallerStep == GetReply \/ TimeOut \/ Death \/ GetTrailing \/ FinishTimeOut \/ Close \/ Join
WorkerStep == TakeRequest \/ WriteEnds \/ ReadLine \/ Drain \/ Wait
PeerStep == PeerReads \/ PeerAnswers \/ PeerWritesExtra \/ PeerEnds \/ PeerMisbehaves

Next == Run \/ Finish \/ Abandon \/ CallerStep \/ WorkerStep \/ PeerStep

(* Threads are scheduled and timeouts expire; the process promises nothing and *)
(* the test is not obliged to run another case.                                *)
Spec == Init /\ [][Next]_vars /\ WF_vars(CallerStep) /\ WF_vars(WorkerStep)

-----------------------------------------------------------------------------
TypeOK ==
  /\ caller \in CallerStates /\ verdict \in {"open", "clean", "failed"}
  /\ sent \in 0 .. MaxRuns
  /\ returned \in Seq([case : 0 .. MaxRuns, line : Items])
  /\ replies \in Seq(Items) /\ stdout \in Seq(Lines)
  /\ requests \in Seq(0 .. MaxRuns) /\ stdin \in Seq(1 .. MaxRuns) /\ taken \in Seq(1 .. MaxRuns)
  /\ worker \in WorkerStates /\ closedBy \in SUBSET {"caller", "worker"}
  /\ peer \in {"alive", "zero", "failed", "killed"}
  /\ escaped \in BOOLEAN /\ muted \in BOOLEAN /\ extras \in 0 .. MaxExtras
  /\ written \in Nat

(* When the `with` block ends without an error, the process exited with zero   *)
(* and every line it ever wrote was returned for exactly one case: an answer   *)
(* too many or too few anywhere in the run is noticed by finish at the latest. *)
EveryLineAccounted ==
  verdict = "clean" =>
    /\ peer = "zero"
    /\ Len(returned) = sent
    /\ written = sent

(* As long as the process writes nothing unasked, every line run returns is    *)
(* the answer to the case run was given: a late answer never reaches a later   *)
(* case, because a timeout closes the runner.                                  *)
AnswersMatch ==
  extras = 0 => \A k \in DOMAIN returned : returned[k].line = Line(returned[k].case)

(* The caller closes the streams only when the worker can no longer be inside  *)
(* a read or a write on them (close).                                          *)
StreamsNotShared == "caller" \in closedBy => worker = "exited"

(* When the `with` block is left the process is gone (close).                  *)
Reaped == caller = "closed" => peer # "alive" /\ verdict # "open"

(* Every call of the caller returns, whatever the process does: run, finish    *)
(* and close are bounded by their timeouts.  And unless a descendant escaped   *)
(* with the pipes, the worker ends too.                                        *)
NothingHangs ==
  /\ caller \notin {"ready", "closed"} ~> caller \in {"ready", "closed"}
  /\ (caller = "closed" /\ ~escaped) ~> worker = "exited"
=============================================================================
