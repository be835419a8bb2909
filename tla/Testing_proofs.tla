---------------------------- MODULE Testing_proofs ----------------------------
(* Proofs about testing: the runner, for any number of cases and of unasked    *)
(* lines, the campaign, for any number of samples and cases and whatever the   *)
(* two sides answer, and the replay of STF vectors, for any program, any file  *)
(* and whatever the architecture emits.                                        *)
EXTENDS LeanRunner, Campaign, StfReplay, Numbers_proofs, SequenceTheorems, FiniteSetTheorems

-----------------------------------------------------------------------------
(* The runner.                                                                 *)

(* A request is in one place: the request queue, the worker's hands or, as a   *)
(* reply, the reply queue.                                                     *)
InFlight == worker \in {"writing", "reading"}
Asked(k) == requests = <<k>> /\ replies = <<>> /\ worker = "idle"
Replied == requests = <<>> /\ Len(replies) = 1

QueueInv ==
  /\ caller = "ready" =>
       /\ requests = <<>> /\ replies = <<>> /\ worker = "idle"
       /\ verdict = "open" /\ Len(returned) = sent
  /\ caller = "awaiting" =>
       /\ verdict = "open" /\ Len(returned) + 1 = sent
       /\ \/ Asked(sent)
          \/ requests = <<>> /\ replies = <<>> /\ InFlight
          \/ Replied /\ worker = "idle" /\ replies[1].kind \in {"line", "malformed", "eof"}
          \/ Replied /\ worker = "exited" /\ replies[1] = Exception
  /\ caller = "finishing" =>
       /\ verdict = "open" /\ Len(returned) = sent
       /\ \/ Asked(None)
          \/ requests = <<>> /\ replies = <<>> /\ worker \in {"draining", "waiting"}
          \/ Replied /\ worker = "exited" /\ peer # "alive" /\ replies[1].kind = "trailing"

(* Every line written is still in the pipe, held as a reply, or returned.      *)
LinesInv ==
  /\ caller = "ready" => written = Len(returned) + Len(stdout)
  /\ caller = "awaiting" /\ ~Replied => written = Len(returned) + Len(stdout)
  /\ caller = "awaiting" /\ Replied /\ replies[1].kind = "line" =>
       written = Len(returned) + Len(stdout) + 1
  /\ caller = "finishing" /\ ~Replied => written = Len(returned) + Len(stdout)
  /\ caller = "finishing" /\ Replied => written = Len(returned) + replies[1].n
  /\ verdict = "clean" =>
       /\ peer = "zero" /\ Len(returned) = sent /\ written = sent
       /\ caller \in {"closing", "joining", "closed"}

(* While nothing unasked is written, what is under way is the one case asked.  *)
Quiet == stdin = <<>> /\ taken = <<>> /\ stdout = <<>>
AnswerInv ==
  extras = 0 =>
    /\ AnswersMatch
    /\ caller = "ready" => Quiet
    /\ caller = "awaiting" /\ requests # <<>> => Quiet
    /\ caller = "awaiting" /\ requests = <<>> /\ InFlight =>
         \/ stdin = <<sent>> /\ taken = <<>> /\ stdout = <<>>
         \/ stdin = <<>> /\ taken = <<sent>> /\ stdout = <<>>
         \/ stdin = <<>> /\ taken = <<>> /\ stdout = <<Line(sent)>>
    /\ caller = "awaiting" /\ Replied /\ replies[1].kind \in {"line", "malformed"} =>
         replies[1] = Line(sent) /\ Quiet

(* The caller is past its last call only with a verdict, and past the kill     *)
(* only without a process.                                                     *)
CloseInv ==
  /\ caller \in {"dying", "closing", "joining", "closed"} => verdict # "open"
  /\ caller \in {"joining", "closed"} => peer # "alive"
  /\ "caller" \in closedBy => worker = "exited"

-----------------------------------------------------------------------------
(* Types                                                                       *)

LEMMA ItemTypes ==
  /\ {Extra, Malformed} \subseteq Lines /\ \A n \in Nat : Line(n) \in Lines
  /\ {Eof, Exception} \subseteq Items /\ \A n \in Nat : Trailing(n) \in Items
  /\ Lines \subseteq Items
BY DEF Items, Lines, Extra, Malformed, Eof, Exception, Line, Trailing

LEMMA AppendSeq == ASSUME NEW S, NEW s \in Seq(S), NEW e \in S PROVE Append(s, e) \in Seq(S)
OBVIOUS

LEMMA HeadTail ==
  ASSUME NEW S, NEW s \in Seq(S), s # <<>>
  PROVE  Head(s) \in S /\ Tail(s) \in Seq(S)
OBVIOUS

LEMMA TypesStep == ASSUME TypeOK, [Next]_vars PROVE TypeOK'
<1>1. MaxRuns \in Nat /\ MaxExtras \in Nat /\ None = 0
  BY BoundsAssumption DEF None
<1> USE DEF TypeOK, CallerStates, WorkerStates, pipes, Mine
<1>2. CASE Run
  BY <1>1, <1>2 DEF Run
<1>3. CASE GetReply
  <2>1. /\ Head(replies) \in Items /\ Tail(replies) \in Seq(Items)
        /\ [case |-> sent, line |-> Head(replies)] \in [case : 0 .. MaxRuns, line : Items]
    BY <1>3 DEF GetReply
  <2>2. Append(returned, [case |-> sent, line |-> Head(replies)])
          \in Seq([case : 0 .. MaxRuns, line : Items])
    BY <2>1
  <2>3. QED BY <1>3, <2>1, <2>2 DEF GetReply
<1>4. CASE TimeOut \/ Death \/ Abandon \/ FinishTimeOut
  BY <1>4, ZenonT(60) DEF TimeOut, Death, Abandon, FinishTimeOut
<1>5. CASE Finish \/ Close
  <2>1. Append(requests, None) \in Seq(0 .. MaxRuns)
    <3>1. None \in 0 .. MaxRuns
      BY <1>1
    <3>2. QED BY <3>1, AppendSeq
  <2>2. QED BY <1>5, <2>1, ZenonT(60) DEF Finish, Close
<1>6. CASE GetTrailing
  BY <1>6 DEF GetTrailing
<1>7. CASE Join
  BY <1>7 DEF Join
<1>8. CASE TakeRequest
  <2>1. Head(requests) \in 0 .. MaxRuns /\ Tail(requests) \in Seq(0 .. MaxRuns)
    BY <1>8, HeadTail DEF TakeRequest
  <2>2. Append(replies, Exception) \in Seq(Items)
    BY ItemTypes
  <2>3. Head(requests) # None => Append(stdin, Head(requests)) \in Seq(1 .. MaxRuns)
    BY <1>1, <2>1
  <2>4. QED BY <1>8, <2>1, <2>2, <2>3, ZenonT(60) DEF TakeRequest, Tell
<1>9. CASE WriteEnds
  <2>1. Append(replies, Exception) \in Seq(Items)
    BY ItemTypes
  <2>2. QED BY <1>9, <2>1 DEF WriteEnds, Tell
<1>10. CASE ReadLine
  <2>1. Append(replies, Eof) \in Seq(Items)
    BY ItemTypes
  <2>2. ASSUME stdout # <<>>
        PROVE  Append(replies, Head(stdout)) \in Seq(Items) /\ Tail(stdout) \in Seq(Lines)
    <3>1. Head(stdout) \in Lines /\ Tail(stdout) \in Seq(Lines)
      BY <2>2, HeadTail
    <3>2. QED BY <3>1, ItemTypes, AppendSeq
  <2>3. QED BY <1>10, <2>1, <2>2 DEF ReadLine, Tell
<1>11. CASE Drain
  BY <1>11 DEF Drain
<1>12. CASE Wait
  <2>1. Append(replies, Trailing(Len(stdout))) \in Seq(Items)
    BY ItemTypes
  <2>2. QED BY <1>12, <2>1 DEF Wait, Tell
<1>13. CASE PeerReads
  <2>1. Head(stdin) \in 1 .. MaxRuns /\ Tail(stdin) \in Seq(1 .. MaxRuns)
    BY <1>13, HeadTail DEF PeerReads
  <2>2. Append(taken, Head(stdin)) \in Seq(1 .. MaxRuns)
    BY <2>1, AppendSeq
  <2>3. QED BY <1>13, <2>1, <2>2 DEF PeerReads
<1>14. CASE PeerAnswers
  <2>1. Head(taken) \in 1 .. MaxRuns /\ Tail(taken) \in Seq(1 .. MaxRuns)
    BY <1>14, HeadTail DEF PeerAnswers
  <2>2. Line(Head(taken)) \in Lines
    BY <1>1, <2>1, ItemTypes
  <2>3. Append(stdout, Line(Head(taken))) \in Seq(Lines)
    BY <2>2, AppendSeq
  <2>4. QED BY <1>14, <2>1, <2>3 DEF PeerAnswers
<1>15. CASE PeerWritesExtra
  <2>1. \A line \in {Extra, Malformed} : Append(stdout, line) \in Seq(Lines)
    BY ItemTypes
  <2>2. QED BY <1>1, <1>15, <2>1 DEF PeerWritesExtra
<1>16. CASE PeerEnds \/ PeerMisbehaves
  BY <1>16, ZenonT(60) DEF PeerEnds, PeerMisbehaves
<1>17. CASE UNCHANGED vars
  BY <1>17 DEF vars
<1>18. QED
  BY <1>2, <1>3, <1>4, <1>5, <1>6, <1>7, <1>8, <1>9, <1>10, <1>11, <1>12, <1>13, <1>14,
     <1>15, <1>16, <1>17 DEF Next, CallerStep, WorkerStep, PeerStep

LEMMA TypesInit == Init => TypeOK
<1> SUFFICES ASSUME Init PROVE TypeOK
  OBVIOUS
<1>1. /\ returned \in Seq([case : 0 .. MaxRuns, line : Items])
      /\ replies \in Seq(Items) /\ stdout \in Seq(Lines)
  BY EmptySeq DEF Init
<1>2. requests \in Seq(0 .. MaxRuns) /\ stdin \in Seq(1 .. MaxRuns) /\ taken \in Seq(1 .. MaxRuns)
  BY EmptySeq DEF Init
<1>3. sent \in 0 .. MaxRuns /\ extras \in 0 .. MaxExtras /\ written \in Nat
  BY BoundsAssumption DEF Init
<1>4. /\ caller \in CallerStates /\ verdict \in {"open", "clean", "failed"}
      /\ worker \in WorkerStates /\ peer \in {"alive", "zero", "failed", "killed"}
  BY DEF Init, CallerStates, WorkerStates
<1>5. closedBy \in SUBSET {"caller", "worker"} /\ escaped \in BOOLEAN /\ muted \in BOOLEAN
  BY DEF Init
<1>6. QED BY <1>1, <1>2, <1>3, <1>4, <1>5 DEF TypeOK

(* Every variable keeps its type; no None is ever sent to the process.         *)
THEOREM RunnerTypeCorrect == Spec => []TypeOK
BY TypesInit, TypesStep, PTL DEF Spec

-----------------------------------------------------------------------------
(* Ways out                                                                    *)

(* The caller's fate depends on nothing the process sends: a verdict before    *)
(* close, a kill in it, and streams closed only behind an exited worker.       *)
LEMMA CloseStep == ASSUME TypeOK, CloseInv, [Next]_vars PROVE CloseInv'
<1>1. CASE Run \/ GetReply \/ TimeOut \/ Death \/ Finish \/ Abandon \/ GetTrailing
           \/ FinishTimeOut \/ Close \/ Join
  BY <1>1 DEF Run, GetReply, TimeOut, Death, Finish, Abandon, GetTrailing, FinishTimeOut,
              Close, Join, pipes, CloseInv, TypeOK, CallerStates
<1>2. CASE WorkerStep
  BY <1>2 DEF WorkerStep, TakeRequest, WriteEnds, ReadLine, Drain, Wait, pipes, CloseInv
<1>3. CASE PeerStep
  BY <1>3 DEF PeerStep, PeerReads, PeerAnswers, PeerWritesExtra, PeerEnds, PeerMisbehaves,
              Mine, CloseInv
<1>4. CASE UNCHANGED vars
  BY <1>4 DEF vars, CloseInv
<1>5. QED BY <1>1, <1>2, <1>3, <1>4 DEF Next, CallerStep

(* The caller never closes a stream the worker may still be blocked on.        *)
THEOREM StreamsSafe == Spec => []StreamsNotShared
<1>1. Init => CloseInv
  BY DEF Init, CloseInv
<1>2. CloseInv => StreamsNotShared
  BY DEF CloseInv, StreamsNotShared
<1>3. QED BY <1>1, <1>2, TypesInit, TypesStep, CloseStep, PTL DEF Spec

(* However the `with` block is left, its process is gone by then.              *)
THEOREM AlwaysReaped == Spec => []Reaped
<1>1. Init => CloseInv
  BY DEF Init, CloseInv
<1>2. CloseInv => Reaped
  BY DEF CloseInv, Reaped
<1>3. QED BY <1>1, <1>2, TypesInit, TypesStep, CloseStep, PTL DEF Spec

-----------------------------------------------------------------------------
(* The queues                                                                  *)

LEMMA Singleton ==
  ASSUME NEW x
  PROVE  /\ Append(<<>>, x) = <<x>> /\ Len(<<x>>) = 1 /\ <<x>> # <<>>
         /\ Head(<<x>>) = x /\ <<x>>[1] = x /\ Tail(<<x>>) = <<>>
OBVIOUS

LEMMA OnlyOne ==
  ASSUME NEW S, NEW s \in Seq(S), Len(s) = 1
  PROVE  s # <<>> /\ Head(s) = s[1] /\ Tail(s) = <<>> /\ s[1] \in S
<1>1. s # <<>> /\ Head(s) = s[1] /\ s[1] \in S
  OBVIOUS
<1>2. Tail(s) \in Seq(S) /\ Len(Tail(s)) = 0
  OBVIOUS
<1>3. QED BY <1>1, <1>2, EmptySeq

LEMMA Kinds ==
  /\ \A k : Line(k).kind = "line" /\ Line(k).n = k
  /\ \A n : Trailing(n).kind = "trailing" /\ Trailing(n).n = n
  /\ Eof.kind = "eof" /\ Exception.kind = "exception" /\ Malformed.kind = "malformed"
BY DEF Line, Trailing, Eof, Exception, Malformed

LEMMA QueueCaller ==
  ASSUME TypeOK, QueueInv, CallerStep \/ Run \/ Finish \/ Abandon PROVE QueueInv'
<1>1. CASE Run
  <2>1. requests' = <<sent'>> /\ Len(returned') + 1 = sent'
    BY <1>1, Singleton DEF Run, QueueInv, TypeOK
  <2>2. QED BY <1>1, <2>1 DEF Run, QueueInv, Asked
<1>2. CASE Finish
  <2>1. requests' = <<None>>
    BY <1>2, Singleton DEF Finish, QueueInv
  <2>2. QED BY <1>2, <2>1 DEF Finish, QueueInv, Asked
<1>3. CASE GetReply
  <2>1. Replied
    BY <1>3 DEF GetReply, QueueInv, Asked
  <2>2. Head(replies) = replies[1] /\ replies' = <<>> /\ requests' = <<>>
    BY <1>3, <2>1, OnlyOne DEF GetReply, Replied, TypeOK
  <2>3. Len(Append(returned, [case |-> sent, line |-> Head(replies)])) = Len(returned) + 1
    BY DEF TypeOK
  <2>4. replies[1].kind = "line" => worker = "idle" /\ worker' = worker
    BY <1>3, <2>1, <2>2, Kinds DEF GetReply, QueueInv, Asked
  <2>5. CASE replies[1].kind = "line"
    BY <1>3, <2>2, <2>3, <2>4, <2>5 DEF GetReply, QueueInv
  <2>6. CASE replies[1].kind # "line"
    BY <1>3, <2>2, <2>6 DEF GetReply, QueueInv
  <2>7. QED BY <2>5, <2>6
<1>4. CASE TimeOut \/ Death \/ Abandon \/ GetTrailing \/ FinishTimeOut \/ Close \/ Join
  BY <1>4 DEF TimeOut, Death, Abandon, GetTrailing, FinishTimeOut, Close, Join, QueueInv
<1>5. QED BY <1>1, <1>2, <1>3, <1>4 DEF CallerStep

LEMMA QueueWorker == ASSUME TypeOK, QueueInv, WorkerStep PROVE QueueInv'
<1>1. CASE TakeRequest
  <2>1. caller # "ready"
    BY <1>1 DEF TakeRequest, QueueInv
  <2>2. CASE caller = "awaiting"
    <3>1. Asked(sent) /\ sent # None
      BY <1>1, <2>2 DEF TakeRequest, QueueInv, InFlight, Replied, TypeOK, None
    <3>2. Head(requests) = sent /\ requests' = <<>>
      BY <1>1, <3>1, Singleton DEF TakeRequest, Asked
    <3>3. worker' = "exited" => replies' = <<Exception>> /\ Replied'
      BY <1>1, <3>1, <3>2, Singleton DEF TakeRequest, Asked, Tell, Replied
    <3>4. QED BY <1>1, <2>2, <3>1, <3>2, <3>3, Singleton
              DEF TakeRequest, QueueInv, Asked, InFlight, Replied
  <2>3. CASE caller = "finishing"
    <3>1. Asked(None)
      BY <1>1, <2>3 DEF TakeRequest, QueueInv, Replied
    <3>2. Head(requests) = None /\ requests' = <<>>
      BY <1>1, <3>1, Singleton DEF TakeRequest, Asked
    <3>3. QED BY <1>1, <2>3, <3>1, <3>2 DEF TakeRequest, QueueInv, Asked
  <2>4. CASE caller \notin {"ready", "awaiting", "finishing"}
    BY <1>1, <2>4 DEF TakeRequest, QueueInv
  <2>5. QED BY <2>1, <2>2, <2>3, <2>4
<1>2. ASSUME WriteEnds \/ ReadLine, caller = "awaiting"
      PROVE  /\ requests = <<>> /\ requests' = <<>> /\ replies = <<>>
             /\ UNCHANGED <<caller, verdict, sent, returned>>
  BY <1>2 DEF WriteEnds, ReadLine, QueueInv, Asked, pipes
<1>3. CASE WriteEnds
  <2>1. caller \notin {"ready", "finishing"}
    BY <1>3 DEF WriteEnds, QueueInv, Asked
  <2>2. CASE caller = "awaiting"
    BY <1>2, <1>3, <2>2, Singleton DEF WriteEnds, QueueInv, InFlight, Replied, Tell
  <2>3. CASE caller # "awaiting"
    BY <1>3, <2>1, <2>3 DEF WriteEnds, QueueInv
  <2>4. QED BY <2>2, <2>3
<1>4. CASE ReadLine
  <2>1. caller \notin {"ready", "finishing"}
    BY <1>4 DEF ReadLine, QueueInv, Asked
  <2>2. CASE caller = "awaiting"
    <3>1. stdout # <<>> => Head(stdout) \in Lines
      BY HeadTail DEF TypeOK
    <3>2. replies' = <<Eof>> \/ \E line \in Lines : replies' = <<line>>
      BY <1>2, <1>4, <2>2, <3>1, Singleton DEF ReadLine, Tell
    <3>3. Len(replies') = 1 /\ replies'[1].kind \in {"line", "malformed", "eof"}
      BY <3>2, Singleton, Kinds DEF Lines
    <3>4. QED BY <1>2, <1>4, <2>2, <3>3 DEF ReadLine, QueueInv, Replied
  <2>3. CASE caller # "awaiting"
    BY <1>4, <2>1, <2>3 DEF ReadLine, QueueInv
  <2>4. QED BY <2>2, <2>3
<1>5. CASE Drain
  BY <1>5 DEF Drain, QueueInv, Asked, InFlight, Replied, pipes
<1>6. CASE Wait
  <2>1. caller \notin {"ready", "awaiting"}
    BY <1>6 DEF Wait, QueueInv, Asked, InFlight
  <2>2. CASE caller = "finishing"
    <3>1. requests = <<>> /\ replies = <<>>
      BY <1>6, <2>2 DEF Wait, QueueInv, Asked
    <3>2. replies' = <<Trailing(Len(stdout))>>
      BY <1>6, <3>1, Singleton DEF Wait, Tell
    <3>3. QED BY <1>6, <2>2, <3>1, <3>2, Singleton, Kinds DEF Wait, QueueInv, Replied
  <2>3. CASE caller # "finishing"
    BY <1>6, <2>1, <2>3 DEF Wait, QueueInv
  <2>4. QED BY <2>2, <2>3
<1>7. QED BY <1>1, <1>3, <1>4, <1>5, <1>6 DEF WorkerStep

LEMMA QueueStep == ASSUME TypeOK, QueueInv, [Next]_vars PROVE QueueInv'
<1>1. CASE PeerStep
  <2>1. UNCHANGED Mine /\ (peer # "alive" => peer' = peer)
    BY <1>1 DEF PeerStep, PeerReads, PeerAnswers, PeerWritesExtra, PeerEnds, PeerMisbehaves
  <2>2. QED BY <2>1 DEF Mine, QueueInv, Asked, InFlight, Replied
<1>2. CASE UNCHANGED vars
  BY <1>2 DEF vars, QueueInv, Asked, InFlight, Replied
<1>3. QED BY <1>1, <1>2, QueueCaller, QueueWorker DEF Next

LEMMA QueueInit == Init => QueueInv
BY DEF Init, QueueInv

-----------------------------------------------------------------------------
(* Lines                                                                       *)

LEMMA LinesCaller ==
  ASSUME TypeOK, QueueInv, LinesInv, CallerStep \/ Run \/ Finish \/ Abandon
  PROVE  LinesInv'
<1>1. CASE Run
  <2>1. requests' # <<>>
    BY <1>1, Singleton DEF Run, QueueInv
  <2>2. QED BY <1>1, <2>1 DEF Run, QueueInv, LinesInv, Replied, pipes
<1>2. CASE Finish
  <2>1. requests' # <<>>
    BY <1>2, Singleton DEF Finish, QueueInv
  <2>2. QED BY <1>2, <2>1 DEF Finish, QueueInv, LinesInv, Replied, pipes
<1>3. CASE GetReply
  <2>1. Replied /\ Head(replies) = replies[1]
    BY <1>3, OnlyOne DEF GetReply, QueueInv, Asked, Replied, TypeOK
  <2>2. /\ Len(Append(returned, [case |-> sent, line |-> Head(replies)])) = Len(returned) + 1
        /\ Len(returned) \in Nat /\ Len(stdout) \in Nat
    BY DEF TypeOK
  <2>3. QED BY <1>3, <2>1, <2>2, SMTT(40) DEF GetReply, QueueInv, LinesInv, pipes
<1>4. CASE GetTrailing
  <2>1. Replied /\ Head(replies) = replies[1]
    BY <1>4, OnlyOne DEF GetTrailing, QueueInv, Asked, Replied, TypeOK
  <2>2. verdict' = "clean" => peer = "zero" /\ written = sent /\ Len(returned) = sent
    BY <1>4, <2>1, Kinds DEF GetTrailing, QueueInv, LinesInv, TypeOK
  <2>3. QED BY <1>4, <2>2 DEF GetTrailing, LinesInv, pipes
<1>5. CASE TimeOut \/ FinishTimeOut \/ Abandon
  BY <1>5 DEF TimeOut, FinishTimeOut, Abandon, LinesInv, pipes
<1>6. CASE Death \/ Close \/ Join
  BY <1>6 DEF Death, Close, Join, LinesInv, pipes
<1>7. QED BY <1>1, <1>2, <1>3, <1>4, <1>5, <1>6 DEF CallerStep

LEMMA LinesWorker ==
  ASSUME TypeOK, QueueInv, LinesInv, WorkerStep PROVE LinesInv'
<1>0. Len(stdout) \in Nat /\ Len(returned) \in Nat
  BY DEF TypeOK
<1>1. CASE TakeRequest \/ WriteEnds
  <2>1. UNCHANGED <<caller, verdict, sent, returned, peer, stdout, written>>
    BY <1>1 DEF TakeRequest, WriteEnds, pipes
  <2>2. caller \in {"awaiting", "finishing"} => replies = <<>>
    BY <1>1 DEF TakeRequest, WriteEnds, QueueInv, Asked, Replied, InFlight
  <2>3. replies' = replies \/ replies' = Append(replies, Exception)
    BY <1>1 DEF TakeRequest, WriteEnds, Tell
  <2>4. caller \in {"awaiting", "finishing"} => ~Replied
    BY <2>2, EmptySeq DEF Replied
  <2>5. caller \in {"awaiting", "finishing"} /\ Replied' => replies' = <<Exception>>
    BY <2>2, <2>3, Singleton, EmptySeq DEF Replied
  <2>6. caller = "finishing" => ~Replied'
    <3>1. caller = "finishing" => worker = "idle" /\ requests = <<None>>
      BY <1>1 DEF TakeRequest, WriteEnds, QueueInv, Asked, Replied
    <3>2. caller = "finishing" => replies' = <<>>
      BY <1>1, <2>2, <3>1, Singleton DEF TakeRequest, WriteEnds
    <3>3. QED BY <2>1, <3>2, EmptySeq DEF Replied
  <2>7. QED BY <2>1, <2>4, <2>5, <2>6, Singleton, Kinds DEF LinesInv
<1>2. CASE ReadLine
  <2>1. caller \notin {"ready", "finishing"}
    BY <1>2 DEF ReadLine, QueueInv, Asked
  <2>2. CASE caller = "awaiting"
    <3>1. requests = <<>> /\ replies = <<>> /\ ~Replied
      BY <1>2, <2>2, EmptySeq DEF ReadLine, QueueInv, Asked, Replied
    <3>2. written = Len(returned) + Len(stdout)
      BY <2>2, <3>1 DEF LinesInv
    <3>3. stdout # <<>> => Len(Tail(stdout)) = Len(stdout) - 1
      BY <1>0, EmptySeq DEF TypeOK
    <3>4. CASE stdout # <<>>
      BY <1>2, <2>2, <3>1, <3>2, <3>3, <3>4, <1>0, Singleton DEF ReadLine, Tell, LinesInv, Replied
    <3>5. CASE stdout = <<>>
      BY <1>2, <2>2, <3>1, <3>2, <3>5, <1>0, Singleton, Kinds DEF ReadLine, Tell, LinesInv, Replied
    <3>6. QED BY <3>4, <3>5
  <2>3. CASE caller # "awaiting"
    BY <1>2, <2>1, <2>3 DEF ReadLine, LinesInv
  <2>4. QED BY <2>2, <2>3
<1>3. CASE Drain
  BY <1>3 DEF Drain, LinesInv, Replied, pipes
<1>4. CASE Wait
  <2>1. caller \notin {"ready", "awaiting"}
    BY <1>4 DEF Wait, QueueInv, Asked, InFlight
  <2>2. CASE caller = "finishing"
    <3>1. requests = <<>> /\ replies = <<>> /\ ~Replied
      BY <1>4, <2>2, EmptySeq DEF Wait, QueueInv, Asked, Replied
    <3>2. replies' = <<Trailing(Len(stdout))>> /\ written = Len(returned) + Len(stdout)
      BY <1>4, <2>2, <3>1, Singleton DEF Wait, Tell, LinesInv
    <3>3. QED BY <1>4, <2>2, <3>1, <3>2, Singleton, Kinds DEF Wait, LinesInv, QueueInv, Replied
  <2>3. CASE caller # "finishing"
    BY <1>4, <2>1, <2>3 DEF Wait, LinesInv
  <2>4. QED BY <2>2, <2>3
<1>5. QED BY <1>1, <1>2, <1>3, <1>4 DEF WorkerStep

LEMMA LinesPeer ==
  ASSUME TypeOK, QueueInv, LinesInv, PeerStep PROVE LinesInv'
<1>1. UNCHANGED Mine /\ peer = "alive"
  BY DEF PeerStep, PeerReads, PeerAnswers, PeerWritesExtra, PeerEnds, PeerMisbehaves
<1>2. ~(caller = "finishing" /\ Replied)
  BY <1>1, EmptySeq, Singleton, SMTT(40) DEF QueueInv, Replied, Asked
<1>3. CASE UNCHANGED <<stdout, written>>
  BY <1>1, <1>2, <1>3 DEF Mine, LinesInv, Replied
<1>4. ASSUME NEW line \in Lines, stdout' = Append(stdout, line), written' = written + 1
      PROVE  LinesInv'
  <2>1. Len(stdout') = Len(stdout) + 1 /\ Len(stdout) \in Nat /\ Len(returned) \in Nat
    BY <1>4 DEF TypeOK
  <2>2. QED BY <1>1, <1>2, <1>4, <2>1 DEF Mine, LinesInv, Replied
<1>5. CASE PeerAnswers
  <2>1. Line(Head(taken)) \in Lines
    BY <1>5, HeadTail, ItemTypes, BoundsAssumption DEF PeerAnswers, TypeOK
  <2>2. QED BY <1>4, <1>5, <2>1 DEF PeerAnswers
<1>6. CASE PeerWritesExtra
  BY <1>4, <1>6, ItemTypes DEF PeerWritesExtra
<1>7. QED BY <1>3, <1>5, <1>6 DEF PeerStep, PeerReads, PeerEnds, PeerMisbehaves

LEMMA LinesStep == ASSUME TypeOK, QueueInv, LinesInv, [Next]_vars PROVE LinesInv'
<1>1. CASE UNCHANGED vars
  BY <1>1 DEF vars, LinesInv, Replied
<1>2. QED BY <1>1, LinesCaller, LinesWorker, LinesPeer DEF Next

(* A `with` block that ends without an error has returned every line the       *)
(* process ever wrote, one for each case.                                      *)
THEOREM LinesAccounted == Spec => []EveryLineAccounted
<1>1. Init => LinesInv
  BY EmptySeq DEF Init, LinesInv
<1>2. LinesInv => EveryLineAccounted
  BY DEF LinesInv, EveryLineAccounted
<1>3. QED BY <1>1, <1>2, TypesInit, TypesStep, QueueInit, QueueStep, LinesStep, PTL DEF Spec

-----------------------------------------------------------------------------
(* Answers                                                                     *)

LEMMA AnswerCaller ==
  ASSUME TypeOK, QueueInv, AnswerInv, CallerStep \/ Run \/ Finish \/ Abandon
  PROVE  AnswerInv'
<1> SUFFICES ASSUME extras' = 0 PROVE AnswerInv'
  BY DEF AnswerInv
<1>0. extras = 0 /\ UNCHANGED <<stdin, taken, stdout>> /\ (Quiet' <=> Quiet)
  BY DEF CallerStep, Run, Finish, Abandon, GetReply, TimeOut, Death, GetTrailing,
         FinishTimeOut, Close, Join, pipes, Quiet
<1>1. CASE Run
  <2>1. requests' = <<sent'>> /\ UNCHANGED returned /\ caller' = "awaiting" /\ Quiet /\ AnswersMatch
    BY <1>0, <1>1, Singleton DEF Run, QueueInv, AnswerInv
  <2>2. requests' # <<>> /\ ~Replied'
    BY <2>1, Singleton DEF Replied
  <2>3. QED BY <1>0, <2>1, <2>2 DEF AnswerInv, AnswersMatch
<1>2. CASE GetReply
  <2>1. Replied /\ Head(replies) = replies[1] /\ AnswersMatch
    BY <1>0, <1>2, OnlyOne DEF GetReply, QueueInv, Asked, Replied, TypeOK, AnswerInv
  <2>2. CASE replies[1].kind = "line"
    <3>1. replies[1] = Line(sent) /\ Quiet
      BY <1>0, <1>2, <2>1, <2>2 DEF GetReply, AnswerInv
    <3>2. returned' = Append(returned, [case |-> sent, line |-> Line(sent)]) /\ caller' = "ready"
      BY <1>2, <2>1, <2>2, <3>1 DEF GetReply
    <3>3. AnswersMatch'
      <4>1. SUFFICES ASSUME NEW k \in DOMAIN returned'
                     PROVE  returned'[k].line = Line(returned'[k].case)
        BY DEF AnswersMatch
      <4>2. /\ Len(returned) \in Nat /\ DOMAIN returned = 1 .. Len(returned)
            /\ DOMAIN returned' = 1 .. Len(returned) + 1
            /\ \A j \in 1 .. Len(returned) : returned'[j] = returned[j]
            /\ returned'[Len(returned) + 1] = [case |-> sent, line |-> Line(sent)]
        <5>1. [case |-> sent, line |-> Line(sent)] \in [case : 0 .. MaxRuns, line : Items]
          BY ItemTypes, BoundsAssumption DEF TypeOK
        <5>2. QED BY <3>2, <5>1, AppendProperties, LenProperties DEF TypeOK
      <4>3. CASE k \in 1 .. Len(returned)
        BY <1>0, <2>1, <4>2, <4>3 DEF AnswersMatch
      <4>4. CASE k = Len(returned) + 1
        BY <4>2, <4>4
      <4>5. QED BY <4>1, <4>2, <4>3, <4>4
    <3>4. QED BY <1>0, <3>1, <3>2, <3>3 DEF AnswerInv
  <2>3. CASE replies[1].kind # "line"
    BY <1>0, <1>2, <2>1, <2>3 DEF GetReply, AnswerInv, AnswersMatch
  <2>4. QED BY <2>2, <2>3
<1>3. CASE Finish \/ Abandon \/ TimeOut \/ Death \/ GetTrailing \/ FinishTimeOut \/ Close \/ Join
  <2>1. caller' \notin {"ready", "awaiting"} /\ UNCHANGED returned
    BY <1>3 DEF Finish, Abandon, TimeOut, Death, GetTrailing, FinishTimeOut, Close, Join
  <2>2. QED BY <1>0, <2>1 DEF AnswerInv, AnswersMatch
<1>4. QED BY <1>1, <1>2, <1>3 DEF CallerStep

LEMMA AnswerWorker ==
  ASSUME TypeOK, QueueInv, AnswerInv, WorkerStep PROVE AnswerInv'
<1> SUFFICES ASSUME extras' = 0 PROVE AnswerInv'
  BY DEF AnswerInv
<1>0. extras = 0 /\ AnswersMatch' /\ UNCHANGED <<caller, sent, returned>>
  BY DEF WorkerStep, TakeRequest, WriteEnds, ReadLine, Drain, Wait, pipes, AnswerInv, AnswersMatch
<1>1. CASE caller = "ready"
  BY <1>0, <1>1 DEF WorkerStep, TakeRequest, WriteEnds, ReadLine, Drain, Wait, QueueInv
<1>2. CASE caller = "awaiting"
  <2>1. CASE TakeRequest
    <3>1. requests = <<sent>> /\ replies = <<>> /\ Quiet /\ sent # None
      BY <1>0, <1>2, <2>1, Singleton
         DEF TakeRequest, QueueInv, AnswerInv, InFlight, Replied, Asked, TypeOK, None
    <3>2. requests' = <<>> /\ Head(requests) = sent
      BY <2>1, <3>1, Singleton DEF TakeRequest
    <3>3. CASE Writable
      <4>1. /\ stdin' = <<sent>> /\ taken' = <<>> /\ stdout' = <<>> /\ replies' = <<>>
            /\ ~Replied'
        BY <2>1, <3>1, <3>2, <3>3, Singleton, EmptySeq DEF TakeRequest, Quiet, Replied
      <4>2. QED BY <1>0, <1>2, <3>2, <4>1 DEF AnswerInv
    <3>4. CASE ~Writable
      <4>1. worker' = "exited" /\ replies' = <<Exception>>
        BY <2>1, <3>1, <3>2, <3>4, Singleton DEF TakeRequest, Tell
      <4>2. QED BY <1>0, <1>2, <3>2, <4>1, Singleton, Kinds DEF AnswerInv, InFlight
    <3>5. QED BY <3>3, <3>4
  <2>2. CASE WriteEnds
    <3>1. requests = <<>> /\ replies = <<>> /\ InFlight /\ UNCHANGED <<requests, pipes>>
      BY <1>2, <2>2 DEF WriteEnds, QueueInv, Asked, InFlight
    <3>2. CASE worker' = "reading" /\ UNCHANGED replies
      <4>1. ~Replied' /\ requests' = <<>>
        BY <3>1, <3>2, EmptySeq DEF Replied
      <4>2. QED BY <1>0, <1>2, <3>1, <4>1 DEF AnswerInv, pipes
    <3>3. CASE worker' = "exited" /\ replies' = <<Exception>>
      BY <1>0, <1>2, <3>1, <3>3, Singleton, Kinds DEF AnswerInv, InFlight
    <3>4. QED BY <2>2, <3>1, <3>2, <3>3, Singleton DEF WriteEnds, Tell
  <2>3. CASE ReadLine
    <3>1. requests = <<>> /\ replies = <<>> /\ InFlight /\ UNCHANGED <<requests, stdin, taken>>
      BY <1>2, <2>3 DEF ReadLine, QueueInv, Asked, InFlight
    <3>2. worker' = "idle"
      BY <2>3 DEF ReadLine
    <3>3. CASE stdout # <<>>
      <4>1. stdin = <<>> /\ taken = <<>> /\ stdout = <<Line(sent)>>
        BY <1>0, <1>2, <3>1, <3>3 DEF AnswerInv
      <4>2. stdout' = <<>> /\ replies' = <<Line(sent)>>
        BY <2>3, <3>1, <3>3, <4>1, Singleton DEF ReadLine, Tell
      <4>3. QED BY <1>0, <1>2, <3>1, <3>2, <4>1, <4>2, Singleton DEF AnswerInv, InFlight, Quiet
    <3>4. CASE stdout = <<>>
      <4>1. replies' = <<Eof>>
        BY <2>3, <3>1, <3>4, Singleton DEF ReadLine, Tell
      <4>2. QED BY <1>0, <1>2, <3>1, <3>2, <4>1, Singleton, Kinds DEF AnswerInv, InFlight
    <3>5. QED BY <3>3, <3>4
  <2>4. CASE Drain \/ Wait
    BY <1>2, <2>4 DEF Drain, Wait, QueueInv, Asked, InFlight
  <2>5. QED BY <2>1, <2>2, <2>3, <2>4 DEF WorkerStep
<1>3. CASE caller \notin {"ready", "awaiting"}
  BY <1>0, <1>3 DEF AnswerInv
<1>4. QED BY <1>1, <1>2, <1>3

LEMMA AnswerPeer ==
  ASSUME TypeOK, QueueInv, AnswerInv, PeerStep PROVE AnswerInv'
<1> SUFFICES ASSUME extras' = 0 PROVE AnswerInv'
  BY DEF AnswerInv
<1>0. extras = 0 /\ UNCHANGED Mine /\ ~PeerWritesExtra
  BY DEF PeerStep, PeerReads, PeerAnswers, PeerWritesExtra, PeerEnds, PeerMisbehaves, TypeOK
<1>1. /\ UNCHANGED <<caller, requests, replies, worker, sent, returned>>
      /\ (Replied' <=> Replied) /\ (InFlight' <=> InFlight) /\ (AnswersMatch' <=> AnswersMatch)
  BY <1>0 DEF Mine, Replied, InFlight, AnswersMatch
<1>2. CASE UNCHANGED <<stdin, taken, stdout>>
  BY <1>0, <1>1, <1>2 DEF AnswerInv, Quiet
<1>3. CASE PeerReads
  <2>1. ~Quiet /\ stdin # <<>>
    BY <1>3 DEF PeerReads, Quiet
  <2>2. stdin = <<sent>> => stdin' = <<>> /\ (taken = <<>> => taken' = <<sent>>)
    BY <1>3, Singleton DEF PeerReads
  <2>3. stdout' = stdout
    BY <1>3 DEF PeerReads
  <2>4. QED BY <1>0, <1>1, <2>1, <2>2, <2>3 DEF AnswerInv
<1>4. CASE PeerAnswers
  <2>1. ~Quiet /\ taken # <<>> /\ stdin' = stdin
    BY <1>4 DEF PeerAnswers, Quiet
  <2>2. taken = <<sent>> => taken' = <<>> /\ (stdout = <<>> => stdout' = <<Line(sent)>>)
    BY <1>4, Singleton DEF PeerAnswers
  <2>3. QED BY <1>0, <1>1, <2>1, <2>2 DEF AnswerInv
<1>5. QED BY <1>0, <1>2, <1>3, <1>4 DEF PeerStep, PeerEnds, PeerMisbehaves

LEMMA AnswerStep == ASSUME TypeOK, QueueInv, AnswerInv, [Next]_vars PROVE AnswerInv'
<1>1. CASE UNCHANGED vars
  BY <1>1 DEF vars, AnswerInv, AnswersMatch, Quiet, InFlight, Replied
<1>2. QED BY <1>1, AnswerCaller, AnswerWorker, AnswerPeer DEF Next

(* As long as nothing unasked was written, whatever timed out before: every    *)
(* line returned is the answer to its own case.                                *)
THEOREM AnswersAlwaysMatch == Spec => []AnswersMatch
<1>1. Init => AnswerInv
  BY DEF Init, AnswerInv, AnswersMatch, Quiet
<1>2. AnswerInv => AnswersMatch
  BY DEF AnswerInv, AnswersMatch
<1>3. QED BY <1>1, <1>2, TypesInit, TypesStep, QueueInit, QueueStep, AnswerStep, PTL DEF Spec

-----------------------------------------------------------------------------
(* The campaign.                                                               *)

Pair == [python : Answer("python"), lean : Answer("lean")]
Reports == [cases : Nat, both_errored : Nat, divergences : SUBSET Nat, hits : SUBSET Tags,
            protocol_error : BOOLEAN]
CaseTyped == history \in Seq(Pair) /\ report \in Reports
SampleTyped == sample.features \subseteq Features /\ sample.cases \in 0 .. MaxCases
GuideTyped == guide.tags \subseteq Tags /\ guide.pairs \subseteq Tags \X Features

(* A sample's cases end when all have run, unless the peer broke.              *)
Progress ==
  /\ report.cases = Len(history) /\ report.both_errored <= Len(history)
  /\ report.divergences \subseteq 0 .. Len(history) - 1
  /\ Len(history) <= sample.cases
  /\ phase \in {"finish", "observe"} /\ ~report.protocol_error => Len(history) = sample.cases

(* The report tells of every case whether the sides agree and whether both     *)
(* raised an error.                                                            *)
Erred(pair) == pair.python.error # NoError /\ pair.lean.error # NoError
Told ==
  \A n \in DOMAIN history :
    /\ n - 1 \notin report.divergences => AgreesWith(history[n].python, history[n].lean)
    /\ report.both_errored = 0 => ~Erred(history[n])

(* The campaign counts its samples; a failure is a sample it has run.          *)
Counted ==
  /\ phase \in {"sample", "start", "cases", "finish", "observe", "done"}
  /\ result.samples \in 0 .. Budget /\ result.requests \in Nat
  /\ result.failures \subseteq 0 .. result.samples - 1
  /\ phase # "done" => result.samples < Budget

CaseInv == CaseTyped /\ SampleTyped /\ Progress /\ Told
CampaignInv == CaseInv /\ GuideTyped /\ Counted

-----------------------------------------------------------------------------
(* An answer is an outcome.                                                    *)
LEMMA AnswersAreOutcomes ==
  ASSUME NEW side \in {"python", "lean"}
  PROVE  Answer(side) \subseteq Outcome
<1> SUFFICES ASSUME NEW a \in Answer(side) PROVE a \in Outcome
  OBVIOUS
<1>1. NoError \in Sentences
  BY DEF Sentences
<1>2. ASSUME NEW m \in Messages PROVE Python(m) \in Sentences /\ <<m>> \in Sentences
  BY DEF Sentences
<1>3. CASE \E o \in Outputs, d \in BOOLEAN, s \in States :
             a = [outputs |-> o, error |-> NoError, diagnostic |-> d, state |-> s]
  BY <1>1, <1>3 DEF Outcome
<1>4. CASE \E m \in Messages, s \in States :
             a = [outputs |-> NoOutputs, error |-> IF side = "python" THEN Python(m) ELSE <<m>>,
                  diagnostic |-> FALSE, state |-> s]
  BY <1>2, <1>4 DEF Outcome
<1> QED
  BY <1>3, <1>4 DEF Answer

LEMMA LargerSeq ==
  ASSUME NEW S, NEW W, S \subseteq W, NEW s \in Seq(S)
  PROVE  s \in Seq(W)
<1>1. s \in [1 .. Len(s) -> W] /\ Len(s) \in Nat
  OBVIOUS
<1> QED
  BY <1>1

(* One case more.                                                              *)
LEMMA RunCaseKeeps ==
  ASSUME CaseInv, NEW p \in Answer("python"), NEW l \in Answer("lean"), NEW tags \in SUBSET Tags,
         RunCase(p, l, tags)
  PROVE  CaseInv'
<1> DEFINE pair == [python |-> p, lean |-> l]
<1>1. /\ history \in Seq(Pair) /\ report \in Reports /\ pair \in Pair
      /\ history' = Append(history, pair) /\ report.cases = Len(history)
  BY DEF CaseInv, CaseTyped, Progress, RunCase, Pair
<1>2. /\ history' \in Seq(Pair) /\ Len(history') = Len(history) + 1 /\ Len(history) \in Nat
      /\ DOMAIN history' = 1 .. Len(history) + 1 /\ DOMAIN history = 1 .. Len(history)
      /\ \A n \in 1 .. Len(history) : history'[n] = history[n]
      /\ history'[Len(history) + 1] = pair
  BY <1>1
<1>3. /\ report' \in Reports
      /\ report'.cases = report.cases + 1 /\ report'.protocol_error = report.protocol_error
      /\ report'.both_errored = IF Erred(pair) THEN report.both_errored + 1 ELSE report.both_errored
      /\ report'.divergences = IF AgreesWith(p, l) THEN report.divergences
                               ELSE report.divergences \cup {report.cases}
  <2>1. report' = [report EXCEPT
          !.cases = @ + 1, !.hits = @ \cup tags,
          !.both_errored = IF Erred(pair) THEN @ + 1 ELSE @,
          !.divergences = IF AgreesWith(p, l) THEN @ ELSE @ \cup {report.cases}]
    BY DEF RunCase, Erred
  <2> DEFINE errors == IF Erred(pair) THEN report.both_errored + 1 ELSE report.both_errored
             diverging == IF AgreesWith(p, l) THEN report.divergences
                          ELSE report.divergences \cup {report.cases}
  <2>2. report' = [report EXCEPT !.cases = @ + 1, !.hits = @ \cup tags,
                                 !.both_errored = errors, !.divergences = diverging]
    BY <2>1
  <2>3. errors \in Nat /\ diverging \in SUBSET Nat
    BY <1>1 DEF Reports
  <2> HIDE DEF pair, errors, diverging
  <2>4. /\ report.cases \in Nat /\ report.hits \in SUBSET Tags /\ report.protocol_error \in BOOLEAN
        /\ DOMAIN report = {"cases", "both_errored", "divergences", "hits", "protocol_error"}
    BY <1>1 DEF Reports
  <2>5. /\ report'.cases = report.cases + 1 /\ report'.hits = report.hits \cup tags
        /\ report'.protocol_error = report.protocol_error
        /\ report'.both_errored = errors /\ report'.divergences = diverging
    BY <2>2, <2>4
  <2>6. report' = [cases |-> report.cases + 1, both_errored |-> errors, divergences |-> diverging,
                   hits |-> report.hits \cup tags, protocol_error |-> report.protocol_error]
    BY <2>2, <2>4, <2>5
  <2>7. report' \in Reports
    BY <2>3, <2>4, <2>6 DEF Reports
  <2> QED
    BY <2>5, <2>7 DEF errors, diverging
<1>4. SampleTyped'
  BY DEF RunCase, CaseInv, SampleTyped
<1>5. Progress'
  <2>1. phase' = "cases" /\ Len(history) < sample.cases /\ sample' = sample
    BY DEF RunCase
  <2>2. report.both_errored <= Len(history) /\ report.divergences \subseteq 0 .. Len(history) - 1
    BY DEF CaseInv, Progress
  <2>3. report.both_errored \in Nat /\ sample.cases \in Nat
    BY <1>1 DEF CaseInv, SampleTyped, Reports
  <2>4. report'.divergences \subseteq 0 .. Len(history') - 1
    BY <1>1, <1>2, <1>3, <2>2
  <2> QED
    BY <1>1, <1>2, <1>3, <2>1, <2>2, <2>3, <2>4 DEF Progress
<1>6. Told'
  <2> SUFFICES ASSUME NEW n \in DOMAIN history'
               PROVE  /\ n - 1 \notin report'.divergences =>
                           AgreesWith(history'[n].python, history'[n].lean)
                      /\ report'.both_errored = 0 => ~Erred(history'[n])
    BY DEF Told, AgreesWith, Erred
  <2>1. CASE n \in 1 .. Len(history)
    <3>1. /\ n - 1 \notin report.divergences => AgreesWith(history[n].python, history[n].lean)
          /\ report.both_errored = 0 => ~Erred(history[n])
      BY <1>2, <2>1 DEF CaseInv, Told
    <3>2. report.both_errored \in Nat
      BY <1>1 DEF Reports
    <3>3. report'.both_errored = 0 => report.both_errored = 0
      BY <1>3, <3>2
    <3> QED
      BY <1>2, <1>3, <2>1, <3>1, <3>3
  <2>2. CASE n = Len(history) + 1
    <3>1. report.both_errored \in Nat
      BY <1>1 DEF Reports
    <3>2. history'[n] = pair /\ pair.python = p /\ pair.lean = l /\ n - 1 = report.cases
      BY <1>1, <1>2, <2>2
    <3> QED
      BY <1>3, <3>1, <3>2
  <2> QED
    BY <1>2, <2>1, <2>2
<1> QED
  BY <1>2, <1>3, <1>4, <1>5, <1>6 DEF CaseInv, CaseTyped

-----------------------------------------------------------------------------
(* What compare_program and run_guided keep from step to step.                 *)
THEOREM CampaignInvariant == CampaignSpec => []CampaignInv
<1> USE CampaignAssumption
<1>1. CampaignInit => CampaignInv
  <2> SUFFICES ASSUME CampaignInit PROVE CampaignInv
    OBVIOUS
  <2>1. SampleTyped
    BY DEF CampaignInit, SampleTyped
  <2>2. Len(history) = 0 /\ DOMAIN history = {} /\ history \in Seq(Pair)
    BY DEF CampaignInit
  <2>3. CaseTyped /\ Progress
    BY <2>1, <2>2 DEF CampaignInit, CaseTyped, Reports, NewReport, Progress, SampleTyped
  <2>4. Told
    BY <2>2 DEF Told
  <2> QED
    BY <2>1, <2>3, <2>4 DEF CampaignInit, CampaignInv, CaseInv, GuideTyped, Counted
<1>2. CampaignInv /\ [CampaignNext]_campaignVars => CampaignInv'
  <2> SUFFICES ASSUME CampaignInv, [CampaignNext]_campaignVars PROVE CampaignInv'
    OBVIOUS
  <2> USE DEF CampaignInv
  <2>1. ASSUME NEW features \in SUBSET Features, NEW n \in 1 .. MaxCases, MakeSample(features, n)
        PROVE  CampaignInv'
    <3>1. history' = <<>> /\ report' = NewReport /\ SampleTyped' /\ phase' = "start"
      BY <2>1 DEF MakeSample, SampleTyped
    <3>2. Len(history') = 0 /\ DOMAIN history' = {} /\ history' \in Seq(Pair)
      BY <3>1
    <3>3. CaseTyped' /\ Progress'
      BY <3>1, <3>2 DEF CaseTyped, Reports, NewReport, Progress, SampleTyped
    <3>4. Told'
      BY <3>2 DEF Told
    <3>5. CaseInv'
      BY <3>1, <3>3, <3>4 DEF CaseInv
    <3> QED
      BY <2>1, <3>5 DEF MakeSample, GuideTyped, Counted
  <2>2. CASE PeerBreaks
    <3>1. /\ report \in Reports
          /\ report' = [report EXCEPT !.protocol_error = TRUE] /\ phase' = "observe"
          /\ sample' = sample /\ history' = history
      BY <2>2 DEF PeerBreaks, CaseInv, CaseTyped
    <3>2. /\ report' \in Reports /\ report'.protocol_error /\ report'.cases = report.cases
          /\ report'.divergences = report.divergences /\ report'.both_errored = report.both_errored
      BY <3>1 DEF Reports
    <3>3. CaseInv'
      BY <3>1, <3>2 DEF CaseInv, CaseTyped, SampleTyped, Progress, Told, Erred, AgreesWith
    <3> QED
      BY <2>2, <3>3 DEF PeerBreaks, GuideTyped, Counted
  <2>3. CASE StartPeer
    BY <2>3 DEF StartPeer, CaseInv, CaseTyped, SampleTyped, Progress, Told, Erred, AgreesWith, GuideTyped, Counted
  <2>4. CASE EndCases
    BY <2>4 DEF EndCases, CaseInv, CaseTyped, SampleTyped, Progress, Told, Erred, AgreesWith, GuideTyped, Counted
  <2>5. CASE FinishPeer
    BY <2>5 DEF FinishPeer, CaseInv, CaseTyped, SampleTyped, Progress, Told, Erred, AgreesWith, GuideTyped, Counted
  <2>6. ASSUME NEW p \in Answer("python"), NEW l \in Answer("lean"), NEW tags \in SUBSET Tags,
               RunCase(p, l, tags)
        PROVE  CampaignInv'
    <3>1. CaseInv'
      BY <2>6, RunCaseKeeps
    <3> QED
      BY <2>6, <3>1 DEF RunCase, GuideTyped, Counted
  <2>7. CASE Observe
    <3>1. phase' \in {"sample", "done"} /\ UNCHANGED <<sample, history, report>>
      BY <2>7 DEF Observe
    <3>2. CaseInv'
      BY <3>1 DEF CaseInv, CaseTyped, SampleTyped, Progress, Told, Erred, AgreesWith
    <3>3. GuideTyped'
      BY <2>7 DEF Observe, GuideTyped, CaseInv, CaseTyped, SampleTyped, Reports
    <3>4. Counted'
      <4>1. result.samples \in 0 .. Budget - 1 /\ report.cases \in Nat
        BY <2>7 DEF Observe, Counted, CaseInv, CaseTyped, Reports
      <4>2. result'.samples = result.samples + 1 /\ result'.requests = result.requests + report.cases
        BY <2>7 DEF Observe
      <4>3. result'.failures \subseteq result.failures \cup {result.samples}
        BY <2>7 DEF Observe
      <4>4. phase' = IF result'.samples = Budget THEN "done" ELSE "sample"
        BY <2>7 DEF Observe
      <4> QED
        BY <4>1, <4>2, <4>3, <4>4 DEF Counted
    <3> QED
      BY <3>2, <3>3, <3>4
  <2>8. CASE UNCHANGED campaignVars
    BY <2>8 DEF campaignVars, CaseInv, CaseTyped, SampleTyped, Progress, Told, Erred, AgreesWith, GuideTyped, Counted
  <2> QED
    BY <2>1, <2>2, <2>3, <2>4, <2>5, <2>6, <2>7, <2>8 DEF CampaignNext
<1> QED
  BY <1>1, <1>2, PTL DEF CampaignSpec

(* The types of the campaign's records, and the bounds of its report.          *)
THEOREM CampaignTypeCorrect == CampaignSpec => []CampaignTypeOK
<1>1. CampaignInv => CampaignTypeOK
  <2> SUFFICES ASSUME CampaignInv PROVE CampaignTypeOK
    OBVIOUS
  <2>1. CaseTyped /\ SampleTyped /\ Progress /\ GuideTyped /\ Counted
    BY DEF CampaignInv, CaseInv
  <2>2. Pair \subseteq [python : Outcome, lean : Outcome]
    BY AnswersAreOutcomes DEF Pair
  <2>3. history \in Seq([python : Outcome, lean : Outcome])
    <3>1. history \in Seq(Pair)
      BY <2>1 DEF CaseTyped
    <3> HIDE DEF Pair, Outcome
    <3> QED
      BY <2>2, <3>1, LargerSeq
  <2>4. Len(history) \in 0 .. MaxCases
    BY <2>1, CampaignAssumption DEF CaseTyped, SampleTyped, Progress
  <2>5. report.both_errored \in 0 .. MaxCases /\ report.divergences \subseteq 0 .. MaxCases - 1
    BY <2>1, <2>4, CampaignAssumption DEF CaseTyped, Reports, Progress
  <2> QED
    BY <2>1, <2>3, <2>5 DEF CampaignTypeOK, CaseTyped, Reports, SampleTyped, Progress, GuideTyped, Counted
<1> QED
  BY <1>1, CampaignInvariant, PTL

-----------------------------------------------------------------------------
(* While no divergence is reported, both sides carry the same state into the   *)
(* next case, also after a case that failed on both (Outcome.agrees_with).     *)
THEOREM NoSilentDesync == CampaignSpec => []DesyncIsNeverSilent
<1>1. CampaignInv => DesyncIsNeverSilent
  <2> SUFFICES ASSUME CampaignInv, NEW n \in DOMAIN history,
                      \A k \in 1 .. n : k - 1 \notin report.divergences
               PROVE  history[n].python.state = history[n].lean.state
    BY DEF DesyncIsNeverSilent
  <2>1. n \in 1 .. n
    BY DEF CampaignInv, CaseInv, CaseTyped
  <2>2. AgreesWith(history[n].python, history[n].lean)
    BY <2>1 DEF CampaignInv, CaseInv, Told
  <2> QED
    BY <2>2 DEF AgreesWith
<1> QED
  BY <1>1, CampaignInvariant, PTL

(* A sample that is not kept as a failure ran all its cases, on both sides     *)
(* without an error, and the outputs agree (Report, run_guided).               *)
THEOREM PassingSamplesAgree == CampaignSpec => PassMeansAgreement
<1>1. CampaignInv /\ [CampaignNext]_campaignVars =>
        [Observe /\ result'.failures = result.failures =>
           /\ Len(history) = sample.cases
           /\ \A n \in DOMAIN history :
                /\ history[n].python.error = NoError /\ history[n].lean.error = NoError
                /\ history[n].python.outputs = history[n].lean.outputs]_campaignVars
  <2> SUFFICES ASSUME CampaignInv, Observe, result'.failures = result.failures
               PROVE  /\ Len(history) = sample.cases
                      /\ \A n \in DOMAIN history :
                           /\ history[n].python.error = NoError /\ history[n].lean.error = NoError
                           /\ history[n].python.outputs = history[n].lean.outputs
    OBVIOUS
  <2>1. result.samples \notin result.failures
    BY DEF CampaignInv, Counted
  <2>2. Passed(report)
    BY <2>1 DEF Observe
  <2>3. Len(history) = sample.cases
    BY <2>2 DEF Observe, Passed, CampaignInv, CaseInv, Progress
  <2>4. ASSUME NEW n \in DOMAIN history
        PROVE  /\ history[n].python.error = NoError /\ history[n].lean.error = NoError
               /\ history[n].python.outputs = history[n].lean.outputs
    <3>1. AgreesWith(history[n].python, history[n].lean) /\ ~Erred(history[n])
      BY <2>2 DEF Passed, CampaignInv, CaseInv, Told
    <3> QED
      BY <3>1 DEF AgreesWith, Erred
  <2> QED
    BY <2>3, <2>4
<1> QED
  BY <1>1, CampaignInvariant, PTL DEF CampaignSpec, PassMeansAgreement

-----------------------------------------------------------------------------
(* What a written number means.                                                *)

LEMMA BelowPower == ASSUME NEW b \in Nat PROVE b < Pow2(b)
<1> DEFINE G == {k \in 0 .. b : k < Pow2(k)}
<1>1. 0 \in G
  BY PowZero
<1>2. ASSUME NEW k \in 1 .. b, k - 1 \in G PROVE k \in G
  <2>1. k - 1 \in Nat /\ (k - 1) + 1 = k
    OBVIOUS
  <2>2. Pow2(k) = 2 * Pow2(k - 1)
    BY <2>1, PowNext
  <2>3. Pow2(k - 1) \in Nat
    BY <2>1, PowPositive
  <2> QED BY <1>2, <2>2, <2>3
<1> HIDE DEF G
<1>3. \A k \in 0 .. b : k \in G
  BY <1>1, <1>2, Upward
<1> QED BY <1>3 DEF G

LEMMA HighBitsAreZero ==
  ASSUME NEW n \in Nat, NEW b \in Nat, n < b
  PROVE  n \div Pow2(b) = 0
<1>1. Pow2(b) \in Nat \ {0} /\ n \in 0 .. Pow2(b) - 1
  BY PowPositive, BelowPower
<1>2. n = 0 * Pow2(b) + n
  BY <1>1
<1> QED BY <1>1, <1>2, QuotientIs

(* The bits of a number are its ones, wherever they are looked for.            *)
LEMMA DecimalBits ==
  ASSUME NEW n \in Nat, NEW b \in Nat
  PROVE  b \in BitsOf(n) <=> (n \div Pow2(b)) % 2 = 1
<1>1. CASE b <= n
  BY <1>1 DEF BitsOf
<1>2. CASE n < b
  BY <1>2, HighBitsAreZero DEF BitsOf
<1> QED BY <1>1, <1>2

LEMMA DigitPlaces ==
  ASSUME NEW S, NEW digits \in Seq(S), NEW d, NEW b
  PROVE  /\ Places(digits, d) \subseteq 0 .. Len(digits) - 1
         /\ b \in Places(digits, d) <=> b \in 0 .. Len(digits) - 1 /\ digits[Len(digits) - b] = d
<1>1. Len(digits) \in Nat /\ DOMAIN digits = 1 .. Len(digits)
  BY LenProperties
<1>2. Places(digits, d) \subseteq 0 .. Len(digits) - 1
  BY <1>1 DEF Places
<1>3. ASSUME b \in Places(digits, d) PROVE digits[Len(digits) - b] = d
  <2>1. PICK i \in DOMAIN digits : digits[i] = d /\ b = Len(digits) - i
    BY <1>3 DEF Places
  <2>2. Len(digits) - b = i
    BY <1>1, <2>1
  <2> QED BY <2>1, <2>2
<1>4. ASSUME b \in 0 .. Len(digits) - 1, digits[Len(digits) - b] = d PROVE b \in Places(digits, d)
  <2>1. Len(digits) - b \in DOMAIN digits /\ b = Len(digits) - (Len(digits) - b)
    BY <1>1, <1>4
  <2> QED BY <1>4, <2>1 DEF Places
<1> QED BY <1>2, <1>3, <1>4

(* The ones of a written number, and its open digits.                          *)
OneAt(n, b) ==
  IF n.decimal # Absent THEN (n.decimal \div Pow2(b)) % 2 = 1
  ELSE b < Len(n.digits) /\ n.digits[Len(n.digits) - b] = "1"
Starry(n) == n.decimal = Absent /\ \E i \in DOMAIN n.digits : n.digits[i] = "*"
OpenAt(n, b) == Starry(n) /\ (b >= Len(n.digits) \/ n.digits[Len(n.digits) - b] = "*")

LEMMA NumberMeans ==
  ASSUME NEW n \in Number, NEW b \in Nat
  PROVE  /\ b \in ParseNumber(n).value <=> OneAt(n, b)
         /\ (ParseNumber(n).mask # NoMask) <=> Starry(n)
         /\ Starry(n) => (b \in ParseNumber(n).mask <=> ~OpenAt(n, b))
         /\ Starry(n) => ParseNumber(n).value \subseteq ParseNumber(n).mask
         /\ Starry(n) => ParseNumber(n).mask \subseteq 0 .. ParseNumber(n).width - 1
         /\ ParseNumber(n).width \in Int
<1>1. n.digits \in Seq({"0", "1", "*"}) /\ n.decimal \in Nat \cup {Absent}
  BY DEF Number
<1>2. CASE n.decimal # Absent
  <2>1. ParseNumber(n) = [value |-> BitsOf(n.decimal), mask |-> NoMask, width |-> Absent]
    BY <1>2 DEF ParseNumber
  <2>2. ~Starry(n)
    BY <1>2 DEF Starry
  <2>3. n.decimal \in Nat
    BY <1>1, <1>2
  <2> QED BY <1>2, <2>1, <2>2, <2>3, DecimalBits DEF OneAt, Absent
<1>3. CASE n.decimal = Absent
  <2> DEFINE ones == Places(n.digits, "1")
             zeros == Places(n.digits, "0")
             stars == Places(n.digits, "*")
             size == Len(n.digits)
  <2>1. ParseNumber(n) = [value |-> ones, mask |-> IF stars = {} THEN NoMask ELSE zeros \cup ones, width |-> size]
    BY <1>3 DEF ParseNumber
  <2>2. size \in Nat /\ DOMAIN n.digits = 1 .. size
        /\ \A i \in 1 .. size : n.digits[i] \in {"0", "1", "*"}
    BY <1>1, LenProperties, ElementOfSeq
  <2>3. /\ \A c : c \in ones <=> c \in 0 .. size - 1 /\ n.digits[size - c] = "1"
        /\ \A c : c \in zeros <=> c \in 0 .. size - 1 /\ n.digits[size - c] = "0"
        /\ \A c : c \in stars <=> c \in 0 .. size - 1 /\ n.digits[size - c] = "*"
    BY <1>1, DigitPlaces
  <2> HIDE DEF ones, zeros, stars, size
  <2>4. stars # {} <=> Starry(n)
    <3>1. ASSUME NEW i \in 1 .. size, n.digits[i] = "*" PROVE size - i \in stars
      <4>1. size - i \in 0 .. size - 1 /\ size - (size - i) = i
        BY <2>2
      <4> QED BY <2>3, <3>1, <4>1
    <3>2. ASSUME NEW c \in stars PROVE size - c \in 1 .. size /\ n.digits[size - c] = "*"
      BY <2>2, <2>3
    <3> QED BY <1>3, <2>2, <3>1, <3>2 DEF Starry
  <2>5. zeros \cup ones # NoMask /\ zeros \cup ones \subseteq 0 .. size - 1
    <3>1. Absent \notin zeros \cup ones
      BY <2>2, <2>3 DEF Absent
    <3> QED BY <2>3, <3>1 DEF NoMask
  <2>6. b \in ones <=> OneAt(n, b)
    BY <1>3, <2>2, <2>3 DEF OneAt, size
  <2>7. Starry(n) => (b \in zeros \cup ones <=> ~OpenAt(n, b))
    <3>1. CASE b >= size
      BY <2>2, <2>3, <3>1 DEF OpenAt, size
    <3>2. CASE b < size
      <4>1. b \in 0 .. size - 1 /\ size - b \in 1 .. size
        BY <2>2, <3>2
      <4>2. n.digits[size - b] \in {"0", "1", "*"}
        BY <2>2, <4>1
      <4>3. OpenAt(n, b) <=> Starry(n) /\ n.digits[size - b] = "*"
        BY <2>2, <3>2 DEF OpenAt, size
      <4> QED BY <2>3, <4>1, <4>2, <4>3
    <3> QED BY <2>2, <3>1, <3>2
  <2> QED BY <2>1, <2>2, <2>4, <2>5, <2>6, <2>7
<1> QED BY <1>2, <1>3

(* An entry's key has the form its table takes, and matches what is written.   *)
LEMMA KeyMeans ==
  ASSUME NEW key \in TableKey, NEW k \in WrittenKey, KeyResolves(key, k), NEW v \in SUBSET All(key.width)
  PROVE  /\ T!CheckKeyValue(key.kind, KeyValue(key, k), key.width)
         /\ T!KeyValueMatches(KeyValue(key, k), v, key.width) <=> WrittenMatches(k, v, key.width)
<1> DEFINE w == key.width
           n == ParseNumber(k.number)
           kv == KeyValue(key, k)
           care == T!Care(kv, w)
           Open(b) == (k.prefix_len # Absent /\ b < w - k.prefix_len) \/ OpenAt(k.number, b)
<1>1. k.number \in Number /\ k.prefix_len \in Nat \cup {Absent} /\ w \in Nat
      /\ key.kind \in {"exact", "lpm", "ternary"}
  BY DEF WrittenKey, TableKey
<1>2. /\ n.width <= w /\ n.value \subseteq 0 .. w - 1
      /\ key.kind = "exact" => n.mask = NoMask /\ k.prefix_len = Absent
      /\ key.kind = "lpm" => /\ n.mask = NoMask /\ PrefixLen(k, w) <= w
                             /\ n.value \cap (0 .. w - PrefixLen(k, w) - 1) = {}
      /\ key.kind = "ternary" => k.prefix_len = Absent
  BY <1>1 DEF KeyResolves, All
<1>3. /\ kv.kind = key.kind /\ kv.value = n.value
      /\ key.kind = "ternary" => kv.mask = IF n.mask # NoMask THEN n.mask ELSE 0 .. w - 1
      /\ key.kind = "lpm" => kv.prefix_len = PrefixLen(k, w)
  BY DEF KeyValue, All
<1>4. PrefixLen(k, w) \in Nat
  BY <1>1 DEF PrefixLen
<1>5. /\ \A b \in Nat : b \in n.value <=> OneAt(k.number, b)
      /\ n.mask # NoMask <=> Starry(k.number)
      /\ Starry(k.number) => \A b \in Nat : b \in n.mask <=> ~OpenAt(k.number, b)
      /\ Starry(k.number) => n.value \subseteq n.mask /\ n.mask \subseteq 0 .. n.width - 1
      /\ n.width \in Int
  BY <1>1, NumberMeans
<1>6. WrittenMatches(k, v, w) <=> \A b \in 0 .. w - 1 : Open(b) \/ (b \in v <=> OneAt(k.number, b))
  BY DEF WrittenMatches, All, OpenAt, OneAt, Starry
<1>7. ~Starry(k.number) => \A b : ~OpenAt(k.number, b)
  BY DEF OpenAt
<1>8. care = CASE kv.kind = "exact" -> 0 .. w - 1
               [] kv.kind = "lpm" -> w - kv.prefix_len .. w - 1
               [] kv.kind = "ternary" -> kv.mask
  BY DEF T!Care
<1> HIDE DEF n, kv, care, w
<1>9. /\ care \subseteq 0 .. w - 1 /\ n.value \subseteq care
      /\ \A b \in 0 .. w - 1 : b \in care <=> ~Open(b)
  <2>1. CASE key.kind = "exact"
    BY <1>1, <1>2, <1>3, <1>5, <1>7, <1>8, <2>1
  <2>2. CASE key.kind = "lpm"
    <3> DEFINE p == PrefixLen(k, w)
    <3>1. care = w - p .. w - 1 /\ p \in Nat /\ p <= w /\ n.mask = NoMask
      BY <1>2, <1>3, <1>4, <1>8, <2>2
    <3>2. \A b \in 0 .. w - 1 : Open(b) <=> b < w - p
      BY <1>1, <1>5, <1>7, <3>1 DEF PrefixLen
    <3>3. n.value \cap (0 .. w - p - 1) = {}
      BY <1>2, <2>2
    <3> HIDE DEF p, Open
    <3> QED BY <1>1, <1>2, <3>1, <3>2, <3>3
  <2>3. CASE key.kind = "ternary"
    <3>1. care = IF n.mask # NoMask THEN n.mask ELSE 0 .. w - 1
      BY <1>3, <1>8, <2>3
    <3>2. \A b : Open(b) <=> OpenAt(k.number, b)
      BY <1>2, <2>3
    <3>3. CASE n.mask = NoMask
      BY <1>2, <1>5, <1>7, <3>1, <3>2, <3>3
    <3>4. CASE n.mask # NoMask
      <4>1. 0 .. n.width - 1 \subseteq 0 .. w - 1
        BY <1>1, <1>2, <1>5
      <4> HIDE DEF Open
      <4> QED BY <1>5, <3>1, <3>2, <3>4, <4>1
    <3> QED BY <3>3, <3>4
  <2> QED BY <1>1, <2>1, <2>2, <2>3
<1>10. T!CheckKeyValue(key.kind, kv, w)
  <2>1. kv.kind = key.kind /\ kv.value \in T!BitSets(w) /\ kv.value \subseteq T!Care(kv, w)
    BY <1>2, <1>3, <1>9 DEF T!BitSets, care
  <2>2. key.kind = "lpm" => kv.prefix_len <= w
    BY <1>2, <1>3
  <2>3. key.kind = "ternary" => kv.mask \in T!BitSets(w)
    BY <1>3, <1>8, <1>9 DEF T!BitSets
  <2> QED BY <2>1, <2>2, <2>3 DEF T!CheckKeyValue
<1>11. v \subseteq 0 .. w - 1
  BY DEF All, w
<1>12. T!KeyValueMatches(kv, v, w) <=> v \cap care = n.value \cap care
  BY <1>3 DEF T!KeyValueMatches, care
<1>13. (v \cap care = n.value \cap care) <=> \A b \in care : b \in v <=> b \in n.value
  OBVIOUS
<1>14. \A b \in 0 .. w - 1 : b \in n.value <=> OneAt(k.number, b)
  BY <1>5
<1> HIDE DEF Open
<1>15. T!KeyValueMatches(kv, v, w) <=> WrittenMatches(k, v, w)
  BY <1>6, <1>9, <1>12, <1>13, <1>14
<1> QED BY <1>10, <1>15 DEF kv, w

-----------------------------------------------------------------------------
(* What a line resolves to.                                                    *)

LEMMA LinesAreLines ==
  ASSUME NEW line \in AnyLine
  PROVE  /\ line \in StfLine
         /\ line.is = "add" => line.keys \in Seq(WrittenKey) /\ line.priority \in Nat \cup {Absent}
<1>1. line \in StfLine
  BY ReplayAssumption DEF AnyLine
<1> QED BY <1>1 DEF StfLine

LEMMA TableIsFound ==
  ASSUME NEW asked, HasTable(asked)
  PROVE  FindTable(asked) \in Program.tables
<1>1. Candidates(asked) # {}
  BY FS_EmptySet DEF HasTable
<1>2. Candidates(asked) \subseteq Program.tables
  BY DEF Candidates
<1> QED BY <1>1, <1>2 DEF FindTable

LEMMA KeyIsNamed ==
  ASSUME NEW asked \in Seq(WrittenKey), NEW wanted, NamedOnce(asked, wanted), NEW i \in DOMAIN wanted
  PROVE  Named(asked, wanted[i].name) \in WrittenKey
<1>1. wanted[i].name \in {asked[j].name : j \in DOMAIN asked}
  BY DEF NamedOnce
<1>2. \E j \in DOMAIN asked : asked[j].name = wanted[i].name
  BY <1>1
<1>3. (CHOOSE j \in DOMAIN asked : asked[j].name = wanted[i].name) \in DOMAIN asked
  BY <1>2
<1>4. \A j \in DOMAIN asked : asked[j] \in WrittenKey
  BY ElementOfSeq, LenProperties
<1> QED BY <1>3, <1>4 DEF Named

LEMMA EntryMeans ==
  ASSUME NEW t \in Program.tables, NEW line \in AnyLine, line.is = "add",
         Resolves(line), FindTable(line.table) = t
  PROVE  MatchesAsWritten(t, EntryOf(t, line), line) /\ T!WellFormed(DeclOf(t), EntryOf(t, line))
<1> DEFINE e == EntryOf(t, line)
           d == DeclOf(t)
           k(i) == Named(line.keys, t.keys[i].name)
<1>1. EntryResolves(t, line)
  BY DEF Resolves
<1>2. /\ NamedOnce(line.keys, t.keys)
      /\ \A i \in DOMAIN t.keys : KeyResolves(t.keys[i], k(i))
      /\ HasTernary(t) = (line.priority # Absent)
      /\ CallResolves(t, line)
  BY <1>1 DEF EntryResolves
<1>3. t.keys \in Seq(TableKey) /\ DOMAIN t.keys = 1 .. Len(t.keys) /\ Len(t.keys) \in Nat
  BY ReplayAssumption, LenProperties DEF Declared
<1>4. \A i \in DOMAIN t.keys : t.keys[i] \in TableKey /\ k(i) \in WrittenKey
  BY <1>2, <1>3, ElementOfSeq, LinesAreLines, KeyIsNamed
<1>5. /\ e.keys = [i \in DOMAIN t.keys |-> KeyValue(t.keys[i], k(i))]
      /\ e.priority = IF line.priority = Absent THEN 0 ELSE line.priority
      /\ e.action = ActionCall(line)
  BY DEF EntryOf
<1>6. \A i \in DOMAIN t.keys :
        /\ T!CheckKeyValue(t.keys[i].kind, e.keys[i], t.keys[i].width)
        /\ \A v \in SUBSET All(t.keys[i].width) :
             T!KeyValueMatches(e.keys[i], v, t.keys[i].width) <=> WrittenMatches(k(i), v, t.keys[i].width)
  <2> TAKE i \in DOMAIN t.keys
  <2>1. t.keys[i] \in TableKey /\ k(i) \in WrittenKey /\ KeyResolves(t.keys[i], k(i))
    BY <1>2, <1>4
  <2>2. e.keys[i] = KeyValue(t.keys[i], k(i))
    BY <1>5
  <2> HIDE DEF e, k
  <2>3. {} \in SUBSET All(t.keys[i].width)
    OBVIOUS
  <2>4. T!CheckKeyValue(t.keys[i].kind, e.keys[i], t.keys[i].width)
    BY <2>1, <2>2, <2>3, KeyMeans
  <2>5. ASSUME NEW v \in SUBSET All(t.keys[i].width)
        PROVE  T!KeyValueMatches(e.keys[i], v, t.keys[i].width) <=> WrittenMatches(k(i), v, t.keys[i].width)
    BY <2>1, <2>2, KeyMeans
  <2> QED BY <2>4, <2>5
<1>7. MatchesAsWritten(t, e, line)
  <2> SUFFICES ASSUME NEW i \in DOMAIN t.keys, NEW v \in SUBSET All(t.keys[i].width)
               PROVE  T!KeyValueMatches(e.keys[i], v, t.keys[i].width) = WrittenMatches(k(i), v, t.keys[i].width)
    BY DEF MatchesAsWritten
  <2>1. T!KeyValueMatches(e.keys[i], v, t.keys[i].width) <=> WrittenMatches(k(i), v, t.keys[i].width)
    BY <1>6
  <2>2. T!KeyValueMatches(e.keys[i], v, t.keys[i].width) \in BOOLEAN
    BY DEF T!KeyValueMatches
  <2>3. WrittenMatches(k(i), v, t.keys[i].width) \in BOOLEAN
    BY DEF WrittenMatches
  <2> QED BY <2>1, <2>2, <2>3
<1>8. /\ d.kinds = [i \in DOMAIN t.keys |-> t.keys[i].kind]
      /\ d.widths = [i \in DOMAIN t.keys |-> t.keys[i].width]
      /\ e.action \in d.actions
  <2>1. d.kinds = [i \in DOMAIN t.keys |-> t.keys[i].kind] /\ d.widths = [i \in DOMAIN t.keys |-> t.keys[i].width]
    BY DEF DeclOf
  <2>2. ActionCall(line).action \in t.actions
    BY <1>2 DEF CallResolves, ActionCall
  <2>3. ActionCall(line) \in {ActionCall(l) : l \in {m \in AnyLine : Installs(m) /\ CallResolves(t, m)}}
    BY <1>2 DEF Installs
  <2> QED BY <1>5, <2>1, <2>2, <2>3 DEF DeclOf
<1> HIDE DEF e, d, k
<1>9. T!WellFormed(d, e)
  <2>1. Len(e.keys) = Len(d.kinds)
    <3>1. Len(e.keys) = Len(t.keys) /\ Len(d.kinds) = Len(t.keys)
      BY <1>3, <1>5, <1>8
    <3> QED BY <3>1
  <2>2. \A i \in DOMAIN d.kinds : T!CheckKeyValue(d.kinds[i], e.keys[i], d.widths[i])
    BY <1>6, <1>8
  <2>3. T!Ternary(d) <=> HasTernary(t)
    BY <1>8 DEF T!Ternary, HasTernary
  <2>4. ~T!Ternary(d) => e.priority = 0
    BY <1>2, <1>5, <2>3
  <2> QED BY <1>8, <2>1, <2>2, <2>4 DEF T!WellFormed
<1> QED BY <1>7, <1>9 DEF e, d

-----------------------------------------------------------------------------
(* Sequences that list a set of numbers, least first.                          *)

LEMMA ListsNothing == Lists(<<>>, {})
BY DEF Lists

LEMMA NothingListed ==
  ASSUME NEW s \in Seq(Nat), NEW S, Lists(s, S)
  PROVE  s = <<>> <=> S = {}
<1>1. DOMAIN s = 1 .. Len(s) /\ Len(s) \in Nat
  BY LenProperties
<1>2. s # <<>> => 1 \in DOMAIN s
  BY <1>1, EmptySeq
<1>3. S = {s[i] : i \in DOMAIN s}
  BY DEF Lists
<1>4. CASE s = <<>>
  <2>1. \A i : i \notin DOMAIN s
    BY <1>4
  <2> QED BY <1>3, <1>4, <2>1
<1>5. CASE s # <<>>
  BY <1>2, <1>3, <1>5
<1> QED BY <1>4, <1>5

LEMMA ListsOneMore ==
  ASSUME NEW s \in Seq(Nat), NEW S, Lists(s, S), NEW n \in Nat, \A x \in S : x < n
  PROVE  Append(s, n) \in Seq(Nat) /\ Lists(Append(s, n), S \cup {n})
<1> DEFINE a == Append(s, n)
<1>1. /\ DOMAIN s = 1 .. Len(s) /\ Len(s) \in Nat /\ a \in Seq(Nat)
      /\ DOMAIN a = 1 .. Len(s) + 1 /\ a[Len(s) + 1] = n
      /\ \A i \in 1 .. Len(s) : a[i] = s[i]
  BY LenProperties, AppendProperties
<1>2. /\ \A i, j \in DOMAIN s : i < j => s[i] < s[j]
      /\ S = {s[i] : i \in DOMAIN s}
  BY DEF Lists
<1> HIDE DEF a
<1>3. \A i, j \in DOMAIN a : i < j => a[i] < a[j]
  <2> SUFFICES ASSUME NEW i \in 1 .. Len(s) + 1, NEW j \in 1 .. Len(s) + 1, i < j PROVE a[i] < a[j]
    BY <1>1
  <2>1. i \in 1 .. Len(s) /\ a[i] = s[i] /\ s[i] \in S
    <3>1. i \in 1 .. Len(s)
      BY <1>1
    <3> QED BY <1>1, <1>2, <3>1
  <2>2. CASE j = Len(s) + 1
    BY <1>1, <2>1, <2>2
  <2>3. CASE j \in 1 .. Len(s)
    BY <1>1, <1>2, <2>1, <2>3
  <2> QED BY <1>1, <2>2, <2>3
<1>4. {a[i] : i \in DOMAIN a} = S \cup {n}
  <2>1. \A i \in DOMAIN a : a[i] \in S \cup {n}
    BY <1>1, <1>2
  <2>2. ASSUME NEW x \in S PROVE \E i \in DOMAIN a : a[i] = x
    <3>1. PICK i \in DOMAIN s : s[i] = x
      BY <1>2
    <3> QED BY <1>1, <3>1
  <2>3. \E i \in DOMAIN a : a[i] = n
    BY <1>1
  <2> QED BY <2>1, <2>2, <2>3
<1> QED BY <1>1, <1>3, <1>4 DEF a, Lists

(* A set is listed in one way.                                                 *)
LEMMA ListedBelow ==
  ASSUME NEW s \in Seq(Nat), NEW t \in Seq(Nat), NEW S, Lists(s, S), Lists(t, S),
         NEW k \in DOMAIN s, NEW n \in Nat, k = n + 1, n <= Len(t), \A i \in 1 .. n : s[i] = t[i]
  PROVE  k \in DOMAIN t /\ t[k] <= s[k]
<1>1. /\ DOMAIN s = 1 .. Len(s) /\ Len(s) \in Nat /\ \A i \in DOMAIN s : s[i] \in Nat
      /\ DOMAIN t = 1 .. Len(t) /\ Len(t) \in Nat /\ \A i \in DOMAIN t : t[i] \in Nat
  BY LenProperties, ElementOfSeq
<1>2. PICK j \in DOMAIN t : t[j] = s[k]
  BY DEF Lists
<1>3. ASSUME j \in 1 .. n PROVE FALSE
  <2>1. j \in DOMAIN s /\ j < k /\ s[j] = s[k]
    BY <1>1, <1>2, <1>3
  <2>2. s[j] < s[k]
    BY <2>1 DEF Lists
  <2> QED BY <1>1, <2>1, <2>2
<1>4. k \in DOMAIN t /\ k <= j
  BY <1>1, <1>3
<1>5. k = j \/ t[k] < t[j]
  BY <1>1, <1>4 DEF Lists
<1> QED BY <1>1, <1>2, <1>4, <1>5

LEMMA ListedOnce ==
  ASSUME NEW s \in Seq(Nat), NEW t \in Seq(Nat), NEW S, Lists(s, S), Lists(t, S)
  PROVE  Len(s) = Len(t) /\ \A i \in 1 .. Len(s) : s[i] = t[i]
<1> DEFINE Same(n) == n <= Len(s) /\ n <= Len(t) /\ \A i \in 1 .. n : s[i] = t[i]
<1>1. /\ DOMAIN s = 1 .. Len(s) /\ Len(s) \in Nat /\ \A i \in DOMAIN s : s[i] \in Nat
      /\ DOMAIN t = 1 .. Len(t) /\ Len(t) \in Nat /\ \A i \in DOMAIN t : t[i] \in Nat
  BY LenProperties, ElementOfSeq
<1> DEFINE size == Len(s) + Len(t)
<1>2. ASSUME NEW n \in 0 .. size, n + 1 \in DOMAIN s \/ n + 1 \in DOMAIN t, Same(n)
      PROVE  Same(n + 1)
  <2>0. n \in Nat /\ n <= Len(t) /\ n <= Len(s) /\ (\A i \in 1 .. n : s[i] = t[i])
        /\ (\A i \in 1 .. n : t[i] = s[i])
    BY <1>1, <1>2
  <2>1. n + 1 \in DOMAIN s => n + 1 \in DOMAIN t /\ t[n + 1] <= s[n + 1]
    BY <2>0, ListedBelow
  <2>2. n + 1 \in DOMAIN t => n + 1 \in DOMAIN s /\ s[n + 1] <= t[n + 1]
    BY <2>0, ListedBelow
  <2>3. n + 1 \in DOMAIN s /\ n + 1 \in DOMAIN t /\ t[n + 1] <= s[n + 1] /\ s[n + 1] <= t[n + 1]
    BY <1>2, <2>1, <2>2
  <2>4. t[n + 1] = s[n + 1]
    BY <1>1, <2>3
  <2> QED BY <1>1, <2>0, <2>3, <2>4
<1>3. Same(0)
  BY <1>1
<1> DEFINE G == {n \in 0 .. Len(s) : Same(n)}
<1>4. 0 \in G
  BY <1>1, <1>3
<1>5. ASSUME NEW k \in 1 .. Len(s), k - 1 \in G PROVE k \in G
  <2>1. k - 1 \in 0 .. size /\ (k - 1) + 1 = k /\ k \in DOMAIN s /\ Same(k - 1)
    BY <1>1, <1>5
  <2> HIDE DEF Same
  <2> QED BY <1>2, <2>1
<1> HIDE DEF G, Same
<1>6. \A k \in 0 .. Len(s) : k \in G
  BY <1>1, <1>4, <1>5, Upward
<1>7. Same(Len(s))
  BY <1>1, <1>6 DEF G
<1>8. Len(s) = Len(t)
  <2>0. Len(s) <= Len(t)
    BY <1>7 DEF Same
  <2> DEFINE m == Len(s)
             n == Len(t)
  <2>a. m \in Nat /\ n \in Nat /\ m <= n
    BY <1>1, <2>0
  <2>1. SUFFICES ASSUME m < n PROVE FALSE
    <3> HIDE DEF m, n
    <3>1. ~(m < n) => m = n
      BY <2>a
    <3> QED BY <3>1 DEF m, n
  <2>2. Len(s) + 1 \in DOMAIN t /\ Len(s) \in 0 .. size
    BY <1>1, <2>1
  <2>3. Same(Len(s) + 1)
    BY <1>2, <1>7, <2>2
  <2> QED BY <1>1, <2>3 DEF Same
<1> QED BY <1>7, <1>8 DEF Same

-----------------------------------------------------------------------------
(* The inductive invariant.                                                    *)

AnyEntry == {EntryOf(t, line) : t \in Program.tables, line \in AnyLine}
AnyDefault == {ActionCall(line) : line \in AnyLine} \cup {Absent}
AnyEntries == [Program.tables -> [entries : Seq(AnyEntry), default : AnyDefault]]
PacketRun == [packet : Nat, entries : AnyEntries, expects : Seq(Nat), no_packet : Nat \cup {Absent},
        outputs : Seq(Emitted)]

(* The lines grouped so far.                                                   *)
UpTo(S, n) == {l \in S : l <= n}
InstallLines == {l \in DOMAIN file : Installs(file[l])}
(* A line that _runs takes: a packet comes before it, and no expect between    *)
(* that packet and a no_packet.                                                *)
InPlace(l) ==
  \E p \in 1 .. l :
    /\ file[p].is = "packet"
    /\ file[l].is = "no_packet" => \A q \in p .. l : file[q].is # "expect"
Misplaced == {l \in DOMAIN file : file[l].is \in {"expect", "no_packet"} /\ ~InPlace(l)}
Packets(rs) == [r \in DOMAIN rs |-> rs[r].packet]
Grouping(ins, rs, n) ==
  /\ Lists(ins, UpTo(InstallLines, n))
  /\ Lists(Packets(rs), UpTo(PacketLines, n))
  /\ \A r \in DOMAIN rs : Lists(rs[r].expects, UpTo(ClaimsOn(rs[r].packet), n))

(* The entries of a run are those of the lines before its packet.              *)
EntriesOfLines(n, es) ==
  \A t \in Program.tables :
    \E lines \in Seq(Nat) :
      /\ Len(lines) = Len(es[t].entries) /\ Lists(lines, AddsTo(t, n))
      /\ \A i \in DOMAIN lines : es[t].entries[i] = EntryOf(t, file[lines[i]])
EntriesFor(rs) ==
  \A r \in DOMAIN rs :
    /\ EntriesOfLines(rs[r].packet, rs[r].entries)
    /\ \A l \in InstallLines : l < rs[r].packet => Resolves(file[l])

(* The lines that the first n runs failed.                                     *)
Failing(rs, n) == {l \in Nat : \E r \in 1 .. n : l \in Compare(rs[r], rs[r].outputs)}

Phases == {"parse", "group", "replay", "done", "StfError"}
Typed(a, ph, ins, rs, fs) ==
  /\ file \in Seq(AnyLine) /\ a \in Nat /\ ph \in Phases
  /\ ins \in Seq(Nat) /\ rs \in Seq(PacketRun) /\ fs \in SUBSET Nat
StateInv(a, ph, ins, rs, fs) ==
  /\ Typed(a, ph, ins, rs, fs) /\ EntriesFor(rs)
  /\ ph = "parse" => a = 1 /\ ins = <<>> /\ rs = <<>> /\ fs = {}
  /\ ph = "group" => /\ a \in 1 .. Len(file) + 1
                     /\ Grouping(ins, rs, a - 1) /\ fs = UpTo(Misplaced, a - 1)
  /\ ph \in {"replay", "done"} => Grouping(ins, rs, Len(file))
  /\ ph = "replay" => a \in 1 .. Len(rs) + 1
  /\ ph = "done" => a = Len(rs) + 1
  /\ ph \in {"replay", "done"} => fs = Misplaced \cup Failing(rs, a - 1)
ReplayInv == StateInv(at, step, installed, runs, failures)

-----------------------------------------------------------------------------
(* The entries a packet is run with.                                           *)

LEMMA OneInstalled ==
  ASSUME NEW es \in AnyEntries, NEW line \in AnyLine, Installs(line), Resolves(line)
  PROVE  /\ FindTable(line.table) \in Program.tables /\ Installing(es, line) \in AnyEntries
         /\ \A t \in Program.tables :
              Installing(es, line)[t].entries =
                IF line.is = "add" /\ FindTable(line.table) = t THEN Append(es[t].entries, EntryOf(t, line))
                ELSE es[t].entries
<1> DEFINE u == FindTable(line.table)
           e == EntryOf(u, line)
           added == [entries |-> Append(es[u].entries, e), default |-> es[u].default]
           defaulted == [entries |-> es[u].entries, default |-> ActionCall(line)]
           new == IF line.is = "add" THEN added ELSE defaulted
<1>1. u \in Program.tables
  BY TableIsFound DEF Resolves
<1>2. Installing(es, line) = [es EXCEPT ![u] = new]
  BY DEF Installing
<1>3. e \in AnyEntry /\ ActionCall(line) \in AnyDefault
  BY <1>1 DEF AnyEntry, AnyDefault
<1>4. DOMAIN es = Program.tables /\ \A t \in Program.tables : es[t] \in [entries : Seq(AnyEntry), default : AnyDefault]
  BY DEF AnyEntries
<1> HIDE DEF u, e
<1>5. Append(es[u].entries, e) \in Seq(AnyEntry)
  BY <1>1, <1>3, <1>4, AppendProperties
<1>6. new \in [entries : Seq(AnyEntry), default : AnyDefault]
  BY <1>1, <1>3, <1>4, <1>5
<1>7. [es EXCEPT ![u] = new] \in AnyEntries
  <2> HIDE DEF new
  <2> QED BY <1>6 DEF AnyEntries
<1>8. ASSUME NEW t \in Program.tables
      PROVE  Installing(es, line)[t].entries =
               IF line.is = "add" /\ u = t THEN Append(es[t].entries, EntryOf(t, line)) ELSE es[t].entries
  <2>1. CASE t = u
    <3>1. Installing(es, line)[t] = new
      BY <1>2, <1>4, <2>1
    <3> QED BY <2>1, <3>1 DEF e
  <2>2. CASE t # u
    BY <1>2, <1>4, <2>2
  <2> QED BY <2>1, <2>2
<1> QED BY <1>1, <1>2, <1>7, <1>8 DEF u

(* The loop of to_entries.                                                     *)
LEMMA EntriesByLoop ==
  ASSUME NEW lines \in Seq(Nat),
         \A i \in 1 .. Len(lines) : /\ file[lines[i]] \in AnyLine
                                    /\ Installs(file[lines[i]]) /\ Resolves(file[lines[i]])
  PROVE  \E es \in [0 .. Len(lines) -> AnyEntries] :
           /\ ToEntries(lines) = es[Len(lines)] /\ es[0] = NoEntries
           /\ \A i \in 1 .. Len(lines) : es[i] = Installing(es[i - 1], file[lines[i]])
<1> DEFINE n == Len(lines)
           loop == [i \in 1 .. n |-> [es \in AnyEntries |-> Installing(es, file[lines[i]])]]
           Def(q) == [i \in 0 .. n |-> IF i = 0 THEN NoEntries ELSE Installing(q[i - 1], file[lines[i]])]
           value == CHOOSE q : q = Def(q)
<1>1. n \in Nat
  BY LenProperties
<1>2. ToEntries(lines) = value[n]
  BY DEF ToEntries
<1> HIDE DEF n
<1>3. NoEntries \in AnyEntries
  <2>1. <<>> \in Seq(AnyEntry) /\ Absent \in AnyDefault
    BY EmptySeq DEF AnyDefault
  <2> QED BY <2>1 DEF NoEntries, AnyEntries
<1>4. loop \in Steps(n, AnyEntries)
  <2>1. \A i \in 1 .. n : \A es \in AnyEntries : Installing(es, file[lines[i]]) \in AnyEntries
    BY OneInstalled DEF n
  <2> QED BY <2>1 DEF Steps
<1>5. PICK q \in [0 .. n -> AnyEntries] : q[0] = NoEntries /\ \A i \in 1 .. n : q[i] = loop[i][q[i - 1]]
  <2> HIDE DEF loop
  <2>1. Iterations(n, AnyEntries, NoEntries, loop) # {}
    BY <1>1, <1>3, <1>4, Iterates
  <2> QED BY <2>1 DEF Iterations
<1>6. \A i \in 1 .. n : q[i] = Installing(q[i - 1], file[lines[i]])
  <2> TAKE i \in 1 .. n
  <2>1. q[i - 1] \in AnyEntries
    BY <1>1, <1>5
  <2> QED BY <1>5, <2>1
<1>7. q = Def(q)
  BY <1>1, <1>5, <1>6
<1>8. value = Def(value)
  <2> HIDE DEF Def
  <2> QED BY <1>7
<1> HIDE DEF value
<1>9. value[0] = NoEntries /\ \A i \in 1 .. n : value[i] = Installing(value[i - 1], file[lines[i]])
  <2> HIDE DEF loop
  <2>1. value[0] = NoEntries
    BY <1>1, <1>8
  <2>2. ASSUME NEW i \in 1 .. n PROVE value[i] = Installing(value[i - 1], file[lines[i]])
    <3>1. i \in 0 .. n /\ i # 0
      BY <1>1
    <3> QED BY <1>8, <3>1
  <2> QED BY <2>1, <2>2
<1>10. \A i \in 0 .. n : value[i] = q[i]
  <2> DEFINE G == {i \in 0 .. n : value[i] = q[i]}
  <2>1. 0 \in G
    BY <1>1, <1>5, <1>9
  <2>2. \A i \in 1 .. n : i - 1 \in G => i \in G
    BY <1>6, <1>9
  <2> HIDE DEF G
  <2>3. \A i \in 0 .. n : i \in G
    BY <1>1, <2>1, <2>2, Upward
  <2> QED BY <2>3 DEF G
<1>11. value[n] = q[n]
  BY <1>1, <1>10
<1> QED BY <1>2, <1>5, <1>6, <1>11 DEF n

IsAddTo(t, line) == line.is = "add" /\ FindTable(line.table) = t
AddsAmong(t, lines, i) == {lines[j] : j \in {k \in 1 .. i : IsAddTo(t, file[lines[k]])}}
ListedEntries(t, entries, S) ==
  \E ls \in Seq(Nat) :
    /\ Len(ls) = Len(entries) /\ Lists(ls, S)
    /\ \A k \in DOMAIN ls : entries[k] = EntryOf(t, file[ls[k]])

LEMMA OneMoreEntry ==
  ASSUME NEW t, NEW entries \in Seq(AnyEntry), NEW S, ListedEntries(t, entries, S),
         NEW n \in Nat, \A x \in S : x < n
  PROVE  ListedEntries(t, Append(entries, EntryOf(t, file[n])), S \cup {n})
<1> DEFINE e == EntryOf(t, file[n])
           more == Append(entries, e)
<1>1. PICK ls \in Seq(Nat) : /\ Len(ls) = Len(entries) /\ Lists(ls, S)
                             /\ \A k \in DOMAIN ls : entries[k] = EntryOf(t, file[ls[k]])
  BY DEF ListedEntries
<1> DEFINE l == Append(ls, n)
<1>2. l \in Seq(Nat) /\ Lists(l, S \cup {n})
  BY <1>1, ListsOneMore
<1>3. /\ Len(ls) \in Nat /\ DOMAIN ls = 1 .. Len(ls) /\ DOMAIN l = 1 .. Len(ls) + 1 /\ Len(l) = Len(ls) + 1
      /\ l[Len(ls) + 1] = n /\ \A k \in 1 .. Len(ls) : l[k] = ls[k]
  BY <1>1, LenProperties, AppendProperties
<1>4. /\ DOMAIN entries = 1 .. Len(entries) /\ Len(more) = Len(entries) + 1
      /\ more[Len(entries) + 1] = e /\ \A k \in 1 .. Len(entries) : more[k] = entries[k]
  <2>1. entries \in Seq(AnyEntry \cup {e})
    BY SeqDef
  <2> HIDE DEF e
  <2> QED BY <2>1, LenProperties, AppendProperties
<1> HIDE DEF l, more, e
<1>5. \A k \in DOMAIN l : more[k] = EntryOf(t, file[l[k]])
  <2> SUFFICES ASSUME NEW k \in 1 .. Len(ls) + 1 PROVE more[k] = EntryOf(t, file[l[k]])
    BY <1>3
  <2>1. CASE k = Len(ls) + 1
    BY <1>1, <1>3, <1>4, <2>1 DEF e
  <2>2. CASE k \in 1 .. Len(ls)
    <3>1. more[k] = entries[k] /\ l[k] = ls[k] /\ k \in DOMAIN ls
      BY <1>1, <1>3, <1>4, <2>2
    <3> QED BY <1>1, <3>1
  <2> QED BY <1>3, <2>1, <2>2
<1>6. Len(l) = Len(more)
  BY <1>1, <1>3, <1>4
<1>7. ListedEntries(t, more, S \cup {n})
  BY <1>2, <1>5, <1>6 DEF ListedEntries
<1> QED BY <1>7 DEF more, e

LEMMA EntriesAreOfLines ==
  ASSUME file \in Seq(AnyLine), NEW n \in Nat, NEW lines \in Seq(Nat),
         Lists(lines, {l \in InstallLines : l < n}), \A l \in InstallLines : l < n => Resolves(file[l])
  PROVE  ToEntries(lines) \in AnyEntries /\ EntriesOfLines(n, ToEntries(lines))
<1> DEFINE size == Len(lines)
<1>1. size \in Nat /\ DOMAIN lines = 1 .. size /\ \A i \in 1 .. size : lines[i] \in Nat
  BY LenProperties, ElementOfSeq
<1>2. /\ \A i, j \in 1 .. size : i < j => lines[i] < lines[j]
      /\ \A i \in 1 .. size : lines[i] \in InstallLines /\ lines[i] < n
      /\ \A l \in InstallLines : l < n => \E i \in 1 .. size : lines[i] = l
  BY <1>1 DEF Lists
<1>3. \A i \in 1 .. size : file[lines[i]] \in AnyLine /\ Installs(file[lines[i]]) /\ Resolves(file[lines[i]])
  BY <1>2, ElementOfSeq, LenProperties DEF InstallLines
<1>4. PICK es \in [0 .. size -> AnyEntries] :
        /\ ToEntries(lines) = es[size] /\ es[0] = NoEntries
        /\ \A i \in 1 .. size : es[i] = Installing(es[i - 1], file[lines[i]])
  BY <1>3, EntriesByLoop
<1> HIDE DEF size
<1>5. ASSUME NEW t \in Program.tables
      PROVE  ListedEntries(t, es[size][t].entries, AddsAmong(t, lines, size))
  <2> DEFINE Good(i) == ListedEntries(t, es[i][t].entries, AddsAmong(t, lines, i))
             G == {i \in 0 .. size : Good(i)}
  <2>1. Good(0)
    <3>1. es[0][t].entries = <<>>
      BY <1>4, <1>5 DEF NoEntries
    <3>2. AddsAmong(t, lines, 0) = {}
      BY DEF AddsAmong
    <3>3. <<>> \in Seq(Nat) /\ DOMAIN <<>> = {}
      BY EmptySeq
    <3> QED BY <3>1, <3>2, <3>3, ListsNothing DEF ListedEntries
  <2>2. ASSUME NEW i \in 1 .. size, Good(i - 1) PROVE Good(i)
    <3> DEFINE line == file[lines[i]]
               before == AddsAmong(t, lines, i - 1)
               old == es[i - 1][t].entries
    <3>1. es[i - 1] \in AnyEntries /\ line \in AnyLine /\ Installs(line) /\ Resolves(line)
      BY <1>1, <1>3, <1>4
    <3>2. old \in Seq(AnyEntry)
      BY <1>5, <3>1 DEF AnyEntries
    <3>3. es[i][t].entries = IF IsAddTo(t, line) THEN Append(old, EntryOf(t, line)) ELSE old
      <4>1. es[i] = Installing(es[i - 1], line)
        BY <1>4
      <4> QED BY <1>5, <3>1, <4>1, OneInstalled DEF IsAddTo
    <3>4. 1 .. i = 1 .. i - 1 \cup {i} /\ i \in 1 .. size
      BY <1>1
    <3>5. AddsAmong(t, lines, i) = IF IsAddTo(t, line) THEN before \cup {lines[i]} ELSE before
      BY <3>4 DEF AddsAmong
    <3>6. lines[i] \in Nat /\ \A x \in before : x < lines[i]
      <4>1. \A j \in 1 .. i - 1 : lines[j] < lines[i]
        BY <1>1, <1>2
      <4> QED BY <1>1, <4>1 DEF AddsAmong
    <3>7. ListedEntries(t, old, before)
      BY <2>2
    <3> HIDE DEF before, old
    <3>8. CASE IsAddTo(t, line)
      <4>1. ListedEntries(t, Append(old, EntryOf(t, file[lines[i]])), before \cup {lines[i]})
        BY <3>2, <3>6, <3>7, OneMoreEntry
      <4> QED BY <3>3, <3>5, <3>8, <4>1
    <3>9. CASE ~IsAddTo(t, line)
      BY <3>3, <3>5, <3>7, <3>9
    <3> QED BY <3>8, <3>9
  <2>3. 0 \in G /\ \A i \in 1 .. size : i - 1 \in G => i \in G
    <3> HIDE DEF Good
    <3> QED BY <1>1, <2>1, <2>2
  <2> HIDE DEF G, Good
  <2>4. \A i \in 0 .. size : i \in G
    BY <1>1, <2>3, Upward
  <2>5. Good(size)
    BY <1>1, <2>4 DEF G
  <2> QED BY <2>5 DEF Good
<1>6. \A t : AddsAmong(t, lines, size) = AddsTo(t, n)
  <2> TAKE t
  <2>1. ASSUME NEW l \in AddsTo(t, n) PROVE l \in AddsAmong(t, lines, size)
    <3>1. l \in InstallLines /\ l < n /\ IsAddTo(t, file[l])
      BY <2>1 DEF AddsTo, InstallLines, Installs, IsAddTo
    <3>2. PICK i \in 1 .. size : lines[i] = l
      BY <1>2, <3>1
    <3> QED BY <3>1, <3>2 DEF AddsAmong
  <2>2. ASSUME NEW l \in AddsAmong(t, lines, size) PROVE l \in AddsTo(t, n)
    <3>1. PICK i \in 1 .. size : lines[i] = l /\ IsAddTo(t, file[l])
      BY <2>2 DEF AddsAmong
    <3> QED BY <1>2, <3>1 DEF AddsTo, InstallLines, IsAddTo
  <2> QED BY <2>1, <2>2
<1>7. ASSUME NEW t \in Program.tables
      PROVE  \E ls \in Seq(Nat) :
               /\ Len(ls) = Len(es[size][t].entries) /\ Lists(ls, AddsTo(t, n))
               /\ \A i \in DOMAIN ls : es[size][t].entries[i] = EntryOf(t, file[ls[i]])
  <2>1. ListedEntries(t, es[size][t].entries, AddsTo(t, n))
    BY <1>5, <1>6
  <2> QED BY <2>1 DEF ListedEntries
<1>8. es[size] \in AnyEntries
  BY <1>1, <1>4
<1> QED BY <1>4, <1>7, <1>8 DEF EntriesOfLines

-----------------------------------------------------------------------------
(* Steps that read the file and do not change it.                              *)

LEMMA FileKept ==
  ASSUME file' = file
  PROVE  ReplayInv' <=> StateInv(at', step', installed', runs', failures')
<1>1. InstallLines' = InstallLines /\ PacketLines' = PacketLines
  BY DEF InstallLines, PacketLines
<1>2. Misplaced' = Misplaced
  BY DEF Misplaced, InPlace
<1>3. Grouping(installed, runs, at - 1)' <=> Grouping(installed', runs', at' - 1)
  BY <1>1 DEF Grouping, ClaimsOn, LinesOn, UpTo, Packets
<1>4. Grouping(installed, runs, Len(file))' <=> Grouping(installed', runs', Len(file))
  BY <1>1 DEF Grouping, ClaimsOn, LinesOn, UpTo, Packets
<1>5. EntriesFor(runs)' <=> EntriesFor(runs')
  BY <1>1 DEF EntriesFor, EntriesOfLines, AddsTo
<1>6. Failing(runs, at - 1)' = Failing(runs', at' - 1)
  BY DEF Failing, Compare
<1>7. UpTo(Misplaced, at - 1)' = UpTo(Misplaced, at' - 1)
  BY <1>2 DEF UpTo
<1> QED BY <1>2, <1>3, <1>4, <1>5, <1>6, <1>7 DEF ReplayInv, StateInv, Typed

LEMMA UpToNext ==
  ASSUME NEW S \in SUBSET Nat, NEW n \in Nat \ {0}
  PROVE  UpTo(S, n) = IF n \in S THEN UpTo(S, n - 1) \cup {n} ELSE UpTo(S, n - 1)
<1>1. \A l \in S : l <= n <=> (l <= n - 1 \/ l = n)
  <2> TAKE l \in S
  <2>1. l \in Nat
    OBVIOUS
  <2> QED BY <2>1
<1>2. \A l : l \in UpTo(S, n) <=> (l \in UpTo(S, n - 1) \/ (l \in S /\ l = n))
  BY <1>1 DEF UpTo
<1>3. CASE n \in S
  BY <1>2, <1>3
<1>4. CASE n \notin S
  BY <1>2, <1>4
<1> QED BY <1>3, <1>4

LEMMA ListsNext ==
  ASSUME NEW s \in Seq(Nat), NEW S \in SUBSET Nat, NEW n \in Nat \ {0}, Lists(s, UpTo(S, n - 1))
  PROVE  /\ n \in S => Append(s, n) \in Seq(Nat) /\ Lists(Append(s, n), UpTo(S, n))
         /\ n \notin S => Lists(s, UpTo(S, n))
<1>1. UpTo(S, n) = IF n \in S THEN UpTo(S, n - 1) \cup {n} ELSE UpTo(S, n - 1)
  BY UpToNext
<1>2. \A x \in UpTo(S, n - 1) : x < n
  BY DEF UpTo
<1>3. Append(s, n) \in Seq(Nat) /\ Lists(Append(s, n), UpTo(S, n - 1) \cup {n})
  BY <1>2, ListsOneMore
<1> QED BY <1>1, <1>3

LEMMA PacketsGrow ==
  ASSUME NEW rs \in Seq(PacketRun), NEW run \in PacketRun
  PROVE  /\ Packets(rs) \in Seq(Nat) /\ Len(Packets(rs)) = Len(rs)
         /\ Packets(Append(rs, run)) = Append(Packets(rs), run.packet)
<1> DEFINE a == Append(rs, run)
           b == Append(Packets(rs), run.packet)
<1>1. /\ DOMAIN rs = 1 .. Len(rs) /\ Len(rs) \in Nat /\ \A i \in 1 .. Len(rs) : rs[i] \in PacketRun
      /\ a \in Seq(PacketRun) /\ DOMAIN a = 1 .. Len(rs) + 1 /\ a[Len(rs) + 1] = run
      /\ \A i \in 1 .. Len(rs) : a[i] = rs[i]
  BY LenProperties, ElementOfSeq, AppendProperties
<1>2. Packets(rs) = [r \in 1 .. Len(rs) |-> rs[r].packet]
  BY <1>1 DEF Packets
<1>3. Packets(rs) \in [1 .. Len(rs) -> Nat]
  BY <1>1, <1>2 DEF PacketRun
<1>4. Packets(rs) \in Seq(Nat) /\ Len(Packets(rs)) = Len(rs)
  BY <1>1, <1>3, LenProperties, SeqDef
<1>5. run.packet \in Nat
  BY DEF PacketRun
<1>6. /\ b \in Seq(Nat) /\ DOMAIN b = 1 .. Len(rs) + 1 /\ b[Len(rs) + 1] = run.packet
      /\ \A i \in 1 .. Len(rs) : b[i] = Packets(rs)[i]
  <2> HIDE DEF Packets
  <2> QED BY <1>4, <1>5, LenProperties, AppendProperties
<1>7. Packets(a) = [i \in 1 .. Len(rs) + 1 |-> a[i].packet]
  BY <1>1 DEF Packets
<1>8. b = [i \in 1 .. Len(rs) + 1 |-> b[i]]
  BY <1>6, LenProperties, SeqDef
<1>9. \A i \in 1 .. Len(rs) + 1 : b[i] = a[i].packet
  <2> HIDE DEF a, b
  <2> TAKE i \in 1 .. Len(rs) + 1
  <2>1. CASE i = Len(rs) + 1
    BY <1>1, <1>6, <2>1
  <2>2. CASE i \in 1 .. Len(rs)
    BY <1>1, <1>2, <1>6, <2>2
  <2> QED BY <1>1, <2>1, <2>2
<1>10. Packets(a) = b
  <2> HIDE DEF a, b
  <2> QED BY <1>7, <1>8, <1>9
<1> QED BY <1>4, <1>10 DEF a, b

LEMMA RunReplaced ==
  ASSUME NEW rs \in Seq(PacketRun), NEW k \in DOMAIN rs, NEW run \in PacketRun, run.packet = rs[k].packet
  PROVE  /\ [rs EXCEPT ![k] = run] \in Seq(PacketRun) /\ Len([rs EXCEPT ![k] = run]) = Len(rs)
         /\ DOMAIN [rs EXCEPT ![k] = run] = DOMAIN rs
         /\ \A r \in DOMAIN rs : [rs EXCEPT ![k] = run][r] = IF r = k THEN run ELSE rs[r]
         /\ Packets([rs EXCEPT ![k] = run]) = Packets(rs)
<1> DEFINE new == [rs EXCEPT ![k] = run]
<1>1. DOMAIN rs = 1 .. Len(rs)
  BY LenProperties
<1>2. new \in Seq(PacketRun) /\ Len(new) = Len(rs)
  BY <1>1, ExceptSeq
<1>3. DOMAIN new = DOMAIN rs /\ \A r \in DOMAIN rs : new[r] = IF r = k THEN run ELSE rs[r]
  OBVIOUS
<1> HIDE DEF new
<1>4. Packets(new) = Packets(rs)
  BY <1>3 DEF Packets
<1> QED BY <1>2, <1>3, <1>4 DEF new

(* What is known before a line is grouped.                                     *)
LEMMA Before ==
  ASSUME ReplayInv, step = "group", at \in DOMAIN file
  PROVE  /\ Typed(at, step, installed, runs, failures) /\ EntriesFor(runs)
         /\ Grouping(installed, runs, at - 1) /\ failures = UpTo(Misplaced, at - 1)
         /\ at \in Nat \ {0} /\ at + 1 \in 1 .. Len(file) + 1 /\ (at + 1) - 1 = at
         /\ InstallLines \in SUBSET Nat /\ PacketLines \in SUBSET Nat /\ Misplaced \in SUBSET Nat
         /\ \A p : ClaimsOn(p) \in SUBSET Nat
         /\ UpTo(Misplaced, at) = IF at \in Misplaced THEN failures \cup {at} ELSE failures
<1>1. /\ Typed(at, step, installed, runs, failures) /\ EntriesFor(runs)
      /\ Grouping(installed, runs, at - 1) /\ failures = UpTo(Misplaced, at - 1)
  BY DEF ReplayInv, StateInv
<1>2. file \in Seq(AnyLine)
  BY <1>1 DEF Typed
<1>3. DOMAIN file = 1 .. Len(file) /\ Len(file) \in Nat
  BY <1>2, LenProperties
<1>4. /\ InstallLines \in SUBSET Nat /\ PacketLines \in SUBSET Nat /\ Misplaced \in SUBSET Nat
      /\ \A p : ClaimsOn(p) \in SUBSET Nat
  BY <1>3 DEF InstallLines, PacketLines, Misplaced, ClaimsOn, LinesOn
<1>5. at \in Nat \ {0} /\ at + 1 \in 1 .. Len(file) + 1 /\ (at + 1) - 1 = at
  BY <1>3
<1>6. UpTo(Misplaced, at) = IF at \in Misplaced THEN UpTo(Misplaced, at - 1) \cup {at} ELSE UpTo(Misplaced, at - 1)
  BY <1>4, <1>5, UpToNext
<1> QED BY <1>1, <1>4, <1>5, <1>6

(* A line that is no packet and no expect leaves what runs claim.              *)
LEMMA SameClaims ==
  ASSUME ReplayInv, step = "group", at \in DOMAIN file, file[at].is # "expect"
  PROVE  \A r \in DOMAIN runs : Lists(runs[r].expects, UpTo(ClaimsOn(runs[r].packet), at))
<1> SUFFICES ASSUME NEW r \in DOMAIN runs PROVE Lists(runs[r].expects, UpTo(ClaimsOn(runs[r].packet), at))
  OBVIOUS
<1> DEFINE S == ClaimsOn(runs[r].packet)
<1>1. Lists(runs[r].expects, UpTo(S, at - 1)) /\ S \in SUBSET Nat /\ at \in Nat \ {0}
  BY Before DEF Grouping
<1>2. runs[r].expects \in Seq(Nat)
  <2>1. runs \in Seq(PacketRun)
    BY Before DEF Typed
  <2>2. runs[r] \in PacketRun
    BY <2>1, LenProperties, ElementOfSeq
  <2> QED BY <2>2 DEF PacketRun
<1>3. at \notin S
  BY DEF ClaimsOn, LinesOn
<1> HIDE DEF S
<1>4. Lists(runs[r].expects, UpTo(S, at))
  BY <1>1, <1>2, <1>3, ListsNext
<1> QED BY <1>4 DEF S

(* What is known once a line is grouped.                                       *)
LEMMA Grouped ==
  ASSUME ReplayInv, step = "group", at \in DOMAIN file,
         NEW ins \in Seq(Nat), NEW rs \in Seq(PacketRun), NEW fs,
         EntriesFor(rs), Grouping(ins, rs, at), fs = UpTo(Misplaced, at)
  PROVE  StateInv(at + 1, step, ins, rs, fs)
<1>1. /\ Typed(at, step, installed, runs, failures)
      /\ at \in Nat \ {0} /\ at + 1 \in 1 .. Len(file) + 1 /\ (at + 1) - 1 = at
      /\ Misplaced \in SUBSET Nat
  BY Before
<1>2. fs \in SUBSET Nat
  BY <1>1 DEF UpTo
<1>3. Typed(at + 1, step, ins, rs, fs)
  BY <1>1, <1>2 DEF Typed
<1>4. step \notin {"parse", "replay", "done"}
  OBVIOUS
<1> QED BY <1>1, <1>3, <1>4 DEF StateInv

LEMMA UpToSame ==
  ASSUME NEW S \in SUBSET Nat, NEW n \in Nat \ {0}, n \notin S
  PROVE  UpTo(S, n) = UpTo(S, n - 1)
BY UpToNext

LEMMA InstallStep ==
  ASSUME ReplayInv, step = "group", at \in DOMAIN file, Installs(file[at])
  PROVE  StateInv(at + 1, step, Append(installed, at), runs, failures)
<1> DEFINE ins == Append(installed, at)
<1>1. /\ Grouping(installed, runs, at - 1) /\ at \in Nat \ {0} /\ EntriesFor(runs)
      /\ InstallLines \in SUBSET Nat /\ PacketLines \in SUBSET Nat
      /\ UpTo(Misplaced, at) = IF at \in Misplaced THEN failures \cup {at} ELSE failures
      /\ installed \in Seq(Nat) /\ runs \in Seq(PacketRun)
  BY Before DEF Typed
<1>2. at \in InstallLines /\ at \notin PacketLines /\ at \notin Misplaced /\ file[at].is # "expect"
  BY DEF InstallLines, PacketLines, Misplaced, Installs
<1>3. ins \in Seq(Nat) /\ Lists(ins, UpTo(InstallLines, at))
  BY <1>1, <1>2, ListsNext DEF Grouping
<1>4. Lists(Packets(runs), UpTo(PacketLines, at))
  BY <1>1, <1>2, UpToSame DEF Grouping
<1>5. Grouping(ins, runs, at)
  BY <1>2, <1>3, <1>4, SameClaims DEF Grouping
<1> HIDE DEF ins
<1>6. StateInv(at + 1, step, ins, runs, failures)
  BY <1>1, <1>2, <1>3, <1>5, Grouped
<1> QED BY <1>6 DEF ins

LEMMA WaitStep ==
  ASSUME ReplayInv, step = "group", at \in DOMAIN file, file[at].is = "wait"
  PROVE  StateInv(at + 1, step, installed, runs, failures)
<1>1. /\ Grouping(installed, runs, at - 1) /\ at \in Nat \ {0} /\ EntriesFor(runs)
      /\ InstallLines \in SUBSET Nat /\ PacketLines \in SUBSET Nat
      /\ UpTo(Misplaced, at) = IF at \in Misplaced THEN failures \cup {at} ELSE failures
      /\ installed \in Seq(Nat) /\ runs \in Seq(PacketRun)
  BY Before DEF Typed
<1>2. at \notin InstallLines /\ at \notin PacketLines /\ at \notin Misplaced /\ file[at].is # "expect"
  BY DEF InstallLines, PacketLines, Misplaced, Installs
<1>3. Lists(installed, UpTo(InstallLines, at)) /\ Lists(Packets(runs), UpTo(PacketLines, at))
  BY <1>1, <1>2, UpToSame DEF Grouping
<1>4. Grouping(installed, runs, at)
  BY <1>2, <1>3, SameClaims DEF Grouping
<1> QED BY <1>1, <1>2, <1>4, Grouped

LEMMA PacketStep ==
  ASSUME ReplayInv, step = "group", at \in DOMAIN file, file[at].is = "packet",
         \A i \in DOMAIN installed : Resolves(file[installed[i]]),
         NEW run, run = [packet |-> at, entries |-> ToEntries(installed),
                         expects |-> <<>>, no_packet |-> Absent, outputs |-> <<>>]
  PROVE  StateInv(at + 1, step, installed, Append(runs, run), failures)
<1> DEFINE rs == Append(runs, run)
<1>1. /\ Grouping(installed, runs, at - 1) /\ at \in Nat \ {0} /\ EntriesFor(runs)
      /\ InstallLines \in SUBSET Nat /\ PacketLines \in SUBSET Nat
      /\ UpTo(Misplaced, at) = IF at \in Misplaced THEN failures \cup {at} ELSE failures
      /\ installed \in Seq(Nat) /\ runs \in Seq(PacketRun) /\ file \in Seq(AnyLine)
      /\ \A p : ClaimsOn(p) \in SUBSET Nat
  BY Before DEF Typed
<1>2. at \notin InstallLines /\ at \in PacketLines /\ at \notin Misplaced /\ file[at].is # "expect"
  BY DEF InstallLines, PacketLines, Misplaced, Installs
<1>3. UpTo(InstallLines, at - 1) = {l \in InstallLines : l < at}
  <2>1. ASSUME NEW l \in InstallLines PROVE l <= at - 1 <=> l < at
    <3>1. l \in Nat
      BY <1>1
    <3> QED BY <1>1, <3>1
  <2> QED BY <2>1 DEF UpTo
<1>4. Lists(installed, {l \in InstallLines : l < at})
  BY <1>1, <1>3 DEF Grouping
<1>5. \A l \in InstallLines : l < at => Resolves(file[l])
  <2> SUFFICES ASSUME NEW l \in InstallLines, l < at PROVE Resolves(file[l])
    OBVIOUS
  <2>1. l \in {installed[i] : i \in DOMAIN installed}
    BY <1>4 DEF Lists
  <2> QED BY <2>1
<1>6. ToEntries(installed) \in AnyEntries /\ EntriesOfLines(at, ToEntries(installed))
  BY <1>1, <1>4, <1>5, EntriesAreOfLines
<1>7. run \in PacketRun /\ run.packet = at /\ run.entries = ToEntries(installed) /\ run.expects = <<>>
  <2>1. \A S : <<>> \in Seq(S)
    BY EmptySeq
  <2> QED BY <1>1, <1>6, <2>1 DEF PacketRun
<1>8. /\ DOMAIN runs = 1 .. Len(runs) /\ Len(runs) \in Nat
      /\ rs \in Seq(PacketRun) /\ DOMAIN rs = 1 .. Len(runs) + 1 /\ rs[Len(runs) + 1] = run
      /\ \A r \in 1 .. Len(runs) : rs[r] = runs[r]
  BY <1>1, <1>7, LenProperties, AppendProperties
<1>9. Lists(Packets(rs), UpTo(PacketLines, at))
  <2>1. Packets(runs) \in Seq(Nat) /\ Packets(rs) = Append(Packets(runs), at)
    BY <1>1, <1>7, PacketsGrow
  <2>2. Lists(Packets(runs), UpTo(PacketLines, at - 1))
    BY <1>1 DEF Grouping
  <2> HIDE DEF Packets, rs
  <2> QED BY <1>1, <1>2, <2>1, <2>2, ListsNext
<1> HIDE DEF rs
<1>10. EntriesFor(rs)
  <2> SUFFICES ASSUME NEW r \in 1 .. Len(runs) + 1
               PROVE  /\ EntriesOfLines(rs[r].packet, rs[r].entries)
                      /\ \A l \in InstallLines : l < rs[r].packet => Resolves(file[l])
    BY <1>8 DEF EntriesFor
  <2>1. CASE r = Len(runs) + 1
    BY <1>5, <1>6, <1>7, <1>8, <2>1
  <2>2. CASE r \in 1 .. Len(runs)
    BY <1>1, <1>8, <2>2 DEF EntriesFor
  <2> QED BY <1>8, <2>1, <2>2
<1>11. ASSUME NEW r \in DOMAIN rs PROVE Lists(rs[r].expects, UpTo(ClaimsOn(rs[r].packet), at))
  <2>1. CASE r = Len(runs) + 1
    <3>1. UpTo(ClaimsOn(at), at) = {}
      BY <1>1 DEF UpTo, ClaimsOn, LinesOn
    <3> QED BY <1>7, <1>8, <2>1, <3>1, ListsNothing
  <2>2. CASE r \in 1 .. Len(runs)
    BY <1>2, <1>8, <2>2, SameClaims
  <2> QED BY <1>8, <2>1, <2>2
<1>12. Lists(installed, UpTo(InstallLines, at))
  BY <1>1, <1>2, UpToSame DEF Grouping
<1>13. Grouping(installed, rs, at)
  BY <1>9, <1>11, <1>12 DEF Grouping
<1>14. StateInv(at + 1, step, installed, rs, failures)
  BY <1>1, <1>2, <1>8, <1>10, <1>13, Grouped
<1> QED BY <1>14 DEF rs

(* The packet a line is about: the last one before it.                         *)
LEMMA LastPacket ==
  ASSUME ReplayInv, step = "group", at \in DOMAIN file, NEW k, k = Len(runs)
  PROVE  /\ runs = <<>> <=> k = 0
         /\ runs = <<>> => \A p \in 1 .. at - 1 : file[p].is # "packet"
         /\ runs # <<>> =>
              /\ k \in DOMAIN runs /\ k \in Nat
              /\ runs[k].packet \in 1 .. at - 1 /\ file[runs[k].packet].is = "packet"
              /\ \A p \in 1 .. at - 1 : file[p].is = "packet" => p <= runs[k].packet
              /\ \A r \in DOMAIN runs : r # k => runs[r].packet < runs[k].packet
<1>1. /\ Lists(Packets(runs), UpTo(PacketLines, at - 1)) /\ at \in Nat \ {0}
      /\ runs \in Seq(PacketRun) /\ file \in Seq(AnyLine)
  BY Before DEF Grouping, Typed
<1>2. DOMAIN file = 1 .. Len(file) /\ Len(file) \in Nat /\ DOMAIN runs = 1 .. k /\ k \in Nat
  BY <1>1, LenProperties
<1>3. runs = <<>> <=> k = 0
  BY <1>1, EmptySeq
<1>4. DOMAIN Packets(runs) = 1 .. k /\ \A r \in 1 .. k : Packets(runs)[r] = runs[r].packet
  BY <1>2 DEF Packets
<1>5. /\ \A i, j \in 1 .. k : i < j => runs[i].packet < runs[j].packet
      /\ \A r \in 1 .. k : runs[r].packet \in UpTo(PacketLines, at - 1)
      /\ \A p \in UpTo(PacketLines, at - 1) : \E r \in 1 .. k : runs[r].packet = p
  <2> HIDE DEF Packets, UpTo
  <2> QED BY <1>1, <1>4 DEF Lists
<1>6. \A p \in 1 .. at - 1 : file[p].is = "packet" => p \in UpTo(PacketLines, at - 1)
  <2> SUFFICES ASSUME NEW p \in 1 .. at - 1, file[p].is = "packet" PROVE p \in UpTo(PacketLines, at - 1)
    OBVIOUS
  <2>1. p \in DOMAIN file
    BY <1>1, <1>2
  <2> QED BY <2>1 DEF UpTo, PacketLines
<1>7. \A p \in UpTo(PacketLines, at - 1) : p \in 1 .. at - 1 /\ file[p].is = "packet"
  BY <1>1, <1>2 DEF UpTo, PacketLines
<1>8. ASSUME runs = <<>>, NEW p \in 1 .. at - 1, file[p].is = "packet" PROVE FALSE
  BY <1>2, <1>3, <1>5, <1>6, <1>8
<1>9. ASSUME runs # <<>>
      PROVE  /\ k \in DOMAIN runs /\ k \in Nat
             /\ runs[k].packet \in 1 .. at - 1 /\ file[runs[k].packet].is = "packet"
             /\ \A p \in 1 .. at - 1 : file[p].is = "packet" => p <= runs[k].packet
             /\ \A r \in DOMAIN runs : r # k => runs[r].packet < runs[k].packet
  <2>1. k \in 1 .. k
    BY <1>2, <1>3, <1>9
  <2>2. runs[k].packet \in 1 .. at - 1 /\ file[runs[k].packet].is = "packet"
    BY <1>5, <1>7, <2>1
  <2>3. \A r \in 1 .. k : r # k => runs[r].packet < runs[k].packet
    <3> SUFFICES ASSUME NEW r \in 1 .. k, r # k PROVE runs[r].packet < runs[k].packet
      OBVIOUS
    <3>1. r < k
      BY <1>2
    <3> QED BY <1>5, <2>1, <3>1
  <2>4. ASSUME NEW p \in 1 .. at - 1, file[p].is = "packet" PROVE p <= runs[k].packet
    <3>1. PICK r \in 1 .. k : runs[r].packet = p
      BY <1>5, <1>6, <2>4
    <3>2. CASE r = k
      BY <2>2, <3>1, <3>2
    <3>3. CASE r # k
      BY <2>2, <2>3, <3>1, <3>3
    <3> QED BY <3>2, <3>3
  <2> QED BY <1>2, <2>1, <2>2, <2>3, <2>4
<1> QED BY <1>3, <1>8, <1>9

(* A line about a run changes only what that run claims.                       *)
LEMMA ClaimStep ==
  ASSUME ReplayInv, step = "group", at \in DOMAIN file, NEW k \in DOMAIN runs,
         NEW run \in PacketRun, run.packet = runs[k].packet, run.entries = runs[k].entries,
         file[at].is \in {"expect", "no_packet"}, InPlace(at),
         Lists(run.expects, UpTo(ClaimsOn(run.packet), at)),
         \A r \in DOMAIN runs : r # k => at \notin ClaimsOn(runs[r].packet)
  PROVE  StateInv(at + 1, step, installed, [runs EXCEPT ![k] = run], failures)
<1> DEFINE rs == [runs EXCEPT ![k] = run]
<1>1. /\ Grouping(installed, runs, at - 1) /\ at \in Nat \ {0} /\ EntriesFor(runs)
      /\ InstallLines \in SUBSET Nat /\ PacketLines \in SUBSET Nat
      /\ UpTo(Misplaced, at) = IF at \in Misplaced THEN failures \cup {at} ELSE failures
      /\ installed \in Seq(Nat) /\ runs \in Seq(PacketRun)
      /\ \A p : ClaimsOn(p) \in SUBSET Nat
  BY Before DEF Typed
<1>2. at \notin InstallLines /\ at \notin PacketLines /\ at \notin Misplaced
  BY DEF InstallLines, PacketLines, Misplaced, Installs
<1>3. /\ rs \in Seq(PacketRun) /\ DOMAIN rs = DOMAIN runs
      /\ \A r \in DOMAIN runs : rs[r] = IF r = k THEN run ELSE runs[r]
      /\ Packets(rs) = Packets(runs)
  BY <1>1, RunReplaced
<1> HIDE DEF rs
<1>4. EntriesFor(rs)
  <2> SUFFICES ASSUME NEW r \in DOMAIN runs
               PROVE  /\ EntriesOfLines(rs[r].packet, rs[r].entries)
                      /\ \A l \in InstallLines : l < rs[r].packet => Resolves(file[l])
    BY <1>3 DEF EntriesFor
  <2>1. rs[r].packet = runs[r].packet /\ rs[r].entries = runs[r].entries
    BY <1>3
  <2> QED BY <1>1, <2>1 DEF EntriesFor
<1>5. ASSUME NEW r \in DOMAIN runs PROVE Lists(rs[r].expects, UpTo(ClaimsOn(rs[r].packet), at))
  <2>1. CASE r = k
    BY <1>3, <2>1
  <2>2. CASE r # k
    <3>1. UpTo(ClaimsOn(runs[r].packet), at) = UpTo(ClaimsOn(runs[r].packet), at - 1)
      BY <1>1, <2>2, UpToSame
    <3>2. Lists(runs[r].expects, UpTo(ClaimsOn(runs[r].packet), at - 1))
      BY <1>1 DEF Grouping
    <3> QED BY <1>3, <2>2, <3>1, <3>2
  <2> QED BY <2>1, <2>2
<1>6. Lists(installed, UpTo(InstallLines, at)) /\ Lists(Packets(rs), UpTo(PacketLines, at))
  BY <1>1, <1>2, <1>3, UpToSame DEF Grouping
<1>7. Grouping(installed, rs, at)
  BY <1>3, <1>5, <1>6 DEF Grouping
<1>8. StateInv(at + 1, step, installed, rs, failures)
  BY <1>1, <1>2, <1>3, <1>4, <1>7, Grouped
<1> QED BY <1>8 DEF rs

(* A line out of place is a failure, and is none of a run's claims.            *)
LEMMA FailStep ==
  ASSUME ReplayInv, step = "group", at \in DOMAIN file, file[at].is \in {"expect", "no_packet"},
         ~InPlace(at), \A r \in DOMAIN runs : at \notin ClaimsOn(runs[r].packet)
  PROVE  StateInv(at + 1, step, installed, runs, failures \cup {at})
<1>1. /\ Grouping(installed, runs, at - 1) /\ at \in Nat \ {0} /\ EntriesFor(runs)
      /\ InstallLines \in SUBSET Nat /\ PacketLines \in SUBSET Nat
      /\ UpTo(Misplaced, at) = IF at \in Misplaced THEN failures \cup {at} ELSE failures
      /\ installed \in Seq(Nat) /\ runs \in Seq(PacketRun)
      /\ \A p : ClaimsOn(p) \in SUBSET Nat
  BY Before DEF Typed
<1>2. at \notin InstallLines /\ at \notin PacketLines /\ at \in Misplaced
  BY DEF InstallLines, PacketLines, Misplaced, Installs
<1>3. ASSUME NEW r \in DOMAIN runs PROVE Lists(runs[r].expects, UpTo(ClaimsOn(runs[r].packet), at))
  <2>1. UpTo(ClaimsOn(runs[r].packet), at) = UpTo(ClaimsOn(runs[r].packet), at - 1)
    BY <1>1, UpToSame
  <2> QED BY <1>1, <2>1 DEF Grouping
<1>4. Lists(installed, UpTo(InstallLines, at)) /\ Lists(Packets(runs), UpTo(PacketLines, at))
  BY <1>1, <1>2, UpToSame DEF Grouping
<1>5. Grouping(installed, runs, at)
  BY <1>3, <1>4 DEF Grouping
<1> QED BY <1>1, <1>2, <1>5, Grouped

LEMMA ExpectStep ==
  ASSUME ReplayInv, step = "group", at \in DOMAIN file, file[at].is = "expect", NEW k, k = Len(runs)
  PROVE  /\ runs = <<>> => StateInv(at + 1, step, installed, runs, failures \cup {at})
         /\ runs # <<>> => StateInv(at + 1, step, installed,
              [runs EXCEPT ![k] = [runs[k] EXCEPT !.expects = Append(@, at)]], failures)
<1>1. /\ at \in Nat \ {0} /\ runs \in Seq(PacketRun) /\ \A p : ClaimsOn(p) \in SUBSET Nat
      /\ Grouping(installed, runs, at - 1)
  BY Before DEF Typed
<1>2. InPlace(at) <=> \E p \in 1 .. at : file[p].is = "packet"
  BY DEF InPlace
<1>3. CASE runs = <<>>
  <2>1. \A p \in 1 .. at : file[p].is # "packet"
    <3>1. \A p \in 1 .. at : p = at \/ p \in 1 .. at - 1
      BY <1>1
    <3> QED BY <1>3, <3>1, LastPacket
  <2>2. \A r : r \notin DOMAIN runs
    BY <1>3
  <2>3. StateInv(at + 1, step, installed, runs, failures \cup {at})
    BY <1>2, <2>1, <2>2, FailStep
  <2> QED BY <1>3, <2>3
<1>4. CASE runs # <<>>
  <2> DEFINE q == runs[k].packet
             run == [runs[k] EXCEPT !.expects = Append(@, at)]
  <2>1. /\ k \in DOMAIN runs /\ q \in 1 .. at - 1 /\ file[q].is = "packet"
        /\ \A p \in 1 .. at - 1 : file[p].is = "packet" => p <= q
        /\ \A r \in DOMAIN runs : r # k => runs[r].packet < q
    BY <1>4, LastPacket
  <2>2. runs[k] \in PacketRun
    BY <1>1, <2>1, LenProperties, ElementOfSeq
  <2>3. InPlace(at)
    BY <1>1, <1>2, <2>1
  <2>4. at \in ClaimsOn(q)
    <3>1. ASSUME NEW p \in q + 1 .. at PROVE file[p].is # "packet"
      <4>1. p = at \/ (p \in 1 .. at - 1 /\ ~(p <= q))
        BY <1>1, <2>1
      <4> QED BY <2>1, <4>1
    <3>2. at > q
      BY <1>1, <2>1
    <3> QED BY <3>1, <3>2 DEF ClaimsOn, LinesOn
  <2>5. ASSUME NEW r \in DOMAIN runs, r # k PROVE at \notin ClaimsOn(runs[r].packet)
    <3>1. runs[r].packet \in Nat
      <4>1. runs[r] \in PacketRun
        BY <1>1, LenProperties, ElementOfSeq
      <4> QED BY <4>1 DEF PacketRun
    <3>2. q \in runs[r].packet + 1 .. at
      <4>1. runs[r].packet < q
        BY <2>1, <2>5
      <4> QED BY <1>1, <2>1, <3>1, <4>1
    <3> QED BY <2>1, <3>2 DEF ClaimsOn, LinesOn
  <2>6. /\ runs[k].expects \in Seq(Nat) /\ Lists(runs[k].expects, UpTo(ClaimsOn(q), at - 1))
    BY <1>1, <2>1, <2>2 DEF PacketRun, Grouping
  <2>7. Append(runs[k].expects, at) \in Seq(Nat) /\ Lists(Append(runs[k].expects, at), UpTo(ClaimsOn(q), at))
    <3> HIDE DEF q
    <3> QED BY <1>1, <2>4, <2>6, ListsNext
  <2>8. run \in PacketRun /\ run.packet = q /\ run.entries = runs[k].entries
        /\ run.expects = Append(runs[k].expects, at)
    BY <2>2, <2>7 DEF PacketRun
  <2> HIDE DEF run
  <2>9. StateInv(at + 1, step, installed, [runs EXCEPT ![k] = run], failures)
    BY <2>1, <2>3, <2>5, <2>7, <2>8, ClaimStep
  <2> QED BY <1>4, <2>9 DEF run
<1> QED BY <1>3, <1>4

LEMMA NoPacketStep ==
  ASSUME ReplayInv, step = "group", at \in DOMAIN file, file[at].is = "no_packet", NEW k, k = Len(runs)
  PROVE  /\ runs = <<>> \/ runs[k].expects # <<>> =>
              StateInv(at + 1, step, installed, runs, failures \cup {at})
         /\ ~(runs = <<>> \/ runs[k].expects # <<>>) => StateInv(at + 1, step, installed,
              [runs EXCEPT ![k] = [runs[k] EXCEPT !.no_packet = at]], failures)
<1>1. /\ at \in Nat \ {0} /\ runs \in Seq(PacketRun) /\ \A p : ClaimsOn(p) \in SUBSET Nat
      /\ Grouping(installed, runs, at - 1)
  BY Before DEF Typed
<1>2. InPlace(at) <=> \E p \in 1 .. at : file[p].is = "packet" /\ \A l \in p .. at : file[l].is # "expect"
  BY DEF InPlace
<1>3. \A p \in 1 .. at : p = at \/ p \in 1 .. at - 1
  BY <1>1
<1>4. \A p : at \notin ClaimsOn(p)
  BY DEF ClaimsOn, LinesOn
<1>5. CASE runs = <<>>
  <2>1. ~InPlace(at)
    BY <1>2, <1>3, <1>5, LastPacket
  <2>2. StateInv(at + 1, step, installed, runs, failures \cup {at})
    BY <1>4, <2>1, FailStep
  <2> QED BY <1>5, <2>2
<1>6. CASE runs # <<>>
  <2> DEFINE q == runs[k].packet
             run == [runs[k] EXCEPT !.no_packet = at]
  <2>1. /\ k \in DOMAIN runs /\ q \in 1 .. at - 1 /\ file[q].is = "packet"
        /\ \A p \in 1 .. at - 1 : file[p].is = "packet" => p <= q
    BY <1>6, LastPacket
  <2>2. runs[k] \in PacketRun
    BY <1>1, <2>1, LenProperties, ElementOfSeq
  <2>3. runs[k].expects \in Seq(Nat) /\ Lists(runs[k].expects, UpTo(ClaimsOn(q), at - 1))
    BY <1>1, <2>1, <2>2 DEF PacketRun, Grouping
  <2>4. runs[k].expects = <<>> <=> UpTo(ClaimsOn(q), at - 1) = {}
    BY <2>3, NothingListed
  <2>5. CASE runs[k].expects = <<>>
    <3>1. ASSUME NEW l \in q .. at, file[l].is = "expect" PROVE FALSE
      <4>1. l # q /\ l # at
        BY <2>1, <3>1
      <4>2. l \in 1 .. at - 1 /\ l > q /\ l <= at - 1
        BY <1>1, <2>1, <4>1
      <4>3. l \in DOMAIN file
        <5>1. file \in Seq(AnyLine)
          BY Before DEF Typed
        <5> QED BY <1>1, <4>2, <5>1, LenProperties
      <4>4. ASSUME NEW p \in q + 1 .. l PROVE file[p].is # "packet"
        <5>1. p \in 1 .. at - 1 /\ ~(p <= q)
          BY <1>1, <2>1, <4>2
        <5> QED BY <2>1, <5>1
      <4>5. l \in UpTo(ClaimsOn(q), at - 1)
        BY <3>1, <4>2, <4>3, <4>4 DEF UpTo, ClaimsOn, LinesOn
      <4> QED BY <2>4, <2>5, <4>5
    <3>2. InPlace(at)
      <4>1. q \in 1 .. at
        BY <1>1, <2>1
      <4> QED BY <1>2, <2>1, <3>1, <4>1
    <3>3. run \in PacketRun /\ run.packet = q /\ run.entries = runs[k].entries /\ run.expects = runs[k].expects
      BY <1>1, <2>2 DEF PacketRun
    <3>4. Lists(run.expects, UpTo(ClaimsOn(q), at))
      BY <1>1, <1>4, <2>3, <3>3, UpToSame
    <3> HIDE DEF run
    <3>5. StateInv(at + 1, step, installed, [runs EXCEPT ![k] = run], failures)
      BY <1>4, <2>1, <3>2, <3>3, <3>4, ClaimStep
    <3> QED BY <1>6, <2>5, <3>5 DEF run
  <2>6. CASE runs[k].expects # <<>>
    <3>1. PICK l \in ClaimsOn(q) : l <= at - 1
      BY <2>4, <2>6 DEF UpTo
    <3>2. l \in Nat /\ l > q /\ file[l].is = "expect"
      BY <1>1, <3>1 DEF ClaimsOn, LinesOn
    <3>3. ASSUME NEW p \in 1 .. at, file[p].is = "packet" PROVE l \in p .. at
      <4>1. p <= q
        BY <1>3, <2>1, <3>3
      <4> QED BY <1>1, <2>1, <3>1, <3>2, <4>1
    <3>4. ~InPlace(at)
      BY <1>2, <3>2, <3>3
    <3>5. StateInv(at + 1, step, installed, runs, failures \cup {at})
      BY <1>4, <3>4, FailStep
    <3> QED BY <2>6, <3>5
  <2> QED BY <2>5, <2>6
<1> QED BY <1>5, <1>6

-----------------------------------------------------------------------------
(* Each step keeps the invariant.                                              *)

LEMMA GroupStep == ASSUME ReplayInv, Group PROVE ReplayInv'
<1>1. step = "group" /\ at \in DOMAIN file /\ at' = at + 1 /\ file' = file
      /\ (GroupInstall \/ GroupPacket \/ GroupExpect \/ GroupNoPacket \/ GroupWait)
  BY DEF Group
<1>2. SUFFICES StateInv(at + 1, step', installed', runs', failures')
  BY <1>1, FileKept
<1>3. CASE GroupInstall
  BY <1>1, <1>3, InstallStep DEF GroupInstall
<1>4. CASE GroupPacket
  <2>1. file[at].is = "packet" /\ installed' = installed /\ failures' = failures
    BY <1>4 DEF GroupPacket
  <2>2. CASE \A i \in DOMAIN installed : Resolves(file[installed[i]])
    <3>1. /\ runs' = Append(runs, [packet |-> at, entries |-> ToEntries(installed),
                                   expects |-> <<>>, no_packet |-> Absent, outputs |-> <<>>])
          /\ step' = step
      BY <1>4, <2>2 DEF GroupPacket
    <3> QED BY <1>1, <2>1, <2>2, <3>1, PacketStep
  <2>3. CASE ~(\A i \in DOMAIN installed : Resolves(file[installed[i]]))
    <3>1. runs' = runs /\ step' = "StfError"
      BY <1>4, <2>3 DEF GroupPacket
    <3>2. Typed(at, step, installed, runs, failures) /\ EntriesFor(runs)
      BY <1>1, Before
    <3>3. Typed(at + 1, "StfError", installed, runs, failures)
      BY <3>2 DEF Typed, Phases
    <3>4. StateInv(at + 1, "StfError", installed, runs, failures)
      BY <3>2, <3>3 DEF StateInv
    <3> QED BY <2>1, <3>1, <3>4
  <2> QED BY <2>2, <2>3
<1>5. CASE GroupExpect
  <2>1. file[at].is = "expect" /\ step' = step /\ installed' = installed
    BY <1>5 DEF GroupExpect
  <2>2. CASE runs = <<>>
    <3>1. failures' = failures \cup {at} /\ runs' = runs
      BY <1>5, <2>2 DEF GroupExpect, Fail
    <3> QED BY <1>1, <2>1, <2>2, <3>1, ExpectStep
  <2>3. CASE runs # <<>>
    <3>1. /\ runs' = [runs EXCEPT ![Len(runs)] = [runs[Len(runs)] EXCEPT !.expects = Append(@, at)]]
          /\ failures' = failures
      BY <1>5, <2>3 DEF GroupExpect, ClaimLast
    <3> QED BY <1>1, <2>1, <2>3, <3>1, ExpectStep
  <2> QED BY <2>2, <2>3
<1>6. CASE GroupNoPacket
  <2>1. file[at].is = "no_packet" /\ step' = step /\ installed' = installed
    BY <1>6 DEF GroupNoPacket
  <2>2. CASE runs = <<>> \/ runs[Len(runs)].expects # <<>>
    <3>1. failures' = failures \cup {at} /\ runs' = runs
      BY <1>6, <2>2 DEF GroupNoPacket, Fail
    <3> QED BY <1>1, <2>1, <2>2, <3>1, NoPacketStep
  <2>3. CASE ~(runs = <<>> \/ runs[Len(runs)].expects # <<>>)
    <3>1. /\ runs' = [runs EXCEPT ![Len(runs)] = [runs[Len(runs)] EXCEPT !.no_packet = at]]
          /\ failures' = failures
      BY <1>6, <2>3 DEF GroupNoPacket, ClaimLast
    <3> QED BY <1>1, <2>1, <2>3, <3>1, NoPacketStep
  <2> QED BY <2>2, <2>3
<1>7. CASE GroupWait
  BY <1>1, <1>7, WaitStep DEF GroupWait
<1> QED BY <1>1, <1>3, <1>4, <1>5, <1>6, <1>7

LEMMA ParseStep == ASSUME ReplayInv, NEW line \in AnyLine, Parse(line) PROVE ReplayInv'
<1>1. /\ step = "parse" /\ at' = at /\ installed' = installed /\ runs' = runs /\ failures' = failures
      /\ at = 1 /\ installed = <<>> /\ runs = <<>> /\ failures = {} /\ file \in Seq(AnyLine)
  BY DEF Parse, ReplayInv, StateInv, Typed
<1>2. file' \in Seq(AnyLine) /\ step' \in {"parse", "StfError"}
  BY <1>1, AppendProperties DEF Parse
<1>3. Typed(at, step, installed, runs, failures)'
  <2>1. \A S : <<>> \in Seq(S)
    BY EmptySeq
  <2> QED BY <1>1, <1>2, <2>1 DEF Typed, Phases
<1>4. EntriesFor(runs)'
  BY <1>1 DEF EntriesFor
<1> QED BY <1>1, <1>2, <1>3, <1>4 DEF ReplayInv, StateInv

LEMMA EndOfFileStep == ASSUME ReplayInv, EndOfFile PROVE ReplayInv'
<1>1. /\ step = "parse" /\ step' = "group" /\ file' = file
      /\ at' = at /\ installed' = installed /\ runs' = runs /\ failures' = failures
      /\ at = 1 /\ installed = <<>> /\ runs = <<>> /\ failures = {} /\ EntriesFor(runs)
      /\ Typed(at, step, installed, runs, failures)
  BY DEF EndOfFile, ReplayInv, StateInv
<1>2. DOMAIN file = 1 .. Len(file) /\ Len(file) \in Nat
  BY <1>1, LenProperties DEF Typed
<1>3. UpTo(InstallLines, 0) = {} /\ UpTo(PacketLines, 0) = {} /\ UpTo(Misplaced, 0) = {}
  BY <1>2 DEF UpTo, InstallLines, PacketLines, Misplaced
<1>4. Lists(Packets(<<>>), {})
  BY DEF Lists, Packets
<1>5. Grouping(<<>>, <<>>, 0)
  <2>1. \A r : r \notin DOMAIN <<>>
    OBVIOUS
  <2>2. Lists(<<>>, UpTo(InstallLines, 0)) /\ Lists(Packets(<<>>), UpTo(PacketLines, 0))
    BY <1>3, <1>4, ListsNothing
  <2> HIDE DEF Packets
  <2> QED BY <2>1, <2>2 DEF Grouping
<1>6. Typed(1, "group", <<>>, <<>>, {})
  BY <1>1 DEF Typed, Phases
<1>7. StateInv(1, "group", <<>>, <<>>, {})
  BY <1>1, <1>2, <1>3, <1>5, <1>6 DEF StateInv
<1> QED BY <1>1, <1>7, FileKept

LEMMA EndOfGroupsStep == ASSUME ReplayInv, EndOfGroups PROVE ReplayInv'
<1>1. /\ step = "group" /\ at = Len(file) + 1 /\ step' = "replay" /\ at' = 1 /\ file' = file
      /\ installed' = installed /\ runs' = runs /\ failures' = failures
      /\ EntriesFor(runs) /\ Typed(at, step, installed, runs, failures)
      /\ Grouping(installed, runs, at - 1) /\ failures = UpTo(Misplaced, at - 1)
  BY DEF EndOfGroups, ReplayInv, StateInv
<1>2. DOMAIN file = 1 .. Len(file) /\ Len(file) \in Nat /\ Len(runs) \in Nat
  BY <1>1, LenProperties DEF Typed
<1>3. at - 1 = Len(file)
  BY <1>1, <1>2
<1>4. UpTo(Misplaced, Len(file)) = Misplaced
  BY <1>2 DEF UpTo, Misplaced
<1>5. Failing(runs, 0) = {}
  BY DEF Failing
<1>6. Typed(1, "replay", installed, runs, failures)
  BY <1>1 DEF Typed, Phases
<1>7. StateInv(1, "replay", installed, runs, failures)
  <2>1. 1 \in 1 .. Len(runs) + 1 /\ 1 - 1 = 0
    BY <1>2
  <2>2. failures = Misplaced \cup Failing(runs, 0)
    BY <1>1, <1>3, <1>4, <1>5
  <2> QED BY <1>1, <1>3, <1>6, <2>1, <2>2 DEF StateInv
<1> QED BY <1>1, <1>7, FileKept

LEMMA ComparedLines ==
  ASSUME NEW run \in PacketRun, NEW outputs
  PROVE  Compare(run, outputs) \in SUBSET Nat
<1>1. run.expects \in Seq(Nat) /\ run.packet \in Nat /\ run.no_packet \in Nat \cup {Absent}
  BY DEF PacketRun
<1>2. \A j \in DOMAIN run.expects : run.expects[j] \in Nat
  BY <1>1, LenProperties, ElementOfSeq
<1> QED BY <1>1, <1>2 DEF Compare

LEMMA RunPacketStep == ASSUME ReplayInv, NEW outputs \in OutputLists, RunPacket(outputs) PROVE ReplayInv'
<1> DEFINE run == [runs[at] EXCEPT !.outputs = outputs]
           rs == [runs EXCEPT ![at] = run]
           failed == Compare(runs[at], outputs)
<1>1. /\ step = "replay" /\ at \in DOMAIN runs /\ step' = step /\ at' = at + 1 /\ file' = file
      /\ installed' = installed /\ runs' = rs /\ failures' = failures \cup failed
      /\ EntriesFor(runs) /\ Typed(at, step, installed, runs, failures)
      /\ Grouping(installed, runs, Len(file)) /\ failures = Misplaced \cup Failing(runs, at - 1)
  BY DEF RunPacket, ReplayInv, StateInv
<1>2. /\ runs \in Seq(PacketRun) /\ DOMAIN runs = 1 .. Len(runs) /\ Len(runs) \in Nat /\ runs[at] \in PacketRun
      /\ at \in Nat \ {0} /\ (at + 1) - 1 = at
  BY <1>1, LenProperties, ElementOfSeq DEF Typed
<1>3. outputs \in Seq(Emitted)
  <2>1. PICK n \in UNION {0 .. kind.outputs : kind \in {k \in Files : {file[i] : i \in DOMAIN file} \subseteq k.lines}} :
          outputs \in [1 .. n -> Emitted]
    BY DEF OutputLists
  <2>2. n \in Nat
    BY <2>1, ReplayAssumption
  <2> QED BY <2>1, <2>2, SeqDef
<1>4. /\ run \in PacketRun /\ run.packet = runs[at].packet /\ run.entries = runs[at].entries
      /\ run.expects = runs[at].expects /\ run.no_packet = runs[at].no_packet /\ run.outputs = outputs
  BY <1>2, <1>3 DEF PacketRun
<1> HIDE DEF run
<1>5. /\ rs \in Seq(PacketRun) /\ Len(rs) = Len(runs) /\ DOMAIN rs = DOMAIN runs
      /\ \A r \in DOMAIN runs : rs[r] = IF r = at THEN run ELSE runs[r]
      /\ Packets(rs) = Packets(runs)
  BY <1>1, <1>2, <1>4, RunReplaced
<1> HIDE DEF rs
<1>6. \A r \in DOMAIN runs : rs[r].packet = runs[r].packet /\ rs[r].entries = runs[r].entries
                             /\ rs[r].expects = runs[r].expects
  BY <1>4, <1>5
<1>7. EntriesFor(rs) /\ Grouping(installed, rs, Len(file))
  BY <1>1, <1>5, <1>6 DEF EntriesFor, Grouping
<1>8. Compare(run, outputs) = failed
  BY <1>4 DEF Compare
<1>9. failed \in SUBSET Nat
  BY <1>2, ComparedLines
<1> HIDE DEF failed
<1>10. Failing(rs, at) = Failing(runs, at - 1) \cup failed
  <2>1. \A r \in 1 .. at : r = at \/ (r \in 1 .. at - 1 /\ r \in DOMAIN runs /\ r # at)
    BY <1>1, <1>2
  <2>2. at \in 1 .. at /\ \A r \in 1 .. at - 1 : r \in 1 .. at /\ r \in DOMAIN runs /\ r # at
    BY <1>1, <1>2
  <2>3. rs[at] = run /\ \A r \in 1 .. at - 1 : rs[r] = runs[r]
    BY <1>1, <1>5, <2>2
  <2>4. \A l : (\E r \in 1 .. at : l \in Compare(rs[r], rs[r].outputs))
                <=> (l \in failed \/ \E r \in 1 .. at - 1 : l \in Compare(runs[r], runs[r].outputs))
    <3> TAKE l
    <3>1. l \in Compare(rs[at], rs[at].outputs) <=> l \in failed
      BY <1>4, <1>8, <2>3
    <3>2. \A r \in 1 .. at - 1 : l \in Compare(rs[r], rs[r].outputs) <=> l \in Compare(runs[r], runs[r].outputs)
      BY <2>3
    <3> HIDE DEF rs, failed
    <3> QED BY <2>1, <2>2, <3>1, <3>2
  <2> QED BY <1>9, <2>4 DEF Failing
<1>11. failures' \in SUBSET Nat /\ failures' = Misplaced \cup Failing(rs, at)
  <2>1. failures \in SUBSET Nat
    BY <1>1 DEF Typed
  <2> QED BY <1>1, <1>9, <1>10, <2>1
<1>12. Typed(at + 1, step, installed, rs, failures')
  BY <1>1, <1>2, <1>5, <1>11 DEF Typed
<1>13. StateInv(at + 1, step, installed, rs, failures')
  <2>1. at + 1 \in 1 .. Len(rs) + 1
    BY <1>1, <1>2, <1>5
  <2> QED BY <1>1, <1>2, <1>7, <1>11, <1>12, <2>1 DEF StateInv
<1> QED BY <1>1, <1>13, FileKept

LEMMA EndOfReplayStep == ASSUME ReplayInv, EndOfReplay PROVE ReplayInv'
<1>1. /\ step = "replay" /\ at = Len(runs) + 1 /\ step' = "done" /\ at' = at /\ file' = file
      /\ installed' = installed /\ runs' = runs /\ failures' = failures
      /\ EntriesFor(runs) /\ Typed(at, step, installed, runs, failures)
      /\ Grouping(installed, runs, Len(file)) /\ failures = Misplaced \cup Failing(runs, at - 1)
  BY DEF EndOfReplay, ReplayInv, StateInv
<1>2. Typed(at, "done", installed, runs, failures)
  BY <1>1 DEF Typed, Phases
<1>3. StateInv(at, "done", installed, runs, failures)
  BY <1>1, <1>2 DEF StateInv
<1> QED BY <1>1, <1>3, FileKept

(* Through every file and every answer of the architecture, the entries of a   *)
(* run are those its lines spell, what it claims are the expects about its     *)
(* packet, and the failures are the lines out of place and those that differ   *)
(* from an output (stf.py parse, _runs, to_entries, _compare, replay).         *)
THEOREM ReplayInvariant == ReplaySpec => []ReplayInv
<1>1. ReplayInit => ReplayInv
  <2> SUFFICES ASSUME ReplayInit PROVE ReplayInv
    OBVIOUS
  <2>1. file = <<>> /\ at = 1 /\ step = "parse" /\ installed = <<>> /\ runs = <<>> /\ failures = {}
    BY DEF ReplayInit
  <2>2. \A S : <<>> \in Seq(S)
    BY EmptySeq
  <2>3. Typed(at, step, installed, runs, failures)
    BY <2>1, <2>2 DEF Typed, Phases
  <2> QED BY <2>1, <2>3 DEF ReplayInv, StateInv, EntriesFor
<1>2. ReplayInv /\ [ReplayNext]_replayVars => ReplayInv'
  <2> SUFFICES ASSUME ReplayInv, [ReplayNext]_replayVars PROVE ReplayInv'
    OBVIOUS
  <2>1. CASE UNCHANGED replayVars
    BY <2>1, FileKept DEF replayVars, ReplayInv
  <2>2. ASSUME NEW line \in AnyLine, Parse(line) PROVE ReplayInv'
    BY <2>2, ParseStep
  <2>3. ASSUME NEW outputs \in OutputLists, RunPacket(outputs) PROVE ReplayInv'
    BY <2>3, RunPacketStep
  <2> QED BY <2>1, <2>2, <2>3, EndOfFileStep, GroupStep, EndOfGroupsStep, EndOfReplayStep DEF ReplayNext
<1> QED BY <1>1, <1>2, PTL DEF ReplaySpec

-----------------------------------------------------------------------------
(* What the replay promises.                                                   *)

LEMMA AddResolves ==
  ASSUME ReplayInv, NEW r \in DOMAIN runs, NEW t, NEW l \in AddsTo(t, runs[r].packet)
  PROVE  file[l] \in AnyLine /\ file[l].is = "add" /\ Resolves(file[l]) /\ FindTable(file[l].table) = t
<1>1. EntriesFor(runs) /\ file \in Seq(AnyLine)
  BY DEF ReplayInv, StateInv, Typed
<1>2. l \in DOMAIN file /\ l < runs[r].packet /\ file[l].is = "add" /\ FindTable(file[l].table) = t
  BY DEF AddsTo
<1>3. l \in InstallLines
  BY <1>2 DEF InstallLines, Installs
<1>4. file[l] \in AnyLine
  BY <1>1, <1>2, LenProperties, ElementOfSeq
<1> QED BY <1>1, <1>2, <1>3, <1>4 DEF EntriesFor

LEMMA EntriesMean == ASSUME ReplayInv PROVE EntriesMeanWhatIsWritten
<1> SUFFICES ASSUME NEW r \in DOMAIN runs, NEW t \in Program.tables
             PROVE  /\ \E lines \in [DOMAIN runs[r].entries[t].entries -> AddsTo(t, runs[r].packet)] :
                         /\ Lists(lines, AddsTo(t, runs[r].packet))
                         /\ \A i \in DOMAIN runs[r].entries[t].entries :
                              MatchesAsWritten(t, runs[r].entries[t].entries[i], file[lines[i]])
                    /\ \A i \in DOMAIN runs[r].entries[t].entries :
                         T!WellFormed(DeclOf(t), runs[r].entries[t].entries[i])
  BY DEF EntriesMeanWhatIsWritten, EntriesMatchAsWritten, EveryEntryInstalls
<1> DEFINE es == runs[r].entries[t].entries
           S == AddsTo(t, runs[r].packet)
<1>1. runs \in Seq(PacketRun) /\ EntriesFor(runs)
  BY DEF ReplayInv, StateInv, Typed
<1>2. runs[r] \in PacketRun
  BY <1>1, LenProperties, ElementOfSeq
<1>3. es \in Seq(AnyEntry)
  BY <1>2 DEF PacketRun, AnyEntries
<1>4. PICK lines \in Seq(Nat) :
        /\ Len(lines) = Len(es) /\ Lists(lines, S)
        /\ \A i \in DOMAIN lines : es[i] = EntryOf(t, file[lines[i]])
  BY <1>1 DEF EntriesFor, EntriesOfLines
<1>5. DOMAIN lines = DOMAIN es /\ lines \in [DOMAIN es -> Nat]
  BY <1>3, <1>4, LenProperties
<1> HIDE DEF es
<1>6. \A i \in DOMAIN es : lines[i] \in S
  BY <1>4, <1>5 DEF Lists
<1>7. lines \in [DOMAIN es -> S]
  BY <1>5, <1>6
<1>8. ASSUME NEW i \in DOMAIN es
      PROVE  MatchesAsWritten(t, es[i], file[lines[i]]) /\ T!WellFormed(DeclOf(t), es[i])
  <2>1. lines[i] \in S /\ es[i] = EntryOf(t, file[lines[i]])
    BY <1>4, <1>5, <1>6
  <2>2. /\ file[lines[i]] \in AnyLine /\ file[lines[i]].is = "add" /\ Resolves(file[lines[i]])
        /\ FindTable(file[lines[i]].table) = t
    BY <2>1, AddResolves
  <2> QED BY <2>1, <2>2, EntryMeans
<1>9. \E ls \in [DOMAIN es -> S] : Lists(ls, S) /\ \A i \in DOMAIN es : MatchesAsWritten(t, es[i], file[ls[i]])
  BY <1>4, <1>7, <1>8
<1> QED BY <1>8, <1>9 DEF es

(* The entries a packet runs with are, in each table and in the file's order,  *)
(* the ones its lines spell, and every one of them is well formed for its      *)
(* table (stf.py key_value, entry, to_entries; interp/tables.py install).      *)
THEOREM EntriesAlwaysMean == ReplaySpec => []EntriesMeanWhatIsWritten
BY ReplayInvariant, EntriesMean, PTL

(* A run fails no line exactly when its outputs are what its packet's lines    *)
(* claim.                                                                      *)
LEMMA FailsNone ==
  ASSUME NEW run \in PacketRun, NEW outputs \in Seq(Emitted)
  PROVE  Compare(run, outputs) = {} <=>
           /\ Len(outputs) = Len(run.expects)
           /\ \A j \in 1 .. Len(outputs) : /\ outputs[j].port = file[run.expects[j]].port
                                           /\ Matches(file[run.expects[j]], outputs[j].data)
<1> DEFINE Differs(j) == j \notin DOMAIN outputs \/ outputs[j].port # file[run.expects[j]].port
                           \/ ~Matches(file[run.expects[j]], outputs[j].data)
           wrong == {run.expects[j] : j \in {i \in DOMAIN run.expects : Differs(i)}}
           extra == IF Len(outputs) <= Len(run.expects) THEN {}
                    ELSE {IF run.no_packet # Absent THEN run.no_packet ELSE run.packet}
<1>1. /\ DOMAIN run.expects = 1 .. Len(run.expects) /\ Len(run.expects) \in Nat
      /\ DOMAIN outputs = 1 .. Len(outputs) /\ Len(outputs) \in Nat
  BY LenProperties DEF PacketRun
<1>2. Compare(run, outputs) = wrong \cup extra
  BY DEF Compare
<1>3. extra = {} <=> Len(outputs) <= Len(run.expects)
  OBVIOUS
<1>4. wrong = {} <=> \A j \in DOMAIN run.expects : ~Differs(j)
  <2> HIDE DEF Differs
  <2> QED OBVIOUS
<1>5. (\A j \in 1 .. Len(run.expects) : j \in 1 .. Len(outputs)) <=> Len(run.expects) <= Len(outputs)
  <2>1. CASE Len(run.expects) = 0
    BY <1>1, <2>1
  <2>2. CASE Len(run.expects) # 0
    <3>1. Len(run.expects) \in 1 .. Len(run.expects)
      BY <1>1, <2>2
    <3> QED BY <1>1, <3>1
  <2> QED BY <2>1, <2>2
<1> HIDE DEF wrong, extra
<1>6. Len(outputs) = Len(run.expects) <=> Len(outputs) <= Len(run.expects) /\ Len(run.expects) <= Len(outputs)
  <2> DEFINE m == Len(outputs)
             n == Len(run.expects)
  <2>1. m \in Nat /\ n \in Nat
    BY <1>1
  <2> HIDE DEF m, n
  <2>2. m = n <=> m <= n /\ n <= m
    BY <2>1
  <2> QED BY <2>2 DEF m, n
<1> QED BY <1>1, <1>2, <1>3, <1>4, <1>5, <1>6

(* The last packet up to a line.                                               *)
LEMMA LastPacketOf ==
  ASSUME file \in Seq(AnyLine), NEW l \in DOMAIN file, AboutAPacket(l)
  PROVE  \E n \in 1 .. l : file[n].is = "packet" /\ \A p \in n + 1 .. l : file[p].is # "packet"
<1>1. DOMAIN file = 1 .. Len(file) /\ Len(file) \in Nat
  BY LenProperties
<1> DEFINE back == {k \in 0 .. l - 1 : file[l - k].is = "packet"}
<1>2. PICK p \in 1 .. l : file[p].is = "packet"
  BY DEF AboutAPacket
<1>3. l - p \in back
  BY <1>1, <1>2
<1>4. PICK m \in back : \A k \in back : m <= k
  <2>1. back \in SUBSET Nat
    BY <1>1
  <2> QED BY <1>3, <2>1, LeastNumber
<1>5. ASSUME NEW q \in l - m + 1 .. l, file[q].is = "packet" PROVE FALSE
  <2>1. l - q \in 0 .. l - 1 /\ l - (l - q) = q /\ l - q < m
    BY <1>1, <1>4
  <2>2. l - q \in back
    BY <1>5, <2>1
  <2>3. m <= l - q
    BY <1>4, <2>2
  <2> QED BY <1>1, <2>1, <2>3
<1>6. l - m \in 1 .. l /\ file[l - m].is = "packet"
  BY <1>1, <1>4
<1> QED BY <1>5, <1>6

(* Where the outputs are what the expects claim, the lines are in place        *)
(* exactly when every line is about a packet and the no_packets are kept.      *)
LEMMA PlacedAsKept ==
  ASSUME file \in Seq(AnyLine), runs \in Seq(PacketRun),
         Lists([r \in DOMAIN runs |-> runs[r].packet], PacketLines),
         \A r \in DOMAIN runs : Claimed(runs[r])
  PROVE  Misplaced = {} <=>
           /\ \A r \in DOMAIN runs : DropsKept(runs[r])
           /\ \A l \in DOMAIN file : file[l].is \in {"expect", "no_packet"} => AboutAPacket(l)
<1>1. DOMAIN file = 1 .. Len(file) /\ Len(file) \in Nat
  BY LenProperties
<1>2. ASSUME NEW r \in DOMAIN runs, runs[r].outputs = <<>> PROVE ClaimsOn(runs[r].packet) = {}
  <2>1. PICK claims \in [DOMAIN runs[r].outputs -> ClaimsOn(runs[r].packet)] : Lists(claims, ClaimsOn(runs[r].packet))
    BY DEF Claimed
  <2>2. DOMAIN claims = {}
    BY <1>2, <2>1
  <2> QED BY <2>1, <2>2 DEF Lists
<1>3. ASSUME NEW r \in DOMAIN runs, ClaimsOn(runs[r].packet) = {} PROVE runs[r].outputs = <<>>
  <2>1. PICK claims \in [DOMAIN runs[r].outputs -> ClaimsOn(runs[r].packet)] : TRUE
    BY DEF Claimed
  <2>2. runs[r].outputs \in Seq(Emitted)
    <3>1. runs[r] \in PacketRun
      BY LenProperties, ElementOfSeq
    <3> QED BY <3>1 DEF PacketRun
  <2>3. 1 \notin DOMAIN runs[r].outputs
    BY <1>3, <2>1
  <2> QED BY <2>2, <2>3, LenProperties, EmptySeq
<1>4. ASSUME NEW l \in DOMAIN file, NEW n \in 1 .. l, file[n].is = "packet", file[l].is = "no_packet",
             \A p \in n + 1 .. l : file[p].is # "packet"
      PROVE  InPlace(l) <=> \A c \in ClaimsOn(n) : c > l
  <2>1. ASSUME InPlace(l), NEW c \in ClaimsOn(n) PROVE c > l
    <3>1. PICK p \in 1 .. l : file[p].is = "packet" /\ \A q \in p .. l : file[q].is # "expect"
      BY <1>4, <2>1 DEF InPlace
    <3>2. p <= n
      BY <1>1, <1>4, <3>1
    <3>3. c \in 1 .. Len(file) /\ c > n /\ file[c].is = "expect"
      BY <1>1, <2>1 DEF ClaimsOn, LinesOn
    <3>4. c \notin p .. l
      BY <3>1, <3>3
    <3> QED BY <1>1, <3>2, <3>3, <3>4
  <2>2. ASSUME \A c \in ClaimsOn(n) : c > l PROVE InPlace(l)
    <3>1. ASSUME NEW q \in n .. l, file[q].is = "expect" PROVE FALSE
      <4>1. q \in DOMAIN file /\ q > n /\ q <= l
        BY <1>1, <1>4, <3>1
      <4>2. \A p \in n + 1 .. q : file[p].is # "packet"
        BY <1>1, <1>4, <4>1
      <4>3. q \in ClaimsOn(n)
        BY <3>1, <4>1, <4>2 DEF ClaimsOn, LinesOn
      <4> QED BY <1>1, <2>2, <4>1, <4>3
    <3> QED BY <1>4, <3>1 DEF InPlace
  <2> QED BY <2>1, <2>2
<1>5. ASSUME NEW r \in DOMAIN runs, NEW l \in LinesOn(runs[r].packet, "no_packet")
      PROVE  /\ l \in DOMAIN file /\ file[l].is = "no_packet"
             /\ InPlace(l) <=> runs[r].outputs = <<>> \/ Overruled(l, runs[r].packet)
  <2> DEFINE n == runs[r].packet
  <2>1. n \in PacketLines
    BY DEF Lists
  <2>2. /\ l \in DOMAIN file /\ l > n /\ file[l].is = "no_packet"
        /\ \A p \in n + 1 .. l : file[p].is # "packet"
    BY DEF LinesOn
  <2>3. n \in 1 .. l /\ file[n].is = "packet"
    BY <1>1, <2>1, <2>2 DEF PacketLines
  <2>4. InPlace(l) <=> \A c \in ClaimsOn(n) : c > l
    <3> HIDE DEF n
    <3> QED BY <1>4, <2>2, <2>3
  <2>5. runs[r].outputs = <<>> <=> ClaimsOn(n) = {}
    BY <1>2, <1>3
  <2> QED BY <2>2, <2>4, <2>5 DEF Overruled
<1>6. ASSUME Misplaced = {}
      PROVE  /\ \A r \in DOMAIN runs : DropsKept(runs[r])
             /\ \A l \in DOMAIN file : file[l].is \in {"expect", "no_packet"} => AboutAPacket(l)
  <2>1. \A l \in DOMAIN file : file[l].is \in {"expect", "no_packet"} => InPlace(l)
    BY <1>6 DEF Misplaced
  <2>2. \A l \in DOMAIN file : InPlace(l) => AboutAPacket(l)
    BY DEF InPlace, AboutAPacket
  <2>3. ASSUME NEW r \in DOMAIN runs, NEW l \in LinesOn(runs[r].packet, "no_packet")
        PROVE  runs[r].outputs = <<>> \/ Overruled(l, runs[r].packet)
    BY <1>5, <2>1
  <2> QED BY <2>1, <2>2, <2>3 DEF DropsKept
<1>7. ASSUME \A r \in DOMAIN runs : DropsKept(runs[r]), NEW l \in DOMAIN file,
             file[l].is \in {"expect", "no_packet"}, AboutAPacket(l)
      PROVE  InPlace(l)
  <2>1. CASE file[l].is = "expect"
    BY <1>7, <2>1 DEF InPlace, AboutAPacket
  <2>2. CASE file[l].is = "no_packet"
    <3>1. PICK n \in 1 .. l : file[n].is = "packet" /\ \A p \in n + 1 .. l : file[p].is # "packet"
      BY <1>7, LastPacketOf
    <3>2. n \in PacketLines /\ l > n
      <4>1. n # l
        BY <2>2, <3>1
      <4> QED BY <1>1, <3>1, <4>1 DEF PacketLines
    <3>3. PICK r \in DOMAIN runs : runs[r].packet = n
      BY <3>2 DEF Lists
    <3>4. l \in LinesOn(runs[r].packet, "no_packet")
      BY <2>2, <3>1, <3>2, <3>3 DEF LinesOn
    <3> QED BY <1>5, <1>7, <3>4 DEF DropsKept
  <2> QED BY <1>7, <2>1, <2>2
<1> QED BY <1>6, <1>7 DEF Misplaced

LEMMA VerdictOfReplay == ASSUME ReplayInv PROVE VerdictIsExact
<1> SUFFICES ASSUME step = "done" PROVE VerdictIsExact
  BY DEF VerdictIsExact
<1>1. /\ Typed(at, step, installed, runs, failures) /\ Grouping(installed, runs, Len(file))
      /\ at = Len(runs) + 1 /\ failures = Misplaced \cup Failing(runs, at - 1)
  BY DEF ReplayInv, StateInv
<1>2. /\ runs \in Seq(PacketRun) /\ DOMAIN runs = 1 .. Len(runs) /\ Len(runs) \in Nat
      /\ DOMAIN file = 1 .. Len(file) /\ Len(file) \in Nat
      /\ \A r \in DOMAIN runs : runs[r] \in PacketRun
  BY <1>1, LenProperties, ElementOfSeq DEF Typed
<1>3. UpTo(PacketLines, Len(file)) = PacketLines /\ \A p : UpTo(ClaimsOn(p), Len(file)) = ClaimsOn(p)
  BY <1>2 DEF UpTo, PacketLines, ClaimsOn, LinesOn
<1>4. Lists([r \in DOMAIN runs |-> runs[r].packet], PacketLines)
  BY <1>1, <1>3 DEF Grouping, Packets
<1>5. ASSUME NEW r \in DOMAIN runs PROVE Claimed(runs[r]) <=> Compare(runs[r], runs[r].outputs) = {}
  <2> DEFINE run == runs[r]
             outputs == run.outputs
             S == ClaimsOn(run.packet)
             Fits(ls) == \A i \in DOMAIN ls : /\ outputs[i].port = file[ls[i]].port
                                              /\ Matches(file[ls[i]], outputs[i].data)
  <2>1. run \in PacketRun
    BY <1>2
  <2>2. outputs \in Seq(Emitted) /\ run.expects \in Seq(Nat)
    BY <2>1 DEF PacketRun
  <2>3. /\ DOMAIN run.expects = 1 .. Len(run.expects) /\ Len(run.expects) \in Nat
        /\ DOMAIN outputs = 1 .. Len(outputs) /\ Len(outputs) \in Nat
    BY <2>2, LenProperties
  <2>4. Lists(run.expects, S)
    BY <1>1, <1>3 DEF Grouping
  <2>5. Compare(run, outputs) = {} <=> Len(outputs) = Len(run.expects)
           /\ \A j \in 1 .. Len(outputs) : /\ outputs[j].port = file[run.expects[j]].port
                                           /\ Matches(file[run.expects[j]], outputs[j].data)
    <3> HIDE DEF run, outputs
    <3> QED BY <2>1, <2>2, FailsNone
  <2>6. Claimed(run) <=> \E claims \in [DOMAIN outputs -> S] : Lists(claims, S) /\ Fits(claims)
    BY DEF Claimed
  <2> HIDE DEF run, outputs
  <2>7. ASSUME Compare(run, outputs) = {} PROVE \E claims \in [DOMAIN outputs -> S] : Lists(claims, S) /\ Fits(claims)
    <3>1. Len(outputs) = Len(run.expects) /\ DOMAIN run.expects = DOMAIN outputs
      BY <2>3, <2>5, <2>7
    <3>2. run.expects \in [DOMAIN outputs -> S]
      <4>1. \A i \in DOMAIN run.expects : run.expects[i] \in S
        BY <2>4 DEF Lists
      <4>2. run.expects \in [DOMAIN run.expects -> Nat]
        BY <2>2, LenProperties
      <4> QED BY <3>1, <4>1, <4>2
    <3>3. Fits(run.expects)
      BY <2>3, <2>5, <2>7, <3>1
    <3> HIDE DEF S, Fits
    <3> QED BY <2>4, <3>2, <3>3
  <2>8. ASSUME NEW claims \in [DOMAIN outputs -> S], Lists(claims, S), Fits(claims)
        PROVE  Compare(run, outputs) = {}
    <3>1. claims \in Seq(Nat) /\ Len(claims) = Len(outputs)
      <4>1. S \subseteq Nat
        BY <1>2 DEF ClaimsOn, LinesOn
      <4>2. claims \in [1 .. Len(outputs) -> Nat]
        BY <2>3, <2>8, <4>1
      <4>3. claims \in Seq(Nat)
        BY <2>3, <4>2, SeqDef
      <4>4. DOMAIN claims = 1 .. Len(outputs)
        BY <4>2
      <4>5. Len(claims) = Len(outputs)
        BY <2>3, <4>3, <4>4, LenProperties
      <4> QED BY <4>3, <4>5
    <3>2. Len(claims) = Len(run.expects) /\ \A i \in 1 .. Len(claims) : claims[i] = run.expects[i]
      <4> HIDE DEF S
      <4> QED BY <2>2, <2>4, <2>8, <3>1, ListedOnce
    <3>3. DOMAIN claims = 1 .. Len(outputs)
      BY <2>3
    <3> QED BY <2>5, <2>8, <3>1, <3>2, <3>3
  <2> HIDE DEF Fits, S
  <2>9. Claimed(run) <=> Compare(run, outputs) = {}
    BY <2>6, <2>7, <2>8
  <2> QED BY <2>9 DEF run, outputs
<1>6. Failing(runs, at - 1) = {} <=> \A r \in DOMAIN runs : Claimed(runs[r])
  <2>1. at - 1 = Len(runs)
    BY <1>1, <1>2
  <2>2. ASSUME NEW r \in DOMAIN runs PROVE Compare(runs[r], runs[r].outputs) \in SUBSET Nat
    BY <1>2, ComparedLines
  <2>3. Failing(runs, Len(runs)) = {} <=> \A r \in DOMAIN runs : Compare(runs[r], runs[r].outputs) = {}
    BY <1>2, <2>2 DEF Failing
  <2> QED BY <1>5, <2>1, <2>3
<1>7. (\A r \in DOMAIN runs : Claimed(runs[r])) =>
        (Misplaced = {} <=>
           /\ \A r \in DOMAIN runs : DropsKept(runs[r])
           /\ \A l \in DOMAIN file : file[l].is \in {"expect", "no_packet"} => AboutAPacket(l))
  BY <1>1, <1>2, <1>4, PlacedAsKept DEF Typed
<1>8. failures = {} <=> Misplaced = {} /\ Failing(runs, at - 1) = {}
  BY <1>1
<1> QED BY <1>4, <1>6, <1>7, <1>8 DEF VerdictIsExact

(* Every packet of a file is run once, in order, and the file passes exactly   *)
(* when each packet's outputs are what the lines about it claim, but for a     *)
(* no_packet that expects follow, and every claim is about a packet (stf.py    *)
(* "Replay", _runs, _compare).                                                 *)
THEOREM VerdictAlwaysExact == ReplaySpec => []VerdictIsExact
BY ReplayInvariant, VerdictOfReplay, PTL

=============================================================================
