------------------------- MODULE ApplicationProofs -------------------------
(***************************************************************************)
(* Proofs about Application: what waits in the logger's queue, at every    *)
(* step of the main thread, of the worker and of a fault, for every        *)
(* program, every command line and every stack; and what parse() makes of  *)
(* a command line, compared with what the line says position by position.  *)
(***************************************************************************)
EXTENDS Application, SequenceTheorems, FiniteSetTheorems, WellFoundedInduction, TLAPS

\* Where the main thread is while all it has logged is printed.
Quiet == {"preinit", "options", "parse", "build_type", "progress"}

Messages == [owner : Owners, by_ref : BOOLEAN]

\* What a fault changes: where the main thread may be.
PlaceInv ==
  /\ fault = "none" =>
       pc \in Quiet \cup {"flush", "returned", "exiting", "exited"}
  /\ fault # "none" => pc \in {"report", "flush", "stop", "exited", "killed"}
  /\ pc = "flush" =>
       IF fault = "none" THEN then \in {"parse", "build_type", "progress", "returned"}
       ELSE then = "stop"

\* Until a fault the worker runs from the registration of the logger on.
WorkerInv ==
  /\ pc \in (Quiet \ {"preinit"}) \cup {"returned", "exiting"} => worker = "running"
  /\ pc = "flush" /\ fault = "none" => worker = "running"

\* The messages that wait: one at most before a fault, the text of a check and
\* the report behind it.
QueueInv ==
  /\ queue \in Seq(Messages)
  /\ pc \in Quiet => queue = << >>
  /\ pc \in {"returned", "exiting"} =>
       Len(queue) <= 1 /\ \A k \in 1 .. Len(queue) : ~ queue[k].by_ref
  /\ pc = "flush" => Len(queue) <= IF fault = "none" THEN 1 ELSE 3
  /\ pc = "report" => Len(queue) <= 2

\* What a waiting message refers to is alive.
LiveInv ==
  worker = "running" =>
    \A k \in 1 .. Len(queue) :
      queue[k].by_ref => queue[k].owner \in live \cup {"check"}

IInv == PlaceInv /\ WorkerInv /\ QueueInv /\ LiveInv /\ dropped = 0

-----------------------------------------------------------------------------
(* The logger *)

\* With room in the queue a message is appended, and none is dropped.
LEMMA LogAppends ==
  ASSUME NEW owner \in Owners, NEW by_ref \in BOOLEAN, QueueSize >= 3,
         queue \in Seq(Messages), Len(queue) <= 2, Log(owner, by_ref)
  PROVE  LET message == [owner |-> owner, by_ref |-> by_ref]
         IN  /\ message \in Messages
             /\ queue' = Append(queue, message)
             /\ queue' \in Seq(Messages)
             /\ Len(queue') = Len(queue) + 1
             /\ queue'[Len(queue) + 1] = message
             /\ \A k \in 1 .. Len(queue) : queue'[k] = queue[k]
             /\ dropped' = dropped /\ worker' = worker
<1> DEFINE message == [owner |-> owner, by_ref |-> by_ref]
<1>1. Len(queue) \in Nat /\ QueueSize \in Nat
  BY ApplicationAssumption
<1>2. Len(queue) < QueueSize
  BY <1>1
<1>3. queue' = Append(queue, message) /\ dropped' = dropped /\ worker' = worker
  BY <1>2 DEF Log, LogTo
<1>4. message \in Messages
  BY DEF Messages
<1> HIDE DEF message
<1>5. /\ queue' \in Seq(Messages)
      /\ Len(queue') = Len(queue) + 1
      /\ queue'[Len(queue) + 1] = message
      /\ \A k \in 1 .. Len(queue) : queue'[k] = queue[k]
  BY <1>3, <1>4
<1> USE DEF message
<1>6. QED
  BY <1>3, <1>4, <1>5

\* A message that refers to a string of the function, logged to an empty queue
\* or to one whose messages stay alive.
LEMMA LogRefStep ==
  ASSUME NEW owner \in Owners, NEW next, QueueSize >= 3, IInv,
         Len(queue) <= 2, LogRefAndFlush(owner, next)
  PROVE  /\ queue' \in Seq(Messages) /\ Len(queue') = Len(queue) + 1
         /\ pc' = "flush" /\ then' = next
         /\ dropped' = 0 /\ worker' = worker
         /\ LiveInv'
<1> DEFINE message == [owner |-> owner, by_ref |-> TRUE]
<1>1. /\ queue' \in Seq(Messages)
      /\ Len(queue') = Len(queue) + 1
      /\ queue'[Len(queue) + 1] = message
      /\ \A k \in 1 .. Len(queue) : queue'[k] = queue[k]
      /\ dropped' = dropped /\ worker' = worker
  BY LogAppends DEF LogRefAndFlush, IInv, QueueInv
<1>2. pc' = "flush" /\ then' = next /\ live' = live \cup {owner}
  BY DEF LogRefAndFlush
<1>3. LiveInv'
  <2> SUFFICES ASSUME worker' = "running", NEW k \in 1 .. Len(queue'), queue'[k].by_ref
               PROVE  queue'[k].owner \in live' \cup {"check"}
    BY DEF LiveInv
  <2>1. Len(queue) \in Nat
    BY DEF IInv, QueueInv
  <2>2. CASE k = Len(queue) + 1
    BY <1>1, <1>2, <2>2
  <2>3. CASE k \in 1 .. Len(queue)
    BY <1>1, <1>2, <2>3 DEF IInv, LiveInv
  <2>4. QED
    BY <1>1, <2>1, <2>2, <2>3
<1>4. QED
  BY <1>1, <1>2, <1>3 DEF IInv

-----------------------------------------------------------------------------
(* The steps of the main thread *)

LEMMA InitHolds == Init => IInv
<1> SUFFICES ASSUME Init PROVE IInv
  OBVIOUS
<1>1. queue = << >> /\ pc = "preinit" /\ fault = "none" /\ worker = "none" /\ dropped = 0
  BY DEF Init
<1>2. queue \in Seq(Messages) /\ Len(queue) = 0
  BY <1>1
<1>3. QED
  BY <1>1, <1>2 DEF IInv, PlaceInv, WorkerInv, QueueInv, LiveInv, Quiet

\* A step that leaves the queue, which is empty, the worker and the fault alone.
LEMMA QuietStep ==
  ASSUME IInv, fault = "none", queue = << >>, worker = "running",
         UNCHANGED <<queue, worker, dropped, fault>>,
         pc' \in Quiet \cup {"returned"}
  PROVE  IInv'
<1>1. queue' = << >> /\ queue' \in Seq(Messages) /\ Len(queue') = 0
  OBVIOUS
<1>2. PlaceInv'
  BY DEF PlaceInv, Quiet
<1>3. WorkerInv'
  BY DEF WorkerInv, Quiet
<1>4. QueueInv'
  BY <1>1 DEF QueueInv, Quiet
<1>5. LiveInv'
  BY <1>1 DEF LiveInv
<1>6. QED
  BY <1>2, <1>3, <1>4, <1>5 DEF IInv

\* A step of parse(), of the build type or of the progress that logs by
\* reference and flushes.
LEMMA RefStep ==
  ASSUME QueueSize >= 3, IInv, fault = "none", pc \in Quiet \ {"preinit"},
         UNCHANGED fault, NEW owner \in Owners,
         NEW next \in {"parse", "build_type", "progress", "returned"},
         LogRefAndFlush(owner, next)
  PROVE  IInv'
<1>1. queue = << >> /\ Len(queue) = 0 /\ worker = "running"
  BY DEF IInv, QueueInv, WorkerInv
<1>2. /\ queue' \in Seq(Messages) /\ Len(queue') = 1
      /\ pc' = "flush" /\ then' = next
      /\ dropped' = 0 /\ worker' = worker /\ LiveInv'
  BY <1>1, LogRefStep
<1>3. PlaceInv'
  BY <1>2 DEF PlaceInv
<1>4. WorkerInv'
  BY <1>1, <1>2 DEF WorkerInv, Quiet
<1>5. QueueInv'
  BY <1>2 DEF QueueInv, Quiet
<1>6. QED
  BY <1>2, <1>3, <1>4, <1>5 DEF IInv

\* What is known where the main thread has not met a fault.
LEMMA QuietFacts ==
  ASSUME IInv, pc \in Quiet
  PROVE  /\ fault = "none" /\ queue = << >> /\ dropped = 0
         /\ pc # "preinit" => worker = "running"
BY DEF IInv, PlaceInv, QueueInv, WorkerInv, Quiet

LEMMA RegisterStep == IInv /\ Register => IInv'
<1> SUFFICES ASSUME IInv, Register PROVE IInv'
  OBVIOUS
<1>1. pc = "preinit" /\ fault = "none" /\ queue = << >>
  BY QuietFacts DEF Register, Quiet
<1>2. UNCHANGED <<queue, dropped, fault>>
  BY DEF Register
<1>3. CASE setup + 1 = Len(Registrations)
  <2>1. Registrations[setup + 1] = "glog" /\ pc' = "options"
    BY <1>3 DEF Register, Registrations
  <2>2. worker' = "running"
    BY <2>1 DEF Register
  <2>3. QED
    BY <1>1, <1>2, <2>1, <2>2
       DEF IInv, PlaceInv, QueueInv, WorkerInv, LiveInv, Quiet
<1>4. CASE setup + 1 # Len(Registrations)
  <2>1. pc' = "preinit"
    BY <1>1, <1>4 DEF Register
  <2>2. QED
    BY <1>1, <1>2, <2>1
       DEF IInv, PlaceInv, QueueInv, WorkerInv, LiveInv, Quiet
<1>5. QED
  BY <1>3, <1>4

LEMMA SetupOptionsStep == IInv /\ SetupOptions => IInv'
<1> SUFFICES ASSUME IInv, SetupOptions PROVE IInv'
  OBVIOUS
<1>1. pc = "options" /\ pc' \in {"returned", "parse"}
  BY DEF SetupOptions
<1>2. UNCHANGED <<queue, worker, dropped, fault>>
  BY DEF SetupOptions, logger
<1>3. QED
  BY <1>1, <1>2, QuietFacts, QuietStep DEF Quiet

LEMMA ParseStep ==
  ASSUME QueueSize >= 3, IInv, pc = "parse", NEW p, ParseBecomes(p)
  PROVE  IInv'
<1>1. UNCHANGED fault /\ Parsing(p) \in {"parse", "build_type", "returned"}
  BY DEF ParseBecomes, Parsing
<1>2. fault = "none" /\ queue = << >> /\ worker = "running" /\ pc \in Quiet \ {"preinit"}
  BY QuietFacts DEF Quiet
<1>3. CASE Prints(p) = "copy"
  <2>1. pc' = Parsing(p) /\ UNCHANGED <<queue, worker, dropped>>
    BY <1>3 DEF ParseBecomes, logger
  <2>2. QED
    BY <1>1, <1>2, <2>1, QuietStep DEF Quiet
<1>4. CASE Prints(p) # "copy"
  <2>1. LogRefAndFlush(Prints(p), Parsing(p))
    BY <1>4 DEF ParseBecomes
  <2>2. Prints(p) \in Owners
    BY DEF Prints, Owners
  <2>3. QED
    BY <1>1, <1>2, <2>1, <2>2, RefStep
<1>5. QED
  BY <1>3, <1>4

LEMMA WarnOfValueStep == ASSUME QueueSize >= 3, IInv, WarnOfValue PROVE IInv'
<1>1. pc = "parse" /\ UNCHANGED fault /\ LogRefAndFlush("warning", "parse")
  BY DEF WarnOfValue
<1>2. QED
  BY <1>1, QuietFacts, RefStep DEF Quiet, Owners

LEMMA ChooseBuildTypeStep ==
  ASSUME QueueSize >= 3, IInv, ChooseBuildType
  PROVE  IInv'
<1>1. pc = "build_type" /\ UNCHANGED fault
  BY DEF ChooseBuildType
<1>2. fault = "none" /\ queue = << >> /\ worker = "running" /\ pc \in Quiet \ {"preinit"}
  BY <1>1, QuietFacts DEF Quiet
<1>3. CASE /\ pc' \in {"returned", "progress"}
           /\ UNCHANGED <<queue, worker, dropped>>
  BY <1>1, <1>2, <1>3, QuietStep DEF Quiet
<1>4. CASE LogRefAndFlush("options", "progress")
  BY <1>1, <1>2, <1>4, RefStep DEF Owners
<1>5. QED
  BY <1>3, <1>4 DEF ChooseBuildType, logger

LEMMA UpdateProgressStep ==
  ASSUME QueueSize >= 3, IInv, UpdateProgress
  PROVE  IInv'
<1>1. /\ pc = "progress" /\ UNCHANGED fault
      /\ LogRefAndFlush("progress", "progress")
  BY DEF UpdateProgress
<1>2. QED
  BY <1>1, QuietFacts, RefStep DEF Quiet, Owners

LEMMA FinishProgressStep ==
  ASSUME QueueSize >= 3, IInv, FinishProgress
  PROVE  IInv'
<1>1. /\ pc = "progress" /\ pc' = "returned" /\ UNCHANGED <<fault, live>>
      /\ Log("completed", FALSE)
  BY DEF FinishProgress
<1>2. /\ fault = "none" /\ queue = << >> /\ Len(queue) = 0
      /\ worker = "running" /\ queue \in Seq(Messages)
  BY <1>1, QuietFacts DEF Quiet
<1>3. /\ queue' \in Seq(Messages) /\ Len(queue') = 1
      /\ queue'[1] = [owner |-> "completed", by_ref |-> FALSE]
      /\ dropped' = dropped /\ worker' = worker
  <2>1. "completed" \in Owners /\ FALSE \in BOOLEAN /\ Len(queue) <= 2
    BY <1>2 DEF Owners
  <2>2. /\ queue' = Append(queue, [owner |-> "completed", by_ref |-> FALSE])
        /\ queue' \in Seq(Messages)
        /\ Len(queue') = Len(queue) + 1
        /\ queue'[Len(queue) + 1] = [owner |-> "completed", by_ref |-> FALSE]
        /\ dropped' = dropped /\ worker' = worker
    BY <1>1, <1>2, <2>1, LogAppends
  <2>3. QED
    BY <1>2, <2>2
<1>4. \A k \in 1 .. Len(queue') : ~ queue'[k].by_ref
  BY <1>3
<1>5. QueueInv'
  BY <1>1, <1>3, <1>4 DEF QueueInv, Quiet
<1>6. LiveInv'
  BY <1>4 DEF LiveInv
<1>7. PlaceInv' /\ WorkerInv'
  BY <1>1, <1>2, <1>3 DEF PlaceInv, WorkerInv, Quiet
<1>8. QED
  BY <1>3, <1>5, <1>6, <1>7 DEF IInv

LEMMA ReturnStep == IInv /\ Return => IInv'
<1> SUFFICES ASSUME IInv, Return PROVE IInv'
  OBVIOUS
<1>1. dropped = 0
  BY DEF IInv
<1>2. /\ pc = "returned" /\ pc' = "exiting"
      /\ UNCHANGED <<fault, live, queue, worker, dropped>>
  BY <1>1 DEF Return, logger
<1>3. QED
  BY <1>2 DEF IInv, PlaceInv, WorkerInv, QueueInv, LiveInv, Quiet

LEMMA ExitStep == IInv /\ Exit => IInv'
<1> SUFFICES ASSUME IInv, Exit PROVE IInv'
  OBVIOUS
<1>1. /\ pc = "exiting" /\ pc' = "exited" /\ worker' = "stopped"
      /\ UNCHANGED <<fault, live, queue, dropped>>
  BY DEF Exit
<1>2. QED
  BY <1>1 DEF IInv, PlaceInv, WorkerInv, QueueInv, LiveInv, Quiet

\* flush() returns to a function whose messages are all printed.
LEMMA FlushEndsStep == IInv /\ FlushEnds => IInv'
<1> SUFFICES ASSUME IInv, FlushEnds PROVE IInv'
  OBVIOUS
<1>1. /\ pc = "flush" /\ pc' = then /\ FlushReturns
      /\ UNCHANGED <<fault, queue, worker, dropped>>
  BY DEF FlushEnds, logger
<1>2. CASE fault = "none"
  <2>1. worker = "running" /\ queue = << >>
    BY <1>1, <1>2 DEF IInv, WorkerInv, FlushReturns
  <2>2. then \in {"parse", "build_type", "progress", "returned"}
    BY <1>1, <1>2 DEF IInv, PlaceInv
  <2>3. QED
    BY <1>1, <1>2, <2>1, <2>2, QuietStep DEF Quiet
<1>3. CASE fault # "none"
  <2>1. pc' = "stop"
    BY <1>1, <1>3 DEF IInv, PlaceInv
  <2>2. LiveInv'
    <3>1. worker = "running" => queue = << >>
      BY <1>1 DEF FlushReturns
    <3>2. QED
      BY <1>1, <3>1 DEF LiveInv
  <2>3. QED
    BY <1>1, <1>3, <2>1, <2>2 DEF IInv, PlaceInv, WorkerInv, QueueInv, Quiet
<1>4. QED
  BY <1>2, <1>3

LEMMA ReportFaultStep ==
  ASSUME QueueSize >= 3, IInv, ReportFault
  PROVE  IInv'
<1>1. /\ pc = "report" /\ UNCHANGED fault
      /\ LogRefAndFlush("report", "stop")
  BY DEF ReportFault
<1>2. fault # "none" /\ Len(queue) <= 2 /\ queue \in Seq(Messages)
  BY <1>1 DEF IInv, PlaceInv, QueueInv, Quiet
<1>3. /\ queue' \in Seq(Messages) /\ Len(queue') = Len(queue) + 1
      /\ pc' = "flush" /\ then' = "stop"
      /\ dropped' = 0 /\ worker' = worker /\ LiveInv'
  BY <1>1, <1>2, LogRefStep DEF Owners
<1>4. Len(queue') <= 3
  BY <1>2, <1>3
<1>5. PlaceInv'
  BY <1>1, <1>2, <1>3 DEF PlaceInv
<1>6. WorkerInv' /\ QueueInv'
  BY <1>1, <1>2, <1>3, <1>4 DEF WorkerInv, QueueInv, Quiet
<1>7. QED
  BY <1>3, <1>5, <1>6 DEF IInv

LEMMA StopAndExitStep == IInv /\ StopAndExit => IInv'
<1> SUFFICES ASSUME IInv, StopAndExit PROVE IInv'
  OBVIOUS
<1>1. /\ pc = "stop" /\ pc' = "exited" /\ worker' = "stopped"
      /\ UNCHANGED <<fault, live, queue, dropped>>
  BY DEF StopAndExit
<1>2. fault # "none"
  BY <1>1 DEF IInv, PlaceInv, Quiet
<1>3. QED
  BY <1>1, <1>2 DEF IInv, PlaceInv, WorkerInv, QueueInv, LiveInv, Quiet

-----------------------------------------------------------------------------
(* The worker and the fault *)

LEMMA WorkerStep == IInv /\ WorkerPrints => IInv'
<1> SUFFICES ASSUME IInv, WorkerPrints PROVE IInv'
  OBVIOUS
<1>1. /\ queue # << >> /\ queue' = Tail(queue)
      /\ UNCHANGED <<pc, then, fault, live, worker, dropped>>
  BY DEF WorkerPrints
<1>2. queue \in Seq(Messages) /\ Len(queue) \in Nat
  BY DEF IInv, QueueInv
<1>3. /\ queue' \in Seq(Messages) /\ Len(queue') = Len(queue) - 1
      /\ \A k \in 1 .. Len(queue') : queue'[k] = queue[k + 1] /\ k + 1 \in 1 .. Len(queue)
  BY <1>1, <1>2
<1>4. Len(queue') \in Nat /\ Len(queue') <= Len(queue)
  BY <1>2, <1>3
<1>5. PlaceInv' /\ WorkerInv'
  BY <1>1 DEF IInv, PlaceInv, WorkerInv
<1>6. QueueInv'
  <2>1. pc \notin Quiet
    BY <1>1 DEF IInv, QueueInv
  <2>2. pc \in {"returned", "exiting"} =>
          Len(queue') <= 1 /\ \A k \in 1 .. Len(queue') : ~ queue'[k].by_ref
    BY <1>2, <1>3, <1>4 DEF IInv, QueueInv
  <2>3. pc = "flush" => Len(queue') <= IF fault = "none" THEN 1 ELSE 3
    BY <1>2, <1>4 DEF IInv, QueueInv
  <2>4. pc = "report" => Len(queue') <= 2
    BY <1>2, <1>4 DEF IInv, QueueInv
  <2>5. QED
    BY <1>1, <1>3, <2>1, <2>2, <2>3, <2>4 DEF QueueInv
<1>7. LiveInv'
  BY <1>1, <1>3 DEF IInv, LiveInv
<1>8. QED
  BY <1>1, <1>5, <1>6, <1>7 DEF IInv

\* A fault finds one message at most, and a failed check adds its text.
LEMMA FaultStep ==
  ASSUME QueueSize >= 3, IInv, NEW kind \in FaultKinds, NEW stack, Fault(kind, stack)
  PROVE  IInv'
<1>1. /\ fault = "none" /\ pc # "exited" /\ fault' = kind
      /\ pc' \in {"report", "killed"} /\ UNCHANGED live
      /\ worker' = IF pc' = "report" THEN worker ELSE "stopped"
  BY DEF Fault
<1>2. fault' # "none"
  BY <1>1 DEF FaultKinds
<1>3. queue \in Seq(Messages) /\ Len(queue) \in Nat
  BY DEF IInv, QueueInv
<1>4. Len(queue) <= 1
  <2>1. CASE pc \in Quiet
    <3>1. queue = << >>
      BY <2>1 DEF IInv, QueueInv
    <3>2. Len(queue) = 0
      BY <3>1
    <3>3. QED
      BY <3>2
  <2>2. CASE pc \in {"flush", "returned", "exiting"}
    BY <1>1, <2>2 DEF IInv, QueueInv
  <2>3. QED
    BY <1>1, <2>1, <2>2 DEF IInv, PlaceInv
<1>5. /\ queue' \in Seq(Messages) /\ Len(queue') <= 2 /\ dropped' = 0
      /\ \A k \in 1 .. Len(queue') :
           \/ k \in 1 .. Len(queue) /\ queue'[k] = queue[k]
           \/ queue'[k].owner = "check"
  <2>1. CASE kind = "check"
    <3>1. Log("check", TRUE)
      BY <2>1 DEF Fault
    <3>2. "check" \in Owners /\ TRUE \in BOOLEAN /\ Len(queue) <= 2
      BY <1>3, <1>4 DEF Owners
    <3>3. /\ queue' \in Seq(Messages) /\ Len(queue') = Len(queue) + 1
          /\ queue'[Len(queue) + 1] = [owner |-> "check", by_ref |-> TRUE]
          /\ \A k \in 1 .. Len(queue) : queue'[k] = queue[k]
          /\ dropped' = dropped
      BY <1>3, <3>1, <3>2, LogAppends
    <3>4. QED
      BY <1>3, <1>4, <3>3 DEF IInv
  <2>2. CASE kind # "check"
    <3>1. queue' = queue /\ dropped' = dropped
      BY <2>2 DEF Fault
    <3>2. QED
      BY <1>3, <1>4, <3>1 DEF IInv
  <2>3. QED
    BY <2>1, <2>2
<1>6. LiveInv'
  <2> SUFFICES ASSUME worker' = "running", NEW k \in 1 .. Len(queue'), queue'[k].by_ref
               PROVE  queue'[k].owner \in live' \cup {"check"}
    BY DEF LiveInv
  <2>1. worker = "running"
    BY <1>1
  <2>2. QED
    BY <1>1, <1>5, <2>1 DEF IInv, LiveInv
<1>7. PlaceInv'
  BY <1>1, <1>2 DEF PlaceInv
<1>8. WorkerInv' /\ QueueInv'
  BY <1>1, <1>2, <1>5 DEF WorkerInv, QueueInv, Quiet
<1>9. QED
  BY <1>5, <1>6, <1>7, <1>8 DEF IInv

LEMMA NextHolds == ASSUME QueueSize >= 3 PROVE IInv /\ [Next]_vars => IInv'
<1> SUFFICES ASSUME IInv, [Next]_vars PROVE IInv'
  OBVIOUS
<1>1. CASE Register \/ SetupOptions \/ WarnOfValue
  BY <1>1, RegisterStep, SetupOptionsStep, WarnOfValueStep
<1>2. CASE ParseArgument \/ ParseEnds
  BY <1>2, ParseStep DEF ParseArgument, ParseEnds
<1>3. CASE ChooseBuildType \/ UpdateProgress \/ FinishProgress
  BY <1>3, ChooseBuildTypeStep, UpdateProgressStep, FinishProgressStep
<1>4. CASE Return \/ Exit \/ FlushEnds \/ ReportFault \/ StopAndExit
  BY <1>4, ReturnStep, ExitStep, FlushEndsStep, ReportFaultStep, StopAndExitStep
<1>5. CASE WorkerPrints
  BY <1>5, WorkerStep
<1>6. ASSUME NEW kind \in FaultKinds, NEW stack \in Stacks, Fault(kind, stack)
      PROVE  IInv'
  BY <1>6, FaultStep
<1>7. CASE UNCHANGED vars
  BY <1>7 DEF vars, logger, IInv, PlaceInv, WorkerInv, QueueInv, LiveInv
<1>8. QED
  BY <1>1, <1>2, <1>3, <1>4, <1>5, <1>6, <1>7 DEF Next, MainThread, Ended

\* A message that was logged by reference and is still to be printed waits
\* while what it refers to is alive, and no message is dropped, whatever the
\* command line, the stacks and the place of a fault, if the queue of the logger
\* has room for three messages: one of the program, the text of a check and the
\* report.
THEOREM RefsCorrect == ASSUME QueueSize >= 3 PROVE Spec => []RefsAlive
<1>1. IInv => RefsAlive
  <2> SUFFICES ASSUME IInv PROVE RefsAlive
    OBVIOUS
  <2>1. queue \in Seq(Messages)
    BY DEF IInv, QueueInv
  <2>2. DOMAIN queue = 1 .. Len(queue)
    BY <2>1
  <2>3. QED
    BY <2>2 DEF RefsAlive, IInv, LiveInv
<1>2. QED
  BY InitHolds, NextHolds, <1>1, PTL DEF Spec

-----------------------------------------------------------------------------
(* The report of a fault *)

\* A nonempty set of naturals has a least element.
LEMMA Least ==
  ASSUME NEW T, T \subseteq Nat, T # {}
  PROVE  \E x \in T : \A y \in T : x <= y
<1>1. PICK x \in T : \A y \in T : ~ (<<y, x>> \in OpToRel(<, Nat))
  BY NatLessThanWellFounded, WFMin, Zenon
<1>2. ASSUME NEW y \in T PROVE ~ (y < x)
  BY <1>1, <1>2 DEF OpToRel
<1>3. \A y \in T : x <= y
  BY <1>2
<1>4. QED
  BY <1>3

Entries == [index : Int, length : Nat]

\* The loop over the frames, turn by turn.
LEMMA CollectedIs ==
  ASSUME NEW stack, NEW first \in Nat, NEW frames \in Nat
  PROVE  LET collected == Collected(stack, first, frames)
         IN  \A i \in 0 .. frames :
               collected[i] =
                 IF i <= first THEN << >>
                 ELSE IF IsValidAddress(stack[i])
                      THEN Append(collected[i - 1],
                                  [index |-> i - 1 - first, length |-> stack[i]])
                 ELSE collected[i - 1]
<1> DEFINE Turn(f, i) == IF i <= first THEN << >>
                         ELSE IF IsValidAddress(stack[i])
                              THEN Append(f[i - 1],
                                          [index |-> i - 1 - first, length |-> stack[i]])
                         ELSE f[i - 1]
           Exists(n) == \E f : f = [i \in 0 .. n |-> Turn(f, i)]
           Missing == {n \in Nat : ~ Exists(n)}
<1>1. Collected(stack, first, frames) = CHOOSE f : f = [i \in 0 .. frames |-> Turn(f, i)]
  BY DEF Collected
<1>2. \A f, g, i, j : f[i - 1] = g[i - 1] => Turn(f, i) = Turn(g, i)
  OBVIOUS
<1>3. \A f : Turn(f, 0) = << >>
  OBVIOUS
<1> HIDE DEF Turn
<1>4. Missing = {}
  <2> SUFFICES ASSUME Missing # {} PROVE FALSE
    OBVIOUS
  <2>1. PICK n \in Missing : \A m \in Missing : n <= m
    BY Least
  <2>2. n # 0
    <3> DEFINE f == [i \in 0 .. 0 |-> << >>]
    <3>1. f = [i \in 0 .. 0 |-> Turn(f, i)]
      BY <1>3
    <3>2. QED
      BY <2>1, <3>1
  <2>3. n \in Nat /\ n - 1 \in Nat /\ n - 1 \notin Missing
    BY <2>1, <2>2
  <2>4. PICK f : f = [i \in 0 .. n - 1 |-> Turn(f, i)]
    BY <2>3
  <2> DEFINE g == [i \in 0 .. n |-> IF i = n THEN Turn(f, n) ELSE f[i]]
  <2>5. \A i \in 0 .. n : g[i] = Turn(g, i)
    <3> SUFFICES ASSUME NEW i \in 0 .. n PROVE g[i] = Turn(g, i)
      OBVIOUS
    <3>1. CASE i = 0
      BY <1>3, <2>2, <2>3, <2>4, <3>1
    <3>2. CASE i # 0
      <4>1. i - 1 \in 0 .. n - 1 /\ i - 1 \in 0 .. n /\ i - 1 # n
        BY <2>3, <3>2
      <4>2. g[i - 1] = f[i - 1]
        BY <4>1
      <4>3. Turn(g, i) = Turn(f, i)
        BY <1>2, <4>2
      <4>4. g[i] = Turn(f, i)
        <5>1. CASE i = n
          BY <5>1
        <5>2. CASE i # n
          <6>1. i \in 0 .. n - 1
            BY <2>3, <5>2
          <6>2. QED
            BY <2>4, <5>2, <6>1
        <5>3. QED
          BY <5>1, <5>2
      <4>5. QED
        BY <4>3, <4>4
    <3>3. QED
      BY <3>1, <3>2
  <2>6. g = [i \in 0 .. n |-> Turn(g, i)]
    BY <2>5
  <2>7. QED
    BY <2>1, <2>6
<1>5. Exists(frames)
  BY <1>4
<1>6. Collected(stack, first, frames)
        = [i \in 0 .. frames |-> Turn(Collected(stack, first, frames), i)]
  BY <1>1, <1>5
<1>7. \A i \in 0 .. frames :
        Collected(stack, first, frames)[i] = Turn(Collected(stack, first, frames), i)
  BY <1>6
<1>8. QED
  BY <1>7 DEF Turn

\* No more entries are collected than frames are looked at.
LEMMA CollectStackTraceTyped ==
  ASSUME NEW stack \in Seq(Nat), NEW first_frame \in Nat, NEW max_frames \in Nat
  PROVE  LET entries == CollectStackTrace(stack, first_frame, max_frames)
         IN  entries \in Seq(Entries) /\ Len(entries) <= kPlatformMaxFrames
<1> DEFINE most == AtMost(max_frames, kPlatformMaxFrames)
           first == AtMost(first_frame, most)
           frames == AtMost(Len(stack), most)
           collected == Collected(stack, first, frames)
           Bad == {i \in 0 .. frames : ~ (/\ collected[i] \in Seq(Entries)
                                          /\ Len(collected[i]) <= i)}
<1>1. /\ most \in Nat /\ first \in Nat /\ frames \in Nat
      /\ most <= kPlatformMaxFrames /\ frames <= most /\ frames <= Len(stack)
      /\ kPlatformMaxFrames \in Nat
  BY StackTraceAssumption DEF AtMost
<1> HIDE DEF most, first, frames
<1>2. \A i \in 0 .. frames :
        collected[i] = IF i <= first THEN << >>
                       ELSE IF IsValidAddress(stack[i])
                            THEN Append(collected[i - 1],
                                        [index |-> i - 1 - first, length |-> stack[i]])
                       ELSE collected[i - 1]
  BY <1>1, CollectedIs
<1> HIDE DEF collected
<1>3. Bad = {}
  <2> SUFFICES ASSUME Bad # {} PROVE FALSE
    OBVIOUS
  <2>1. PICK i \in Bad : \A j \in Bad : i <= j
    <3>1. Bad \subseteq Nat
      BY <1>1
    <3>2. QED
      BY <3>1, Least
  <2>2. i \in 0 .. frames /\ i \in Nat
    BY <1>1, <2>1
  <2>3. << >> \in Seq(Entries) /\ Len(<< >>) = 0
    OBVIOUS
  <2>4. ~ (i <= first)
    <3> SUFFICES ASSUME i <= first PROVE FALSE
      OBVIOUS
    <3>1. collected[i] = << >>
      BY <1>2, <2>2
    <3>2. collected[i] \in Seq(Entries) /\ Len(collected[i]) = 0
      BY <2>3, <3>1
    <3>3. Len(collected[i]) <= i
      BY <2>2, <3>2
    <3>4. QED
      BY <2>1, <3>2, <3>3
  <2>5. i - 1 \in 0 .. frames /\ ~ (i <= i - 1)
    BY <1>1, <2>2, <2>4
  <2>6. collected[i - 1] \in Seq(Entries) /\ Len(collected[i - 1]) <= i - 1
    BY <2>1, <2>5
  <2> DEFINE entry == [index |-> i - 1 - first, length |-> stack[i]]
  <2>7. entry \in Entries
    <3>1. i \in 1 .. Len(stack)
      BY <1>1, <2>2, <2>4
    <3>2. stack[i] \in Nat
      BY <3>1
    <3>3. i - 1 - first \in Int
      BY <1>1, <2>2
    <3>4. QED
      BY <3>2, <3>3 DEF Entries
  <2> HIDE DEF entry
  <2>8. /\ Append(collected[i - 1], entry) \in Seq(Entries)
        /\ Len(Append(collected[i - 1], entry)) = Len(collected[i - 1]) + 1
    BY <2>6, <2>7
  <2>9. collected[i] \in {collected[i - 1], Append(collected[i - 1], entry)}
    BY <1>2, <2>2, <2>4 DEF entry
  <2>10. Len(collected[i - 1]) \in Nat
    BY <2>6
  <2>11. Len(Append(collected[i - 1], entry)) <= i /\ Len(collected[i - 1]) <= i
    BY <2>2, <2>6, <2>8, <2>10
  <2>12. collected[i] \in Seq(Entries) /\ Len(collected[i]) <= i
    BY <2>6, <2>8, <2>9, <2>11
  <2>13. QED
    BY <2>1, <2>12
<1>4. /\ frames \in 0 .. frames
      /\ collected[frames] \in Seq(Entries) /\ Len(collected[frames]) <= frames
  BY <1>1, <1>3
<1>5. Len(collected[frames]) \in Nat
  BY <1>4
<1>6. CollectStackTrace(stack, first_frame, max_frames)
        = IF first >= most THEN << >> ELSE collected[frames]
  BY DEF CollectStackTrace, most, first, frames, collected
<1>7. << >> \in Seq(Entries) /\ Len(<< >>) = 0
  OBVIOUS
<1>8. QED
  BY <1>1, <1>4, <1>5, <1>6, <1>7

\* The loop over the entries, turn by turn.
LEMMA ReportsAre ==
  ASSUME NEW entries, Len(entries) \in Nat
  PROVE  \A i \in 0 .. Len(entries) :
           Reports(entries)[i] = IF i = 0 THEN EmptyReport
                                 ELSE WithLine(Reports(entries)[i - 1], entries[i])
<1> DEFINE Turn(f, i) == IF i = 0 THEN EmptyReport ELSE WithLine(f[i - 1], entries[i])
           Exists(n) == \E f : f = [i \in 0 .. n |-> Turn(f, i)]
           Missing == {n \in Nat : ~ Exists(n)}
           size == Len(entries)
<1>1. Reports(entries) = CHOOSE f : f = [i \in 0 .. size |-> Turn(f, i)]
  BY DEF Reports
<1>2. \A f, g, i : f[i - 1] = g[i - 1] => Turn(f, i) = Turn(g, i)
  OBVIOUS
<1>3. \A f : Turn(f, 0) = EmptyReport
  OBVIOUS
<1> HIDE DEF Turn, size
<1>4. Missing = {}
  <2> SUFFICES ASSUME Missing # {} PROVE FALSE
    OBVIOUS
  <2>1. PICK n \in Missing : \A m \in Missing : n <= m
    BY Least
  <2>2. n # 0
    <3> DEFINE f == [i \in 0 .. 0 |-> EmptyReport]
    <3>1. f = [i \in 0 .. 0 |-> Turn(f, i)]
      BY <1>3
    <3>2. QED
      BY <2>1, <3>1
  <2>3. n \in Nat /\ n - 1 \in Nat /\ n - 1 \notin Missing
    BY <2>1, <2>2
  <2>4. PICK f : f = [i \in 0 .. n - 1 |-> Turn(f, i)]
    BY <2>3
  <2> DEFINE g == [i \in 0 .. n |-> IF i = n THEN Turn(f, n) ELSE f[i]]
  <2>5. \A i \in 0 .. n : g[i] = Turn(g, i)
    <3> SUFFICES ASSUME NEW i \in 0 .. n PROVE g[i] = Turn(g, i)
      OBVIOUS
    <3>1. CASE i = 0
      BY <1>3, <2>2, <2>3, <2>4, <3>1
    <3>2. CASE i # 0
      <4>1. i - 1 \in 0 .. n - 1 /\ i - 1 \in 0 .. n /\ i - 1 # n
        BY <2>3, <3>2
      <4>2. g[i - 1] = f[i - 1]
        BY <4>1
      <4>3. Turn(g, i) = Turn(f, i)
        BY <1>2, <4>2
      <4>4. g[i] = Turn(f, i)
        <5>1. CASE i = n
          BY <5>1
        <5>2. CASE i # n
          <6>1. i \in 0 .. n - 1
            BY <2>3, <5>2
          <6>2. QED
            BY <2>4, <5>2, <6>1
        <5>3. QED
          BY <5>1, <5>2
      <4>5. QED
        BY <4>3, <4>4
    <3>3. QED
      BY <3>1, <3>2
  <2>6. g = [i \in 0 .. n |-> Turn(g, i)]
    BY <2>5
  <2>7. QED
    BY <2>1, <2>6
<1>5. Exists(size)
  BY <1>4 DEF size
<1>6. Reports(entries) = [i \in 0 .. size |-> Turn(Reports(entries), i)]
  BY <1>1, <1>5
<1>7. \A i \in 0 .. size : Reports(entries)[i] = Turn(Reports(entries), i)
  BY <1>6
<1>8. QED
  BY <1>7 DEF Turn, size

\* A report that leaves room for the byte that ends it.
FittingReports ==
  [full : BOOLEAN, lines : Seq(Entries), written : 0 .. kBufSize - 1]

LEMMA WithLineFits ==
  ASSUME NEW r \in FittingReports, NEW entry \in Entries
  PROVE  /\ WithLine(r, entry) \in FittingReports
         /\ Len(r.lines) \in Nat
         /\ Len(WithLine(r, entry).lines) <= Len(r.lines) + 1
<1>1. /\ r.lines \in Seq(Entries) /\ Len(r.lines) \in Nat
      /\ r.written \in 0 .. kBufSize - 1 /\ entry.length \in Nat
      /\ kBufSize \in Nat
  BY StackTraceAssumption DEF FittingReports, Entries
<1>2. CASE r.full \/ ~ LineFits(r.written, entry.length)
  <2>1. WithLine(r, entry) = [r EXCEPT !.full = TRUE]
    BY <1>2 DEF WithLine
  <2>2. WithLine(r, entry) \in FittingReports /\ WithLine(r, entry).lines = r.lines
    BY <2>1 DEF FittingReports
  <2>3. QED
    BY <1>1, <2>2
<1>3. CASE ~ (r.full \/ ~ LineFits(r.written, entry.length))
  <2> DEFINE lines == Append(r.lines, entry)
             written == r.written + entry.length + 1
  <2>1. WithLine(r, entry) = [r EXCEPT !.lines = lines, !.written = written]
    BY <1>3 DEF WithLine
  <2>2. lines \in Seq(Entries) /\ Len(lines) = Len(r.lines) + 1
    BY <1>1
  <2>3. written \in 0 .. kBufSize - 1
    BY <1>1, <1>3 DEF LineFits
  <2> HIDE DEF lines, written
  <2>4. WithLine(r, entry) \in FittingReports /\ WithLine(r, entry).lines = lines
    BY <2>1, <2>2, <2>3 DEF FittingReports
  <2>5. QED
    BY <1>1, <2>2, <2>4
<1>4. QED
  BY <1>2, <1>3

LEMMA BufferFits ==
  ASSUME NEW entries \in Seq(Entries)
  PROVE  /\ EntriesToBuffer(entries) \in FittingReports
         /\ Len(EntriesToBuffer(entries).lines) <= Len(entries)
<1> DEFINE reports == Reports(entries)
           size == Len(entries)
           Bad == {i \in 0 .. size : ~ (/\ reports[i] \in FittingReports
                                        /\ Len(reports[i].lines) <= i)}
<1>1. size \in Nat
  OBVIOUS
<1>2. \A i \in 0 .. size :
        reports[i] = IF i = 0 THEN EmptyReport ELSE WithLine(reports[i - 1], entries[i])
  BY <1>1, ReportsAre
<1>3. \A i \in 1 .. size : entries[i] \in Entries
  OBVIOUS
<1> HIDE DEF reports, size
<1>4. Bad = {}
  <2> SUFFICES ASSUME Bad # {} PROVE FALSE
    OBVIOUS
  <2>1. PICK i \in Bad : \A j \in Bad : i <= j
    <3>1. Bad \subseteq Nat
      BY <1>1
    <3>2. QED
      BY <3>1, Least
  <2>2. i \in 0 .. size /\ i \in Nat
    BY <1>1, <2>1
  <2>3. EmptyReport \in FittingReports /\ Len(EmptyReport.lines) = 0
    <3>1. 0 \in 0 .. kBufSize - 1
      BY StackTraceAssumption
    <3>2. << >> \in Seq(Entries) /\ Len(<< >>) = 0
      OBVIOUS
    <3>3. QED
      BY <3>1, <3>2 DEF EmptyReport, FittingReports
  <2>4. i # 0
    BY <1>2, <2>1, <2>2, <2>3
  <2>5. i - 1 \in 0 .. size /\ ~ (i <= i - 1) /\ i \in 1 .. size
    BY <1>1, <2>2, <2>4
  <2>6. reports[i - 1] \in FittingReports /\ Len(reports[i - 1].lines) <= i - 1
    BY <2>1, <2>5
  <2>7. reports[i] = WithLine(reports[i - 1], entries[i])
    BY <1>2, <2>2, <2>4
  <2>8. /\ reports[i] \in FittingReports
        /\ Len(reports[i - 1].lines) \in Nat
        /\ Len(reports[i].lines) <= Len(reports[i - 1].lines) + 1
    BY <1>3, <2>5, <2>6, <2>7, WithLineFits
  <2>9. reports[i].lines \in Seq(Entries)
    BY <2>8 DEF FittingReports
  <2>10. Len(reports[i].lines) \in Nat
    BY <2>9
  <2>11. Len(reports[i].lines) <= i
    BY <2>2, <2>6, <2>8, <2>10
  <2>12. QED
    BY <2>1, <2>8, <2>11
<1>5. /\ size \in 0 .. size
      /\ reports[size] \in FittingReports /\ Len(reports[size].lines) <= size
  BY <1>1, <1>4
<1>6. QED
  BY <1>5 DEF EntriesToBuffer, reports, size

\* The report of any stack has no more lines than frames are looked at, and
\* leaves room for the byte that ends it.
LEMMA ReportOfFits ==
  ASSUME NEW stack \in Seq(Nat)
  PROVE  /\ ReportOf(stack).written < kBufSize
         /\ Len(ReportOf(stack).lines) <= kPlatformMaxFrames
<1> DEFINE entries == CollectStackTrace(stack, kDefaultFirstFrame + 1, kPlatformMaxFrames)
           r == EntriesToBuffer(entries)
<1>1. /\ kDefaultFirstFrame + 1 \in Nat /\ kPlatformMaxFrames \in Nat
      /\ kBufSize \in Nat
  BY StackTraceAssumption DEF kDefaultFirstFrame
<1>2. entries \in Seq(Entries) /\ Len(entries) <= kPlatformMaxFrames
  BY <1>1, CollectStackTraceTyped
<1> HIDE DEF entries
<1>3. r \in FittingReports /\ Len(r.lines) <= Len(entries)
  BY <1>2, BufferFits
<1>4. ReportOf(stack) = r
  BY DEF ReportOf, StackTraceFromCurrentContext, entries
<1> HIDE DEF r
<1>5. r.lines \in Seq(Entries) /\ r.written \in 0 .. kBufSize - 1
  BY <1>3 DEF FittingReports
<1>6. Len(r.lines) \in Nat /\ Len(entries) \in Nat
  BY <1>2, <1>5
<1>7. QED
  BY <1>1, <1>2, <1>3, <1>4, <1>5, <1>6

-----------------------------------------------------------------------------
(* Types, for every size of the queue *)

Afters == {"options", "parse", "build_type", "progress", "returned", "stop"}

BarTyped ==
  /\ bar.at \in 0 .. kSteps + 1
  /\ Len(bar.cells) = IF bar.at = 0 THEN 0 ELSE kWidth
  /\ bar.eta \in 0 .. kEtaHistory

\* The variables that the logger and the functions that log change.
LogTyped ==
  /\ queue \in Seq(Messages) /\ Len(queue) <= QueueSize
  /\ worker \in {"none", "running", "stopped"}
  /\ printed \subseteq Owners

LEMMA LogKeepsTypes ==
  ASSUME LogTyped, NEW owner \in Owners, NEW by_ref \in BOOLEAN, Log(owner, by_ref)
  PROVE  LogTyped'
<1> DEFINE message == [owner |-> owner, by_ref |-> by_ref]
<1>1. message \in Messages
  BY DEF Messages
<1>2. queue' = IF Len(queue) < QueueSize THEN Append(queue, message) ELSE queue
  BY DEF Log, LogTo
<1>3. Len(queue) \in Nat /\ QueueSize \in Nat /\ queue \in Seq(Messages) /\ Len(queue) <= QueueSize
  BY ApplicationAssumption DEF LogTyped
<1> HIDE DEF message
<1>4. queue' \in Seq(Messages) /\ Len(queue') <= QueueSize
  <2>1. CASE Len(queue) < QueueSize
    <3>1. queue' = Append(queue, message)
      BY <1>2, <2>1
    <3>2. queue' \in Seq(Messages) /\ Len(queue') = Len(queue) + 1
      BY <1>1, <1>3, <3>1
    <3>3. QED
      BY <1>3, <2>1, <3>2
  <2>2. CASE ~ (Len(queue) < QueueSize)
    BY <1>2, <1>3, <2>2
  <2>3. QED
    BY <2>1, <2>2
<1>5. QED
  BY <1>4 DEF Log, LogTyped

LEMMA LogRefKeepsTypes ==
  ASSUME LogTyped, live \subseteq Owners, NEW owner \in Owners, NEW next \in Afters,
         LogRefAndFlush(owner, next)
  PROVE  LogTyped' /\ (live \subseteq Owners)' /\ pc' = "flush" /\ then' \in Afters
<1>1. Log(owner, TRUE) /\ TRUE \in BOOLEAN
  BY DEF LogRefAndFlush
<1>2. LogTyped'
  BY <1>1, LogKeepsTypes
<1>3. QED
  BY <1>2 DEF LogRefAndFlush

\* The rest of TypeOK.
RestTyped ==
  /\ pc \in {"preinit", "options", "parse", "flush", "build_type", "progress",
            "returned", "exiting", "report", "stop", "exited", "killed"}
  /\ setup \in 0 .. 5
  /\ build_type \in {"debug", "release", "rel_w_deb_info", "min_size_rel"}
  /\ status \in {0, 1} /\ fault \in FaultKinds \cup {"none"}
  /\ report.written < kBufSize
  /\ Len(report.lines) <= kPlatformMaxFrames
  /\ live \subseteq Owners
  /\ then \in Afters

TypeInv == BarTyped /\ LogTyped /\ RestTyped

LEMMA TypesHold == TypeInv => TypeOK
<1>1. Len(Registrations) = 5
  BY DEF Registrations
<1>2. {Configurations[k] : k \in DOMAIN Configurations}
        = {"debug", "release", "rel_w_deb_info", "min_size_rel"}
  <2>1. DOMAIN Configurations = {1, 2, 3, 4}
    BY DEF Configurations
  <2>2. /\ Configurations[1] = "debug" /\ Configurations[2] = "release"
        /\ Configurations[3] = "rel_w_deb_info" /\ Configurations[4] = "min_size_rel"
    BY DEF Configurations
  <2>3. QED
    BY <2>1, <2>2
<1>3. QED
  BY <1>1, <1>2 DEF TypeInv, TypeOK, BarTyped, LogTyped, RestTyped

\* The configuration is one of them, whatever the options hold.
LEMMA BuildTypeTyped ==
  ASSUME NEW storage
  PROVE  BuildType(storage) \in {"debug", "release", "rel_w_deb_info", "min_size_rel"}
<1> DEFINE given == {k \in DOMAIN Configurations : storage[Configurations[k]]}
<1>1. /\ DOMAIN Configurations = 1 .. 4
      /\ \A k \in 1 .. 4 : Configurations[k] \in
           {"debug", "release", "rel_w_deb_info", "min_size_rel"}
  BY DEF Configurations
<1>2. given \subseteq 1 .. 4
  BY <1>1
<1>3. BuildType(storage) = IF given = {} THEN "debug"
                           ELSE Configurations[CHOOSE k \in given : \A j \in given : k <= j]
  BY DEF BuildType
<1> HIDE DEF given
<1>4. CASE given = {}
  BY <1>3, <1>4
<1>5. CASE given # {}
  <2>1. \E k \in given : \A j \in given : k <= j
    <3>1. given \subseteq Nat
      BY <1>2
    <3>2. QED
      BY <1>5, <3>1, Least
  <2>2. (CHOOSE k \in given : \A j \in given : k <= j) \in 1 .. 4
    BY <1>2, <2>1
  <2>3. QED
    BY <1>1, <1>3, <1>5, <2>2
<1>6. QED
  BY <1>4, <1>5

\* The bar has as many cells as its width, however far it is.
LEMMA BarLength ==
  ASSUME NEW at
  PROVE  Len(CreateBar(at)) = kWidth
<1> DEFINE cells == CreateBar(at)
           S == {cells[k] : k \in 1 .. kWidth}
<1>1. kWidth \in Nat
  BY ApplicationAssumption
<1>2. DOMAIN cells = 1 .. kWidth /\ cells = [k \in 1 .. kWidth |-> cells[k]]
  BY DEF CreateBar
<1> HIDE DEF cells
<1>3. cells \in [1 .. kWidth -> S]
  BY <1>2
<1>4. cells \in Seq(S)
  BY <1>1, <1>3
<1>5. Len(cells) \in Nat /\ DOMAIN cells = 1 .. Len(cells)
  BY <1>4
<1>6. Len(cells) = kWidth
  BY <1>1, <1>2, <1>5
<1>7. QED
  BY <1>6 DEF cells

LEMMA UpdatedTyped ==
  ASSUME BarTyped, NEW progress \in 0 .. kSteps + 1
  PROVE  LET b == Updated(bar, progress)
         IN  /\ b = [at |-> b.at, cells |-> b.cells, eta |-> b.eta]
             /\ b.at = bar.at /\ Len(b.cells) = kWidth /\ b.eta \in 0 .. kEtaHistory
<1> DEFINE at == Clamp(progress)
           more == IF at > 0 /\ at < kSteps THEN bar.eta + 1 ELSE bar.eta
           eta == IF more > kEtaHistory THEN kEtaHistory ELSE more
<1>1. Updated(bar, progress) = [at |-> bar.at, cells |-> CreateBar(at), eta |-> eta]
  BY DEF Updated
<1>2. kEtaHistory \in Nat /\ bar.eta \in 0 .. kEtaHistory
  BY ApplicationAssumption DEF BarTyped
<1>3. eta \in 0 .. kEtaHistory
  BY <1>2
<1> HIDE DEF at, eta
<1>4. Len(CreateBar(at)) = kWidth
  BY BarLength
<1>5. QED
  BY <1>1, <1>3, <1>4

LEMMA InitTyped == Init => TypeInv
<1> SUFFICES ASSUME Init PROVE TypeInv
  OBVIOUS
<1>1. BarTyped
  <2>1. bar = NewBar /\ bar.at = 0 /\ bar.cells = << >> /\ bar.eta = 0
    BY DEF Init, NewBar
  <2>2. Len(bar.cells) = 0
    BY <2>1
  <2>3. QED
    BY <2>1, <2>2, ApplicationAssumption DEF BarTyped
<1>2. LogTyped
  <2>1. queue = << >> /\ worker = "none" /\ printed = {}
    BY DEF Init
  <2>2. queue \in Seq(Messages) /\ Len(queue) = 0
    BY <2>1
  <2>3. QED
    BY <2>1, <2>2, ApplicationAssumption DEF LogTyped
<1>3. report.written < kBufSize /\ Len(report.lines) <= kPlatformMaxFrames
  <2>1. << >> \in Seq(Entries) /\ Len(<< >>) = 0 /\ kBufSize \in Nat /\ kPlatformMaxFrames \in Nat
    BY StackTraceAssumption
  <2>2. report = EntriesToBuffer(<< >>)
    BY DEF Init
  <2>3. report \in FittingReports /\ Len(report.lines) <= 0
    BY <2>1, <2>2, BufferFits
  <2>4. report.written \in 0 .. kBufSize - 1 /\ report.lines \in Seq(Entries)
    BY <2>3 DEF FittingReports
  <2>5. Len(report.lines) \in Nat
    BY <2>4
  <2>6. QED
    BY <2>1, <2>3, <2>4, <2>5
<1>4. RestTyped
  BY <1>3 DEF Init, RestTyped, Afters
<1>5. QED
  BY <1>1, <1>2, <1>4 DEF TypeInv

LEMMA MainThreadTyped == TypeInv /\ MainThread => TypeInv'
<1> SUFFICES ASSUME TypeInv, MainThread PROVE TypeInv'
  OBVIOUS
<1>1. BarTyped /\ LogTyped /\ RestTyped
  BY DEF TypeInv
<1>2. live \subseteq Owners
  BY <1>1 DEF RestTyped
<1>3. CASE Register
  <2>1. Len(Registrations) = 5
    BY DEF Registrations
  <2>2. setup' \in 0 .. 5
    BY <1>1, <1>3, <2>1 DEF Register, RestTyped
  <2>3. /\ pc' \in {"options", pc} /\ worker' \in {"running", worker}
        /\ UNCHANGED <<then, bar, build_type, status, fault, report, queue, printed, live>>
    BY <1>3 DEF Register, main
  <2>4. BarTyped' /\ LogTyped' /\ RestTyped'
    BY <1>1, <2>2, <2>3 DEF BarTyped, LogTyped, RestTyped
  <2>5. QED
    BY <2>4 DEF TypeInv
<1>4. CASE SetupOptions
  <2>1. /\ pc' \in {"returned", "parse"}
        /\ UNCHANGED <<then, setup, bar, build_type, status, fault, report,
                       queue, worker, printed, live>>
    BY <1>4 DEF SetupOptions, logger
  <2>2. BarTyped' /\ LogTyped' /\ RestTyped'
    BY <1>1, <2>1 DEF BarTyped, LogTyped, RestTyped
  <2>3. QED
    BY <2>2 DEF TypeInv
<1>5. ASSUME NEW p, ParseBecomes(p) PROVE TypeInv'
  <2>1. UNCHANGED <<setup, bar, build_type, status, fault, report>>
    BY <1>5 DEF ParseBecomes
  <2>2. Parsing(p) \in {"parse", "build_type", "returned"} /\ Parsing(p) \in Afters
    BY DEF Parsing, Afters
  <2>3. LogTyped' /\ (live \subseteq Owners)' /\ then' \in Afters
        /\ pc' \in {"flush", "parse", "build_type", "returned"}
    <3>1. CASE Prints(p) = "copy"
      <4>1. pc' = Parsing(p) /\ UNCHANGED <<then, queue, worker, printed, live>>
        BY <1>5, <3>1 DEF ParseBecomes, logger
      <4>2. QED
        BY <1>1, <2>2, <4>1 DEF LogTyped, RestTyped
    <3>2. CASE Prints(p) # "copy"
      <4>1. LogRefAndFlush(Prints(p), Parsing(p))
        BY <1>5, <3>2 DEF ParseBecomes
      <4>2. Prints(p) \in Owners
        BY DEF Prints, Owners
      <4>3. QED
        BY <1>1, <1>2, <2>2, <4>1, <4>2, LogRefKeepsTypes
    <3>3. QED
      BY <3>1, <3>2
  <2>4. BarTyped' /\ RestTyped'
    BY <1>1, <2>1, <2>3 DEF BarTyped, RestTyped
  <2>5. QED
    BY <2>3, <2>4 DEF TypeInv
<1>6. CASE ChooseBuildType
  <2>1. /\ UNCHANGED <<setup, bar, status, fault, report>>
        /\ build_type' \in {"debug", "release", "rel_w_deb_info", "min_size_rel"}
    <3>1. build_type' = BuildType(parse.storage) \/ build_type' = build_type
      BY <1>6 DEF ChooseBuildType
    <3>2. QED
      BY <1>1, <1>6, <3>1, BuildTypeTyped DEF ChooseBuildType, RestTyped
  <2>2. LogTyped' /\ (live \subseteq Owners)' /\ then' \in Afters
        /\ pc' \in {"flush", "progress", "returned"}
    <3>1. CASE /\ pc' \in {"progress", "returned"}
               /\ UNCHANGED <<then, queue, worker, printed, live>>
      BY <1>1, <3>1 DEF LogTyped, RestTyped
    <3>2. CASE LogRefAndFlush("options", "progress")
      <4>1. "options" \in Owners /\ "progress" \in Afters
        BY DEF Owners, Afters
      <4>2. QED
        BY <1>1, <1>2, <3>2, <4>1, LogRefKeepsTypes
    <3>3. QED
      BY <1>6, <3>1, <3>2 DEF ChooseBuildType, logger
  <2>3. BarTyped' /\ RestTyped'
    BY <1>1, <2>1, <2>2 DEF BarTyped, RestTyped
  <2>4. QED
    BY <2>2, <2>3 DEF TypeInv
<1>7. CASE UpdateProgress
  <2>1. /\ UNCHANGED <<setup, build_type, status, fault, report>>
        /\ LogRefAndFlush("progress", "progress")
        /\ bar.at <= kSteps
    BY <1>7 DEF UpdateProgress
  <2>2. LogTyped' /\ (live \subseteq Owners)' /\ then' \in Afters /\ pc' = "flush"
    <3>1. "progress" \in Owners /\ "progress" \in Afters
      BY DEF Owners, Afters
    <3>2. QED
      BY <1>1, <1>2, <2>1, <3>1, LogRefKeepsTypes
  <2>3. BarTyped'
    <3> DEFINE b == Updated(bar, bar.at)
    <3>1. kSteps \in Nat /\ bar.at \in 0 .. kSteps + 1
      BY <1>1, ApplicationAssumption DEF BarTyped
    <3>2. /\ b = [at |-> b.at, cells |-> b.cells, eta |-> b.eta]
          /\ b.at = bar.at /\ Len(b.cells) = kWidth /\ b.eta \in 0 .. kEtaHistory
      BY <1>1, <3>1, UpdatedTyped
    <3>3. bar' = [b EXCEPT !.at = @ + 1]
      BY <1>7 DEF UpdateProgress
    <3> HIDE DEF b
    <3>4. bar'.at = bar.at + 1 /\ bar'.cells = b.cells /\ bar'.eta = b.eta
      BY <3>2, <3>3
    <3>5. bar'.at \in 0 .. kSteps + 1 /\ bar'.at # 0
      BY <2>1, <3>1, <3>4
    <3>6. QED
      BY <3>2, <3>4, <3>5 DEF BarTyped
  <2>4. RestTyped'
    BY <1>1, <2>1, <2>2 DEF RestTyped
  <2>5. QED
    BY <2>2, <2>3, <2>4 DEF TypeInv
<1>8. CASE FinishProgress
  <2>1. /\ UNCHANGED <<then, setup, build_type, status, fault, report, live>>
        /\ Log("completed", FALSE) /\ pc' = "returned" /\ bar.at > kSteps
    BY <1>8 DEF FinishProgress
  <2>2. LogTyped'
    <3>1. "completed" \in Owners /\ FALSE \in BOOLEAN
      BY DEF Owners
    <3>2. QED
      BY <1>1, <2>1, <3>1, LogKeepsTypes
  <2>3. BarTyped'
    <3> DEFINE b == Updated(bar, kSteps)
    <3>1. kSteps \in Nat /\ kSteps \in 0 .. kSteps + 1 /\ bar.at \in 0 .. kSteps + 1 /\ bar.at # 0
      BY <1>1, <2>1, ApplicationAssumption DEF BarTyped
    <3>2. b.at = bar.at /\ Len(b.cells) = kWidth /\ b.eta \in 0 .. kEtaHistory
      BY <1>1, <3>1, UpdatedTyped
    <3>3. bar' = b
      BY <1>8 DEF FinishProgress
    <3> HIDE DEF b
    <3>4. QED
      BY <3>1, <3>2, <3>3 DEF BarTyped
  <2>4. RestTyped'
    BY <1>1, <2>1 DEF RestTyped
  <2>5. QED
    BY <2>2, <2>3, <2>4 DEF TypeInv
<1>9. CASE Return
  <2>1. /\ UNCHANGED <<then, setup, bar, build_type, fault, report, live>>
        /\ pc' = "exiting" /\ status' = 0
    BY <1>9 DEF Return, main
  <2>2. LogTyped'
    <3>1. CASE Log("dropped", TRUE)
      <4>1. "dropped" \in Owners /\ TRUE \in BOOLEAN
        BY DEF Owners
      <4>2. QED
        BY <1>1, <3>1, <4>1, LogKeepsTypes
    <3>2. CASE UNCHANGED logger
      BY <1>1, <3>2 DEF LogTyped, logger
    <3>3. QED
      BY <1>9, <3>1, <3>2 DEF Return
  <2>3. BarTyped' /\ RestTyped'
    BY <1>1, <2>1 DEF BarTyped, RestTyped
  <2>4. QED
    BY <2>2, <2>3 DEF TypeInv
<1>10. CASE Exit \/ StopAndExit
  <2>1. /\ UNCHANGED <<then, setup, bar, build_type, fault, report, live, queue, printed>>
        /\ pc' = "exited" /\ status' \in {1, status} /\ worker' = "stopped"
    BY <1>10 DEF Exit, StopAndExit, main
  <2>2. BarTyped' /\ LogTyped' /\ RestTyped'
    BY <1>1, <2>1 DEF BarTyped, LogTyped, RestTyped
  <2>3. QED
    BY <2>2 DEF TypeInv
<1>11. CASE FlushEnds
  <2>1. /\ UNCHANGED <<then, setup, bar, build_type, status, fault, report, queue,
                       worker, printed>>
        /\ pc' = then /\ live' = {}
    BY <1>11 DEF FlushEnds, main, logger
  <2>2. BarTyped' /\ LogTyped' /\ RestTyped'
    BY <1>1, <2>1 DEF BarTyped, LogTyped, RestTyped, Afters
  <2>3. QED
    BY <2>2 DEF TypeInv
<1>12. CASE ReportFault
  <2>1. /\ UNCHANGED <<setup, bar, build_type, status, fault, report>>
        /\ LogRefAndFlush("report", "stop")
    BY <1>12 DEF ReportFault, main
  <2>2. LogTyped' /\ (live \subseteq Owners)' /\ then' \in Afters /\ pc' = "flush"
    <3>1. "report" \in Owners /\ "stop" \in Afters
      BY DEF Owners, Afters
    <3>2. QED
      BY <1>1, <1>2, <2>1, <3>1, LogRefKeepsTypes
  <2>3. BarTyped' /\ RestTyped'
    BY <1>1, <2>1, <2>2 DEF BarTyped, RestTyped
  <2>4. QED
    BY <2>2, <2>3 DEF TypeInv
<1>13. CASE WarnOfValue
  <2>1. /\ UNCHANGED <<setup, bar, build_type, status, fault, report>>
        /\ LogRefAndFlush("warning", "parse")
    BY <1>13 DEF WarnOfValue
  <2>2. LogTyped' /\ (live \subseteq Owners)' /\ then' \in Afters /\ pc' = "flush"
    <3>1. "warning" \in Owners /\ "parse" \in Afters
      BY DEF Owners, Afters
    <3>2. QED
      BY <1>1, <1>2, <2>1, <3>1, LogRefKeepsTypes
  <2>3. BarTyped' /\ RestTyped'
    BY <1>1, <2>1, <2>2 DEF BarTyped, RestTyped
  <2>4. QED
    BY <2>2, <2>3 DEF TypeInv
<1>14. QED
  BY <1>3, <1>4, <1>5, <1>6, <1>7, <1>8, <1>9, <1>10, <1>11, <1>12, <1>13
     DEF MainThread, ParseArgument, ParseEnds

LEMMA OthersTyped ==
  TypeInv /\ (\/ WorkerPrints
              \/ \E kind \in FaultKinds, stack \in Stacks : Fault(kind, stack)
              \/ UNCHANGED vars) => TypeInv'
<1> SUFFICES ASSUME TypeInv PROVE (\/ WorkerPrints
                                   \/ \E kind \in FaultKinds, stack \in Stacks : Fault(kind, stack)
                                   \/ UNCHANGED vars) => TypeInv'
  OBVIOUS
<1>1. BarTyped /\ LogTyped /\ RestTyped
  BY DEF TypeInv
<1>2. ASSUME WorkerPrints PROVE TypeInv'
  <2>1. /\ UNCHANGED <<pc, then, setup, bar, build_type, status, fault, report, worker, live>>
        /\ queue # << >> /\ queue' = Tail(queue)
        /\ printed' = printed \cup {Head(queue).owner}
    BY <1>2 DEF WorkerPrints, main
  <2>2. /\ queue \in Seq(Messages) /\ Len(queue) \in Nat
        /\ Len(queue) <= QueueSize /\ QueueSize \in Nat
    BY <1>1, ApplicationAssumption DEF LogTyped
  <2>3. queue' \in Seq(Messages) /\ Len(queue') <= QueueSize /\ Head(queue) \in Messages
    BY <2>1, <2>2
  <2>4. LogTyped'
    BY <1>1, <2>1, <2>3 DEF LogTyped, Messages
  <2>5. BarTyped' /\ RestTyped'
    BY <1>1, <2>1 DEF BarTyped, RestTyped
  <2>6. QED
    BY <2>4, <2>5 DEF TypeInv
<1>3. ASSUME NEW kind \in FaultKinds, NEW stack \in Stacks, Fault(kind, stack)
      PROVE  TypeInv'
  <2>1. /\ UNCHANGED <<then, setup, bar, build_type, status, live>>
        /\ pc' \in {"report", "killed"} /\ fault' \in FaultKinds
        /\ report' = ReportOf(stack) /\ worker' \in {worker, "stopped"}
    BY <1>3 DEF Fault, main
  <2>2. report'.written < kBufSize /\ Len(report'.lines) <= kPlatformMaxFrames
    <3>1. stack \in Seq(Nat)
      BY ApplicationAssumption
    <3>2. QED
      BY <2>1, <3>1, ReportOfFits
  <2>3. LogTyped'
    <3>1. CASE kind = "check"
      <4>1. "check" \in Owners /\ TRUE \in BOOLEAN /\ Log("check", TRUE)
        BY <1>3, <3>1 DEF Fault, Owners
      <4>2. QED
        BY <1>1, <4>1, LogKeepsTypes
    <3>2. CASE kind # "check"
      <4>1. UNCHANGED <<queue, printed>>
        BY <1>3, <3>2 DEF Fault
      <4>2. QED
        BY <1>1, <2>1, <4>1 DEF LogTyped
    <3>3. QED
      BY <3>1, <3>2
  <2>4. BarTyped' /\ RestTyped'
    BY <1>1, <2>1, <2>2 DEF BarTyped, RestTyped
  <2>5. QED
    BY <2>3, <2>4 DEF TypeInv
<1>4. ASSUME UNCHANGED vars PROVE TypeInv'
  <2>1. BarTyped' /\ LogTyped' /\ RestTyped'
    BY <1>1, <1>4 DEF vars, main, logger, BarTyped, LogTyped, RestTyped
  <2>2. QED
    BY <2>1 DEF TypeInv
<1>5. QED
  BY <1>2, <1>3, <1>4

\* Every variable has its type, for every queue, bar, buffer and stack: the
\* queue holds no more than its size, the bar as many cells as its width, and
\* the report of a fault leaves room for the byte that ends it.
THEOREM TypeCorrect == Spec => []TypeOK
<1>1. TypeInv /\ [Next]_vars => TypeInv'
  BY MainThreadTyped, OthersTyped DEF Next, Ended
<1>2. QED
  BY InitTyped, <1>1, TypesHold, PTL DEF Spec

-----------------------------------------------------------------------------
(* Positions in their order *)

UpTo(S, i) == S \cap (1 .. i)
Rank(S, i) == Cardinality(UpTo(S, i))

LEMMA RankIs ==
  ASSUME NEW n \in Nat, NEW S, S \subseteq 1 .. n
  PROVE  /\ IsFiniteSet(S) /\ Cardinality(S) \in Nat
         /\ \A i : IsFiniteSet(UpTo(S, i)) /\ Rank(S, i) \in Nat
         /\ \A i : Rank(S, i) <= Cardinality(S)
<1>1. IsFiniteSet(1 .. n)
  BY FS_Interval
<1>2. IsFiniteSet(S)
  BY <1>1, FS_Subset
<1>3. \A i : UpTo(S, i) \subseteq S
  BY DEF UpTo
<1>4. \A i : IsFiniteSet(UpTo(S, i)) /\ Rank(S, i) <= Cardinality(S)
  BY <1>2, <1>3, FS_Subset DEF Rank
<1>5. QED
  BY <1>2, <1>4, FS_CardinalityType DEF Rank

\* No two elements have the same rank.
LEMMA RankRises ==
  ASSUME NEW n \in Nat, NEW S, S \subseteq 1 .. n, NEW i \in S, NEW j \in S, i < j
  PROVE  Rank(S, i) < Rank(S, j)
<1>0. \A k \in S : k \in Nat
  OBVIOUS
<1>1. UpTo(S, i) \subseteq UpTo(S, j) /\ j \in UpTo(S, j) /\ j \notin UpTo(S, i)
  BY <1>0 DEF UpTo
<1>2. Rank(S, i) <= Rank(S, j) /\ Rank(S, i) # Rank(S, j)
  BY <1>1, RankIs, FS_Subset DEF Rank
<1>3. Rank(S, i) \in Nat /\ Rank(S, j) \in Nat
  BY RankIs
<1>4. QED
  BY <1>2, <1>3

\* Every number up to the size of the set is the rank of an element.
LEMMA RankReached ==
  ASSUME NEW n \in Nat, NEW S, S \subseteq 1 .. n, NEW k \in 1 .. Cardinality(S)
  PROVE  \E i \in S : Rank(S, i) = k
<1> DEFINE High == {i \in 0 .. n : Rank(S, i) >= k}
<1>1. Cardinality(S) \in Nat /\ \A i : Rank(S, i) \in Nat /\ IsFiniteSet(UpTo(S, i))
  BY RankIs
<1>2. UpTo(S, n) = S
  BY DEF UpTo
<1>3. n \in High
  BY <1>1, <1>2 DEF Rank
<1>4. PICK i \in High : \A j \in High : i <= j
  <2>1. High \subseteq Nat /\ High # {}
    BY <1>3
  <2> HIDE DEF High
  <2>2. QED
    BY <2>1, Least
<1>5. i # 0
  <2>1. UpTo(S, 0) = {}
    BY DEF UpTo
  <2>2. Rank(S, 0) = 0
    BY <2>1, FS_EmptySet DEF Rank
  <2>3. QED
    BY <1>4, <2>2
<1>6. i \in 1 .. n /\ i - 1 \in 0 .. n /\ i - 1 < i
  BY <1>4, <1>5
<1>7. i - 1 \notin High
  BY <1>4, <1>6
<1>8. Rank(S, i - 1) < k /\ Rank(S, i) >= k
  BY <1>1, <1>4, <1>6, <1>7
<1>9. i \in S
  <2>1. i \notin S => UpTo(S, i) = UpTo(S, i - 1)
    BY <1>6 DEF UpTo
  <2>2. i \notin S => Rank(S, i) = Rank(S, i - 1)
    BY <2>1 DEF Rank
  <2>3. QED
    BY <1>1, <1>8, <2>2
<1>10. UpTo(S, i) = UpTo(S, i - 1) \cup {i}
  BY <1>6, <1>9 DEF UpTo
<1>11. Rank(S, i) <= Rank(S, i - 1) + 1
  BY <1>1, <1>10, FS_AddElement DEF Rank
<1>12. QED
  BY <1>1, <1>8, <1>9, <1>11

LEMMA InOrderIs ==
  ASSUME NEW n \in Nat, NEW S, S \subseteq 1 .. n
  PROVE  /\ Cardinality(S) \in Nat
         /\ DOMAIN InOrder(S) = 1 .. Cardinality(S)
         /\ \A k \in 1 .. Cardinality(S) :
              /\ InOrder(S)[k] \in S
              /\ \A i \in S : Rank(S, i) = k => InOrder(S)[k] = i
<1>1. Cardinality(S) \in Nat /\ DOMAIN InOrder(S) = 1 .. Cardinality(S)
  BY RankIs DEF InOrder
<1>2. ASSUME NEW k \in 1 .. Cardinality(S)
      PROVE  InOrder(S)[k] \in S /\ Rank(S, InOrder(S)[k]) = k
  <2>1. InOrder(S)[k] = CHOOSE i \in S : Rank(S, i) = k
    BY DEF InOrder, Rank, UpTo
  <2>2. QED
    BY <2>1, RankReached
<1>3. ASSUME NEW i \in S, NEW j \in S, Rank(S, i) = Rank(S, j)
      PROVE  i = j
  <2>1. \A x, y \in S : x < y => Rank(S, x) < Rank(S, y)
    BY RankRises
  <2>2. \A x : Rank(S, x) \in Nat
    BY RankIs, Zenon
  <2>3. Rank(S, i) \in Nat
    BY <2>2, Zenon
  <2>4. \A x \in S : x \in Nat
    OBVIOUS
  <2>5. ~ (i < j)
    <3> SUFFICES ASSUME i < j PROVE FALSE
      OBVIOUS
    <3>1. Rank(S, i) < Rank(S, j)
      BY <2>1, Zenon
    <3>2. QED
      BY <1>3, <2>3, <3>1
  <2>6. ~ (j < i)
    <3> SUFFICES ASSUME j < i PROVE FALSE
      OBVIOUS
    <3>1. Rank(S, j) < Rank(S, i)
      BY <2>1, Zenon
    <3>2. QED
      BY <1>3, <2>3, <3>1
  <2>7. QED
    BY <2>4, <2>5, <2>6
<1>4. QED
  BY <1>1, <1>2, <1>3

\* The elements of T are those of S, and behind them all positions up to n.
Follow(S, T, m, n) ==
  LET c == Cardinality(S)
  IN  /\ c \in Nat /\ Cardinality(T) = c + (n - m)
      /\ DOMAIN InOrder(S) = 1 .. c
      /\ DOMAIN InOrder(T) = 1 .. c + (n - m)
      /\ \A k \in 1 .. c : InOrder(T)[k] = InOrder(S)[k]
      /\ \A k \in 1 .. n - m : InOrder(T)[c + k] = m + k

LEMMA InOrderTail ==
  ASSUME NEW n \in Nat, NEW m \in 0 .. n, NEW S, S \subseteq 1 .. m
  PROVE  Follow(S, S \cup (m + 1 .. n), m, n)
<1> DEFINE T == S \cup (m + 1 .. n)
           c == Cardinality(S)
<1>1. m \in Nat /\ T \subseteq 1 .. n /\ S \subseteq 1 .. n
  OBVIOUS
<1>2. c \in Nat /\ IsFiniteSet(S)
  BY <1>1, RankIs
<1>3. ASSUME NEW k \in 0 .. n - m
      PROVE  Rank(T, m + k) = c + k
  <2> DEFINE more == m + 1 .. m + k
  <2>1. UpTo(T, m + k) = S \cup more
    <3>1. m + k \in Nat /\ m + k <= n
      BY <1>1
    <3>2. \A x : x \in S => x \in 1 .. m + k
      BY <1>1, <3>1
    <3>3. (m + 1 .. n) \cap (1 .. m + k) = more
      BY <1>1, <3>1
    <3>4. QED
      BY <3>2, <3>3, Zenon DEF UpTo
  <2>2. S \cap more = {}
    OBVIOUS
  <2>3. IsFiniteSet(more) /\ Cardinality(more) = k
    BY FS_Interval
  <2> HIDE DEF more
  <2>4. Cardinality(S \cup more) = c + Cardinality(more) - Cardinality({})
    BY <1>2, <2>2, <2>3, FS_Union, Zenon
  <2>5. Rank(T, m + k) = c + k - 0
    BY <2>1, <2>3, <2>4, FS_EmptySet, Zenon DEF Rank
  <2>6. QED
    BY <1>2, <2>5
<1>4. UpTo(T, n) = T
  BY <1>1 DEF UpTo
<1>5. Cardinality(T) = c + (n - m)
  <2>1. n - m \in 0 .. n - m /\ m + (n - m) = n
    BY <1>1
  <2>2. Rank(T, m + (n - m)) = c + (n - m)
    BY <1>3, <2>1
  <2>3. QED
    BY <1>4, <2>1, <2>2 DEF Rank
<1>6. ASSUME NEW i \in S
      PROVE  Rank(T, i) = Rank(S, i)
  <2>1. UpTo(T, i) = UpTo(S, i)
    BY <1>1 DEF UpTo
  <2>2. QED
    BY <2>1 DEF Rank
<1>7. /\ DOMAIN InOrder(S) = 1 .. c
      /\ DOMAIN InOrder(T) = 1 .. c + (n - m)
  <2> HIDE DEF T, c
  <2>1. DOMAIN InOrder(S) = 1 .. Cardinality(S) /\ DOMAIN InOrder(T) = 1 .. Cardinality(T)
    BY <1>1, InOrderIs, Zenon
  <2>2. QED
    BY <1>5, <2>1 DEF c
<1>8. ASSUME NEW k \in 1 .. c
      PROVE  InOrder(T)[k] = InOrder(S)[k]
  <2>1. PICK i \in S : Rank(S, i) = k
    BY <1>1, RankReached
  <2>2. InOrder(S)[k] = i
    BY <1>1, <2>1, InOrderIs
  <2>3. i \in T /\ Rank(T, i) = k
    BY <1>6, <2>1
  <2>4. k \in 1 .. Cardinality(T)
    BY <1>2, <1>5
  <2> HIDE DEF T, c
  <2>5. InOrder(T)[k] = i
    BY <1>1, <2>3, <2>4, InOrderIs
  <2>6. QED
    BY <2>2, <2>5
<1>9. ASSUME NEW k \in 1 .. n - m
      PROVE  InOrder(T)[c + k] = m + k
  <2>1. m + k \in T
    OBVIOUS
  <2>2. Rank(T, m + k) = c + k
    BY <1>3
  <2>3. c + k \in 1 .. Cardinality(T)
    BY <1>2, <1>5
  <2> HIDE DEF T, c
  <2>4. QED
    BY <1>1, <2>1, <2>2, <2>3, InOrderIs
<1>10. QED
  BY <1>2, <1>5, <1>7, <1>8, <1>9 DEF Follow

LEMMA InOrderNone == Cardinality({}) = 0 /\ InOrder({}) = << >>
<1>1. Cardinality({}) = 0
  BY FS_EmptySet
<1>2. QED
  BY <1>1 DEF InOrder

-----------------------------------------------------------------------------
(* The roles of the arguments *)

RoleTurn(p, a, role, i) ==
  IF i = 1 THEN "seen"
  ELSE IF role[i - 1] = "behind"
          \/ (role[i - 1] = "seen" /\ a[i - 1] = DoubleDash) THEN "behind"
  ELSE IF role[i - 1] = "seen" /\ Asks(p, a[i - 1]) THEN "value"
  ELSE "seen"

LEMMA RolesAre ==
  ASSUME NEW p, NEW a, Len(a) \in Nat, DOMAIN a = 1 .. Len(a)
  PROVE  LET role == Roles(p, a)
         IN  role = [i \in 1 .. Len(a) |-> RoleTurn(p, a, role, i)]
<1> DEFINE n == Len(a)
           Solves(f, m) == f = [i \in 1 .. m |-> RoleTurn(p, a, f, i)]
           Wrong == {m \in 0 .. n : ~ \E f : Solves(f, m)}
<1>1. Wrong = {}
  <2> SUFFICES ASSUME Wrong # {} PROVE FALSE
    OBVIOUS
  <2>1. Wrong \subseteq Nat
    OBVIOUS
  <2>2. PICK m \in Wrong : \A k \in Wrong : m <= k
    <3> HIDE DEF Wrong
    <3>1. QED
      BY <2>1, Least
  <2>3. m \in 0 .. n /\ ~ \E f : Solves(f, m)
    BY <2>2
  <2>4. m # 0
    <3>1. Solves([i \in 1 .. 0 |-> "seen"], 0)
      OBVIOUS
    <3> HIDE DEF Solves
    <3>2. QED
      BY <2>3, <3>1
  <2>5. m - 1 \in 0 .. n /\ m - 1 \notin Wrong
    BY <2>2, <2>3, <2>4
  <2>6. PICK f : Solves(f, m - 1)
    <3> HIDE DEF Solves
    <3>1. QED
      BY <2>5
  <2> DEFINE g == [i \in 1 .. m |-> IF i < m THEN f[i] ELSE RoleTurn(p, a, f, m)]
  <2>7. \A i \in 1 .. m : RoleTurn(p, a, g, i) = RoleTurn(p, a, f, i)
    <3> SUFFICES ASSUME NEW i \in 1 .. m PROVE RoleTurn(p, a, g, i) = RoleTurn(p, a, f, i)
      OBVIOUS
    <3>1. CASE i = 1
      BY <3>1 DEF RoleTurn
    <3>2. CASE i # 1
      <4>1. i - 1 \in 1 .. m /\ i - 1 < m
        BY <2>3, <3>2
      <4>2. g[i - 1] = f[i - 1]
        BY <4>1
      <4> HIDE DEF g
      <4>3. QED
        BY <4>2 DEF RoleTurn
    <3>3. QED
      BY <3>1, <3>2
  <2>8. \A i \in 1 .. m : g[i] = RoleTurn(p, a, g, i)
    <3> SUFFICES ASSUME NEW i \in 1 .. m PROVE g[i] = RoleTurn(p, a, f, i)
      BY <2>7
    <3>1. CASE i < m
      <4>1. i \in 1 .. m - 1
        BY <2>3, <3>1
      <4>2. f[i] = RoleTurn(p, a, f, i)
        BY <2>6, <4>1
      <4>3. QED
        BY <3>1, <4>2
    <3>2. CASE i = m
      BY <2>3, <3>2
    <3>3. QED
      BY <2>3, <3>1, <3>2
  <2>9. Solves(g, m)
    <3>1. g = [i \in 1 .. m |-> g[i]]
      OBVIOUS
    <3> HIDE DEF g
    <3>2. QED
      BY <2>8, <3>1
  <2> HIDE DEF Solves
  <2>10. QED
    BY <2>3, <2>9
<1>2. n \in 0 .. n
  OBVIOUS
<1>3. \E f : Solves(f, n)
  <2> HIDE DEF Solves
  <2>1. QED
    BY <1>1, <1>2
<1>4. Roles(p, a) = CHOOSE f : Solves(f, n)
  BY DEF Roles, RoleTurn
<1>5. Solves(Roles(p, a), n)
  <2> HIDE DEF Solves
  <2>1. QED
    BY <1>3, <1>4
<1>6. QED
  BY <1>5

LEMMA ArgsAre ==
  ASSUME NEW a \in Seq(Args)
  PROVE  /\ Len(a) \in Nat /\ DOMAIN a = 1 .. Len(a)
         /\ \A i \in 1 .. Len(a) : a[i] \in Args
OBVIOUS

LEMMA RoleFacts ==
  ASSUME NEW p, NEW a \in Seq(Args), NEW i \in 1 .. Len(a)
  PROVE  LET role == Roles(p, a)
         IN  /\ i = 1 => role[i] = "seen"
             /\ i < Len(a) =>
                  /\ role[i] = "behind" => role[i + 1] = "behind"
                  /\ role[i] = "value" => role[i + 1] = "seen"
                  /\ role[i] = "seen" =>
                       role[i + 1] = IF a[i] = DoubleDash THEN "behind"
                                     ELSE IF Asks(p, a[i]) THEN "value" ELSE "seen"
<1> DEFINE role == Roles(p, a)
           n == Len(a)
<1>1. n \in Nat /\ DOMAIN a = 1 .. n
  BY ArgsAre
<1>2. role = [j \in 1 .. n |-> RoleTurn(p, a, role, j)]
  BY <1>1, RolesAre
<1> HIDE DEF role
<1>3. \A j \in 1 .. n : role[j] = RoleTurn(p, a, role, j)
  BY <1>2
<1>4. i = 1 => role[i] = "seen"
  BY <1>3 DEF RoleTurn
<1>5. ASSUME i < n
      PROVE  /\ role[i] = "behind" => role[i + 1] = "behind"
             /\ role[i] = "value" => role[i + 1] = "seen"
             /\ role[i] = "seen" =>
                  role[i + 1] = IF a[i] = DoubleDash THEN "behind"
                                ELSE IF Asks(p, a[i]) THEN "value" ELSE "seen"
  <2>1. i + 1 \in 1 .. n /\ i + 1 # 1 /\ i + 1 - 1 = i
    BY <1>1, <1>5
  <2>2. role[i + 1] = RoleTurn(p, a, role, i + 1)
    BY <1>3, <2>1
  <2> DEFINE asks == Asks(p, a[i])
             dash == a[i] = DoubleDash
  <2>3. role[i + 1] = IF role[i] = "behind" \/ (role[i] = "seen" /\ dash) THEN "behind"
                      ELSE IF role[i] = "seen" /\ asks THEN "value" ELSE "seen"
    BY <2>1, <2>2 DEF RoleTurn
  <2> HIDE DEF asks, dash
  <2>4. /\ role[i] = "behind" => role[i + 1] = "behind"
        /\ role[i] = "value" => role[i + 1] = "seen"
        /\ role[i] = "seen" =>
             role[i + 1] = IF dash THEN "behind" ELSE IF asks THEN "value" ELSE "seen"
    BY <2>3
  <2>5. QED
    BY <2>4 DEF dash, asks
<1>6. QED
  BY <1>4, <1>5 DEF role

\* All that is behind a double dash is behind it.
LEMMA AllBehind ==
  ASSUME NEW p, NEW a \in Seq(Args), NEW i \in 1 .. Len(a),
         Roles(p, a)[i] = "seen", a[i] = DoubleDash, NEW j \in i + 1 .. Len(a)
  PROVE  Roles(p, a)[j] = "behind"
<1> DEFINE Wrong == {k \in i + 1 .. Len(a) : Roles(p, a)[k] # "behind"}
<1>1. Wrong = {}
  <2> SUFFICES ASSUME Wrong # {} PROVE FALSE
    OBVIOUS
  <2>1. Len(a) \in Nat
    BY ArgsAre
  <2>2. Wrong \subseteq Nat
    BY <2>1
  <2>3. PICK k \in Wrong : \A l \in Wrong : k <= l
    <3> HIDE DEF Wrong
    <3>1. QED
      BY <2>2, Least
  <2>4. k \in i + 1 .. Len(a) /\ Roles(p, a)[k] # "behind"
    BY <2>3
  <2>5. /\ k - 1 \in 1 .. Len(a) /\ k - 1 < Len(a) /\ k - 1 + 1 = k
        /\ k - 1 # i => k - 1 \in i + 1 .. Len(a) /\ k - 1 < k
    BY <2>1, <2>4
  <2>6. k - 1 # i => Roles(p, a)[k - 1] = "behind"
    BY <2>1, <2>3, <2>5
  <2>7. Roles(p, a)[k - 1 + 1] = "behind"
    BY <2>5, <2>6, RoleFacts
  <2>8. QED
    BY <2>4, <2>5, <2>7
<1>2. QED
  BY <1>1

-----------------------------------------------------------------------------
(* What the arguments before a position say *)

\* The option is given at position j.
Gives(p, a, name, j) ==
  /\ Roles(p, a)[j] = "seen" /\ Known(p, a[j]) /\ Names(p, a[j]) = name
  /\ Ends(p, a, j) \in {"no", "option_parse_failed"}

GivenIn(p, a, name, i) == {j \in 1 .. i - 1 : Gives(p, a, name, j)}

PlacedIn(p, a, i) == {j \in 1 .. i - 1 : Places(p, a, j)}

Picked(a, S) == [k \in DOMAIN InOrder(S) |-> a[InOrder(S)[k]]]

\* No argument before position i ends the parsing.
GoesOn(p, a, i) == \A j \in 1 .. i - 1 : Ends(p, a, j) = "no"

LEMMA GivenNext ==
  ASSUME NEW p, NEW a, NEW name, NEW i \in Nat, i # 0
  PROVE  /\ Gives(p, a, name, i) =>
              GivenIn(p, a, name, i + 1) = GivenIn(p, a, name, i) \cup {i}
         /\ ~ Gives(p, a, name, i) => GivenIn(p, a, name, i + 1) = GivenIn(p, a, name, i)
         /\ GivenIn(p, a, name, i) \subseteq 1 .. i - 1
<1>1. \A j : j \in 1 .. i + 1 - 1 <=> j \in 1 .. i - 1 \/ j = i
  OBVIOUS
<1>2. QED
  BY <1>1 DEF GivenIn

LEMMA PlacedNext ==
  ASSUME NEW p, NEW a, NEW i \in Nat, i # 0
  PROVE  /\ Places(p, a, i) => PlacedIn(p, a, i + 1) = PlacedIn(p, a, i) \cup {i}
         /\ ~ Places(p, a, i) => PlacedIn(p, a, i + 1) = PlacedIn(p, a, i)
         /\ PlacedIn(p, a, i) \subseteq 1 .. i - 1
<1>1. \A j : j \in 1 .. i + 1 - 1 <=> j \in 1 .. i - 1 \/ j = i
  OBVIOUS
<1>2. QED
  BY <1>1 DEF PlacedIn

LEMMA GoesOnNext ==
  ASSUME NEW p, NEW a, NEW i \in Nat, i # 0, GoesOn(p, a, i), Ends(p, a, i) = "no"
  PROVE  GoesOn(p, a, i + 1)
<1>1. \A j : j \in 1 .. i + 1 - 1 <=> j \in 1 .. i - 1 \/ j = i
  OBVIOUS
<1>2. QED
  BY <1>1 DEF GoesOn

\* Where the parsing ends, and what the command line says up to there.
LEMMA EndsAtIs ==
  ASSUME NEW p, NEW a \in Seq(Args), NEW i \in 1 .. Len(a) + 1, GoesOn(p, a, i),
         i <= Len(a) => Ends(p, a, i) # "no"
  PROVE  /\ EndsAt(p, a) = i
         /\ \A name : GivenAt(p, a, name) = IF i <= Len(a) THEN GivenIn(p, a, name, i + 1)
                                            ELSE GivenIn(p, a, name, i)
         /\ ShouldPlace(p, a) = Picked(a, PlacedIn(p, a, i))
<1> DEFINE n == Len(a)
           ends == {j \in DOMAIN a : Ends(p, a, j) # "no"}
<1>1. n \in Nat /\ DOMAIN a = 1 .. n
  BY ArgsAre
<1>2. EndsAt(p, a) = IF ends = {} THEN n + 1
                     ELSE CHOOSE j \in ends : \A k \in ends : j <= k
  BY DEF EndsAt
<1>3. \A j \in ends : j \in 1 .. n /\ i <= j
  <2> SUFFICES ASSUME NEW j \in ends PROVE j \in 1 .. n /\ i <= j
    OBVIOUS
  <2>1. j \in 1 .. n /\ Ends(p, a, j) # "no"
    BY <1>1
  <2>2. j \notin 1 .. i - 1
    BY <2>1 DEF GoesOn
  <2>3. QED
    BY <1>1, <2>1, <2>2
<1>4. EndsAt(p, a) = i
  <2>1. CASE i <= n
    <3>1. i \in ends
      BY <1>1, <2>1
    <3> HIDE DEF ends
    <3>2. \A j \in ends : (\A k \in ends : j <= k) => j = i
      BY <1>3, <3>1
    <3>3. \A k \in ends : i <= k
      BY <1>3
    <3>4. QED
      BY <1>2, <3>1, <3>2, <3>3
  <2>2. CASE ~ (i <= n)
    <3> HIDE DEF ends
    <3>1. i = n + 1
      BY <1>1, <2>2
    <3>2. ends = {}
      BY <1>1, <1>3, <3>1
    <3>3. QED
      BY <1>2, <3>1, <3>2
  <2>3. QED
    BY <2>1, <2>2
<1>5. ASSUME NEW name
      PROVE  GivenAt(p, a, name) = IF i <= n THEN GivenIn(p, a, name, i + 1)
                                   ELSE GivenIn(p, a, name, i)
  <2>1. GivenAt(p, a, name) = {j \in 1 .. i : j <= n /\ Gives(p, a, name, j)}
    BY <1>4 DEF GivenAt, Gives
  <2>2. CASE i <= n
    <3>1. \A j : j \in 1 .. i /\ j <= n <=> j \in 1 .. i + 1 - 1
      BY <1>1, <2>2
    <3>2. QED
      BY <2>1, <2>2, <3>1 DEF GivenIn
  <2>3. CASE ~ (i <= n)
    <3>1. \A j : j \in 1 .. i /\ j <= n <=> j \in 1 .. i - 1
      BY <1>1, <2>3
    <3>2. QED
      BY <2>1, <2>3, <3>1 DEF GivenIn
  <2>4. QED
    BY <2>2, <2>3
<1>6. ShouldPlace(p, a) = Picked(a, PlacedIn(p, a, i))
  <2>1. {j \in DOMAIN a : j < EndsAt(p, a) /\ Places(p, a, j)} = PlacedIn(p, a, i)
    <3>1. \A j : j \in 1 .. n /\ j < i <=> j \in 1 .. i - 1
      BY <1>1
    <3>2. QED
      BY <1>1, <1>4, <3>1 DEF PlacedIn
  <2>2. QED
    BY <2>1 DEF ShouldPlace, Picked
<1>7. QED
  BY <1>4, <1>5, <1>6

-----------------------------------------------------------------------------
(* What the positions give *)

LEMMA AppendIs ==
  ASSUME NEW c \in Nat, NEW f, f = [k \in 1 .. c |-> f[k]],
         NEW e, NEW g, g = [k \in 1 .. c + 1 |-> g[k]],
         \A k \in 1 .. c : g[k] = f[k], g[c + 1] = e
  PROVE  g = Append(f, e)
<1> DEFINE S == {f[k] : k \in 1 .. c} \cup {e}
<1>1. \A k \in 1 .. c : f[k] \in S
  OBVIOUS
<1>2. e \in S
  OBVIOUS
<1>3. \A k \in 1 .. c + 1 : k \in 1 .. c \/ k = c + 1
  OBVIOUS
<1>4. \A k \in 1 .. c + 1 : g[k] \in S
  BY <1>1, <1>2, <1>3
<1> HIDE DEF S
<1>5. f \in [1 .. c -> S] /\ g \in [1 .. c + 1 -> S]
  BY <1>1, <1>4
<1>6. f \in Seq(S) /\ Len(f) = c
  BY <1>5
<1>7. g \in Seq(S) /\ Len(g) = c + 1
  BY <1>5
<1>8. /\ Append(f, e) \in Seq(S) /\ Len(Append(f, e)) = c + 1
      /\ \A k \in 1 .. c : Append(f, e)[k] = f[k]
      /\ Append(f, e)[c + 1] = e
  BY <1>2, <1>6
<1>9. \A k \in 1 .. c + 1 : Append(f, e)[k] = g[k]
  BY <1>3, <1>8
<1>10. QED
  BY <1>7, <1>8, <1>9, SeqEqual

LEMMA PickedIs ==
  ASSUME NEW a \in Seq(Args), NEW S, S \subseteq 1 .. Len(a)
  PROVE  /\ Picked(a, S) \in Seq(Args) /\ Len(Picked(a, S)) = Cardinality(S)
         /\ Cardinality(S) \in Nat
         /\ \A k \in 1 .. Cardinality(S) : Picked(a, S)[k] = a[InOrder(S)[k]]
<1>1. /\ Len(a) \in Nat
      /\ \A i \in 1 .. Len(a) : a[i] \in Args
  BY ArgsAre
<1>2. /\ Cardinality(S) \in Nat /\ DOMAIN InOrder(S) = 1 .. Cardinality(S)
      /\ \A k \in 1 .. Cardinality(S) : InOrder(S)[k] \in S
  BY <1>1, InOrderIs
<1>3. /\ DOMAIN Picked(a, S) = 1 .. Cardinality(S)
      /\ \A k \in 1 .. Cardinality(S) : Picked(a, S)[k] = a[InOrder(S)[k]]
  BY <1>2 DEF Picked
<1>4. \A k \in 1 .. Cardinality(S) : Picked(a, S)[k] \in Args
  BY <1>1, <1>2, <1>3
<1>5. Picked(a, S) = [k \in 1 .. Cardinality(S) |-> Picked(a, S)[k]]
  BY <1>3 DEF Picked
<1>6. Picked(a, S) \in [1 .. Cardinality(S) -> Args]
  BY <1>4, <1>5
<1>7. QED
  BY <1>2, <1>3, <1>6

\* The elements of T are those of S and, behind them, i.
OneMore(S, T, i) ==
  LET c == Cardinality(S)
  IN  /\ c \in Nat /\ Cardinality(T) = c + 1 /\ T \subseteq 1 .. i
      /\ DOMAIN InOrder(S) = 1 .. c /\ DOMAIN InOrder(T) = 1 .. c + 1
      /\ \A k \in 1 .. c : InOrder(T)[k] = InOrder(S)[k]
      /\ InOrder(T)[c + 1] = i

LEMMA InOrderMore ==
  ASSUME NEW i \in Nat, i # 0, NEW S, S \subseteq 1 .. i - 1
  PROVE  OneMore(S, S \cup {i}, i)
<1> DEFINE m == i - 1
           c == Cardinality(S)
<1>1. m \in 0 .. i /\ i - m = 1 /\ m + 1 = i /\ S \subseteq 1 .. m
  OBVIOUS
<1>2. m + 1 .. i = {i}
  BY <1>1
<1> DEFINE T == S \cup (m + 1 .. i)
<1> HIDE DEF m
<1>3. /\ c \in Nat /\ Cardinality(T) = c + (i - m)
      /\ DOMAIN InOrder(S) = 1 .. c
      /\ DOMAIN InOrder(T) = 1 .. c + (i - m)
      /\ \A k \in 1 .. c : InOrder(T)[k] = InOrder(S)[k]
      /\ \A k \in 1 .. i - m : InOrder(T)[c + k] = m + k
  <2>1. i \in Nat
    OBVIOUS
  <2>2. Follow(S, T, m, i)
    BY <1>1, <2>1, InOrderTail, Zenon
  <2>3. QED
    BY <2>2 DEF Follow
<1>4. T = S \cup {i}
  BY <1>2
<1>5. T \subseteq 1 .. i
  BY <1>1, <1>4
<1> HIDE DEF T, c
<1>6. 1 \in 1 .. i - m
  BY <1>1
<1>7. InOrder(T)[c + 1] = m + 1
  BY <1>3, <1>6
<1>8. /\ c \in Nat /\ Cardinality(T) = c + 1 /\ T \subseteq 1 .. i
      /\ DOMAIN InOrder(S) = 1 .. c /\ DOMAIN InOrder(T) = 1 .. c + 1
      /\ \A k \in 1 .. c : InOrder(T)[k] = InOrder(S)[k]
      /\ InOrder(T)[c + 1] = i
  BY <1>1, <1>3, <1>5, <1>7
<1>9. QED
  BY <1>4, <1>8, Zenon DEF c, OneMore

LEMMA PickedMore ==
  ASSUME NEW a \in Seq(Args), NEW i \in 1 .. Len(a), NEW S, S \subseteq 1 .. i - 1
  PROVE  Picked(a, S \cup {i}) = Append(Picked(a, S), a[i])
<1> DEFINE T == S \cup {i}
           c == Cardinality(S)
           f == Picked(a, S)
           g == Picked(a, T)
<1>1. /\ c \in Nat
      /\ DOMAIN InOrder(S) = 1 .. c /\ DOMAIN InOrder(T) = 1 .. c + 1
      /\ \A k \in 1 .. c : InOrder(T)[k] = InOrder(S)[k]
      /\ InOrder(T)[c + 1] = i
  <2>1. i \in Nat /\ i # 0
    BY ArgsAre
  <2>2. OneMore(S, T, i)
    BY <2>1, InOrderMore, Zenon
  <2>3. QED
    BY <2>2 DEF OneMore
<1> HIDE DEF T, c
<1>2. f = [k \in 1 .. c |-> f[k]] /\ \A k \in 1 .. c : f[k] = a[InOrder(S)[k]]
  BY <1>1 DEF Picked
<1>3. g = [k \in 1 .. c + 1 |-> g[k]] /\ \A k \in 1 .. c + 1 : g[k] = a[InOrder(T)[k]]
  BY <1>1 DEF Picked
<1> HIDE DEF f, g
<1>4. \A k \in 1 .. c : g[k] = f[k]
  BY <1>1, <1>2, <1>3
<1>5. g[c + 1] = a[i]
  BY <1>1, <1>3
<1>6. g = Append(f, a[i])
  BY <1>1, <1>2, <1>3, <1>4, <1>5, AppendIs
<1>7. QED
  BY <1>6 DEF f, g, T

LEMMA PickedTail ==
  ASSUME NEW a \in Seq(Args), NEW i \in 1 .. Len(a), NEW S, S \subseteq 1 .. i - 1
  PROVE  Picked(a, S \cup (i + 1 .. Len(a))) = Picked(a, S) \o Behind(a, i)
<1> DEFINE n == Len(a)
           T == S \cup (i + 1 .. n)
           c == Cardinality(S)
           f == Picked(a, S)
           g == Picked(a, T)
           h == Behind(a, i)
<1>1. n \in Nat /\ i \in 0 .. n /\ i \in Nat /\ 1 .. i - 1 \subseteq 1 .. i
  BY ArgsAre
<1>2. S \subseteq 1 .. i
  BY <1>1, Zenon
<1>3. 1 .. i \subseteq 1 .. n /\ i + 1 .. n \subseteq 1 .. n
  BY <1>1
<1>4. S \subseteq 1 .. n /\ T \subseteq 1 .. n
  BY <1>2, <1>3, Zenon
<1> DEFINE d == n - i
<1>5. d \in Nat
  BY <1>1
<1>6. /\ c \in Nat /\ Cardinality(T) = c + d
      /\ \A k \in 1 .. c : InOrder(T)[k] = InOrder(S)[k]
      /\ \A k \in 1 .. d : InOrder(T)[c + k] = i + k
  <2>1. Follow(S, T, i, n)
    BY <1>1, <1>2, InOrderTail, Zenon
  <2>2. QED
    BY <2>1 DEF Follow
<1>7. /\ f \in Seq(Args) /\ Len(f) = c
      /\ \A k \in 1 .. c : f[k] = a[InOrder(S)[k]]
  BY <1>4, PickedIs
<1>8. /\ g \in Seq(Args) /\ Len(g) = Cardinality(T)
      /\ \A k \in 1 .. Cardinality(T) : g[k] = a[InOrder(T)[k]]
  BY <1>4, PickedIs
<1> HIDE DEF f, g, T, c
<1>81. \A k \in 1 .. c + d : g[k] = a[InOrder(T)[k]]
  BY <1>6, <1>8
<1>9. /\ h \in Seq(Args) /\ Len(h) = d
      /\ \A k \in 1 .. d : h[k] = a[i + k]
  BY <1>1 DEF Behind
<1> HIDE DEF f, g, h, T, c, d
<1>10. /\ f \o h \in Seq(Args) /\ Len(f \o h) = c + d
       /\ \A k \in 1 .. c : (f \o h)[k] = f[k]
       /\ \A k \in 1 .. d : (f \o h)[c + k] = h[k]
  <2>1. f \in Seq(Args) /\ h \in Seq(Args) /\ Len(f) = c /\ Len(h) = d
    BY <1>7, <1>9
  <2>2. f \o h \in Seq(Args) /\ Len(f \o h) = c + d
    BY <2>1
  <2>3. \A k \in 1 .. c + d : (f \o h)[k] = IF k <= c THEN f[k] ELSE h[k - c]
    BY <2>1, ConcatProperties, Zenon
  <2>4. ASSUME NEW k \in 1 .. c PROVE (f \o h)[k] = f[k]
    <3>1. k \in 1 .. c + d /\ k <= c
      BY <1>5, <1>6
    <3>2. (f \o h)[k] = IF k <= c THEN f[k] ELSE h[k - c]
      BY <2>3, <3>1, Zenon
    <3>3. QED
      BY <3>1, <3>2, Zenon
  <2>5. ASSUME NEW k \in 1 .. d PROVE (f \o h)[c + k] = h[k]
    <3> DEFINE q == c + k
    <3>1. q \in 1 .. c + d /\ ~ (q <= c) /\ q - c = k
      BY <1>5, <1>6
    <3> HIDE DEF q
    <3>2. (f \o h)[q] = IF q <= c THEN f[q] ELSE h[q - c]
      BY <2>3, <3>1, Zenon
    <3>3. (f \o h)[q] = h[k]
      BY <3>1, <3>2, Zenon
    <3>4. QED
      BY <3>3 DEF q
  <2>6. QED
    BY <2>2, <2>4, <2>5
<1>11. \A k \in 1 .. c : k \in 1 .. c + d
  BY <1>5, <1>6
<1>12. \A k \in 1 .. d : c + k \in 1 .. c + d
  BY <1>5, <1>6
<1>13. ASSUME NEW k \in 1 .. c PROVE g[k] = (f \o h)[k]
  <2>1. g[k] = a[InOrder(T)[k]]
    BY <1>81, <1>11
  <2>2. (f \o h)[k] = f[k] /\ f[k] = a[InOrder(S)[k]]
    BY <1>7, <1>10
  <2>3. InOrder(T)[k] = InOrder(S)[k]
    BY <1>6
  <2>4. QED
    BY <2>1, <2>2, <2>3
<1>14. ASSUME NEW k \in 1 .. d PROVE g[c + k] = (f \o h)[c + k]
  <2>1. g[c + k] = a[InOrder(T)[c + k]]
    BY <1>81, <1>12
  <2>2. (f \o h)[c + k] = h[k] /\ h[k] = a[i + k]
    BY <1>9, <1>10
  <2>3. InOrder(T)[c + k] = i + k
    BY <1>6
  <2>4. QED
    BY <2>1, <2>2, <2>3
<1>15. ASSUME NEW k \in 1 .. c + d
       PROVE  g[k] = (f \o h)[k]
  <2>1. CASE k \in 1 .. c
    BY <1>13, <2>1
  <2>2. CASE k \notin 1 .. c
    <3>1. k - c \in 1 .. d /\ c + (k - c) = k
      BY <1>5, <1>6, <2>2
    <3>2. g[c + (k - c)] = (f \o h)[c + (k - c)]
      BY <1>14, <3>1, Zenon
    <3>3. QED
      BY <3>1, <3>2
  <2>3. QED
    BY <2>1, <2>2
<1>16. g = f \o h
  BY <1>6, <1>8, <1>10, <1>15, SeqEqual
<1>17. QED
  BY <1>16 DEF f, g, h, T

LEMMA ParsedIs == \A ok, stored : Parsed(ok, stored).ok = ok /\ Parsed(ok, stored).stored = stored
BY Zenon DEF Parsed

\* What parse() of a number or a text makes of it.
LEMMA ScalarIs ==
  ASSUME NEW number \in BOOLEAN, NEW before, NEW text
  PROVE  LET value == ParseScalar(number, before, text)
         IN  /\ value.ok \in BOOLEAN
             /\ value.ok <=> ~ (number /\ ~ IsNumber(text))
             /\ value.ok => value.stored = ReadAs(number, text)
             /\ ~ value.ok =>
                  value.stored = IF LeavesStored(number, text) THEN before ELSE Zero
<1> DEFINE value == ParseScalar(number, before, text)
           good == number => IsNumber(text)
           read == ReadAs(number, text)
           left == IF LeavesStored(number, text) THEN before ELSE Zero
<1>1. value = IF good THEN Parsed(TRUE, read) ELSE Parsed(FALSE, left)
  BY Zenon DEF ParseScalar
<1>2. good <=> ~ (number /\ ~ IsNumber(text))
  OBVIOUS
<1> HIDE DEF value, read, left, good
<1>3. CASE good
  <2>1. value.ok = TRUE /\ value.stored = read
    BY <1>1, <1>3, ParsedIs
  <2>2. QED
    BY <1>2, <1>3, <2>1 DEF value, read, left
<1>4. CASE ~ good
  <2>1. value.ok = FALSE /\ value.stored = left
    BY <1>1, <1>4, ParsedIs
  <2>2. QED
    BY <1>2, <1>4, <2>1 DEF value, read, left
<1>5. QED
  BY <1>3, <1>4

\* What an option holds when it is given once more.
LEMMA HoldsMore ==
  ASSUME NEW option, NEW a, NEW i \in Nat, i # 0, NEW given, given \subseteq 1 .. i - 1
  PROVE  LET value == ValueAt(option, a, i)
             before == Holds(option, a, given)
             after == Holds(option, a, given \cup {i})
         IN  /\ option.kind = "flag" => after = TRUE
             /\ option.kind = "option" =>
                  after = IF LeavesStored(option.number, GivenText(a, i)) THEN before
                          ELSE value.stored
             /\ option.kind = "list" =>
                  after = IF value.ok THEN Append(before, value.stored) ELSE before
<1> DEFINE value(j) == ValueAt(option, a, j)
           more == given \cup {i}
           kind == option.kind
<1>1. more # {} /\ i \in more
  OBVIOUS
<1>2. kind = "flag" => Holds(option, a, more) = TRUE
  <2>1. kind = "flag" => Holds(option, a, more) = (more # {})
    BY DEF Holds
  <2> HIDE DEF kind
  <2>2. QED
    BY <1>1, <2>1
<1>3. kind = "option" =>
        Holds(option, a, more) = IF LeavesStored(option.number, GivenText(a, i))
                                 THEN Holds(option, a, given) ELSE value(i).stored
  <2> DEFINE left(j) == LeavesStored(option.number, GivenText(a, j))
             Told(S) == {j \in S : ~ left(j)}
             Newest(S) == CHOOSE j \in S : \A k \in S : k <= j
             Final(S) == IF S = {} THEN option.default ELSE value(Newest(S)).stored
  <2>1. /\ kind = "option" => Holds(option, a, more) = Final(Told(more))
        /\ kind = "option" => Holds(option, a, given) = Final(Told(given))
    BY DEF Holds
  <2>2. left(i) => Told(more) = Told(given)
    <3> HIDE DEF left
    <3>1. QED
      OBVIOUS
  <2>3. ASSUME ~ left(i) PROVE Told(more) # {} /\ Newest(Told(more)) = i
    <3> HIDE DEF left
    <3> DEFINE T == Told(more)
    <3>1. i \in T /\ \A k \in T : k <= i /\ k \in Nat
      BY <2>3
    <3>2. \A j \in T : (\A k \in T : k <= j) => j = i
      BY <3>1
    <3> HIDE DEF T
    <3>3. T # {} /\ Newest(T) = i
      BY <3>1, <3>2
    <3>4. QED
      BY <3>3 DEF T
  <2> HIDE DEF kind, value, left, more, Told, Newest
  <2>4. CASE left(i)
    <3>1. Final(Told(more)) = Final(Told(given))
      BY <2>2, <2>4
    <3>2. QED
      BY <2>1, <2>4, <3>1 DEF left
  <2>5. CASE ~ left(i)
    <3>1. Final(Told(more)) = value(i).stored
      BY <2>3, <2>5
    <3>2. QED
      BY <2>1, <2>5, <3>1 DEF left
  <2>6. QED
    BY <2>4, <2>5
<1>4. ASSUME kind = "list"
      PROVE  Holds(option, a, more) = IF value(i).ok
                                      THEN Append(Holds(option, a, given), value(i).stored)
                                      ELSE Holds(option, a, given)
  <2> DEFINE G == {j \in given : value(j).ok}
             H == {j \in more : value(j).ok}
             Listed(S) == [k \in DOMAIN InOrder(S) |-> value(InOrder(S)[k]).stored]
  <2>1. Holds(option, a, more) = Listed(H) /\ Holds(option, a, given) = Listed(G)
    BY <1>4 DEF Holds
  <2>2. CASE ~ value(i).ok
    <3>1. H = G
      BY <2>2
    <3> HIDE DEF H, G, more, kind
    <3>2. QED
      BY <2>1, <2>2, <3>1
  <2>3. CASE value(i).ok
    <3> DEFINE c == Cardinality(G)
    <3>1. H = G \cup {i} /\ G \subseteq 1 .. i - 1
      BY <2>3
    <3> HIDE DEF H, G, more
    <3>2. OneMore(G, H, i)
      BY <3>1, InOrderMore, Zenon
    <3>3. /\ c \in Nat
          /\ DOMAIN InOrder(G) = 1 .. c /\ DOMAIN InOrder(H) = 1 .. c + 1
          /\ \A k \in 1 .. c : InOrder(H)[k] = InOrder(G)[k]
          /\ InOrder(H)[c + 1] = i
      BY <3>2 DEF OneMore
    <3> HIDE DEF c, value
    <3> DEFINE f == Listed(G)
               g == Listed(H)
    <3>4. /\ f = [k \in 1 .. c |-> f[k]]
          /\ \A k \in 1 .. c : f[k] = value(InOrder(G)[k]).stored
      BY <3>3
    <3>5. /\ g = [k \in 1 .. c + 1 |-> g[k]]
          /\ \A k \in 1 .. c + 1 : g[k] = value(InOrder(H)[k]).stored
      BY <3>3
    <3> HIDE DEF f, g
    <3>6. \A k \in 1 .. c : k \in 1 .. c + 1
      BY <3>3
    <3>7. \A k \in 1 .. c : g[k] = f[k]
      BY <3>3, <3>4, <3>5, <3>6, Zenon
    <3>8. g[c + 1] = value(i).stored
      BY <3>3, <3>5
    <3>9. g = Append(f, value(i).stored)
      BY <3>3, <3>4, <3>5, <3>7, <3>8, AppendIs
    <3>10. QED
      BY <2>1, <2>3, <3>9 DEF f, g
  <2>4. QED
    BY <2>2, <2>3
<1>5. QED
  BY <1>2, <1>3, <1>4

\* An option that is not given has its default.
LEMMA HoldsNone ==
  ASSUME NEW p, Built(p), NEW name \in DOMAIN p.options, NEW a, NEW given, given = {}
  PROVE  Holds(p.options[name], a, given) = p.options[name].default
<1> DEFINE option == p.options[name]
           kind == option.kind
           value(i) == ValueAt(option, a, i)
           G == {i \in given : value(i).ok}
<1>1. \/ kind = "flag" /\ option.default = FALSE
      \/ kind = "option"
      \/ kind = "list" /\ option.default = << >>
  BY DEF Built
<1>2. kind = "flag" => Holds(option, a, given) = (given # {})
  BY DEF Holds
<1>3. kind = "option" => Holds(option, a, given) = option.default
  <2> DEFINE T == {i \in given : ~ LeavesStored(option.number, GivenText(a, i))}
             last == value(CHOOSE i \in T : \A j \in T : j <= i).stored
  <2>1. kind = "option" =>
          Holds(option, a, given) = IF T = {} THEN option.default ELSE last
    BY DEF Holds
  <2>2. T = {}
    OBVIOUS
  <2> HIDE DEF T, last, kind
  <2>3. QED
    BY <2>1, <2>2
<1>4. kind = "list" => Holds(option, a, given) =
                         [k \in DOMAIN InOrder(G) |-> value(InOrder(G)[k]).stored]
  BY DEF Holds
<1>5. InOrder(G) = << >>
  <2>1. G = {}
    OBVIOUS
  <2> HIDE DEF G
  <2>2. QED
    BY <2>1, InOrderNone
<1> HIDE DEF kind, value, G
<1>6. [k \in DOMAIN InOrder(G) |-> value(InOrder(G)[k]).stored] = << >>
  <2>1. DOMAIN InOrder(G) = {}
    BY <1>5
  <2>2. DOMAIN << >> = {}
    OBVIOUS
  <2> DEFINE f == [k \in DOMAIN InOrder(G) |-> value(InOrder(G)[k]).stored]
  <2>3. f \in [1 .. 0 -> {}]
    BY <2>1
  <2> HIDE DEF f
  <2>4. f \in Seq({}) /\ Len(f) = 0
    BY <2>3
  <2>5. QED
    BY <2>4 DEF f
<1>7. QED
  BY <1>1, <1>2, <1>3, <1>4, <1>6

-----------------------------------------------------------------------------
(* The loop *)

ParseFields == {"i", "positional_args", "parsed", "warned", "result", "storage", "places"}

\* What is stored when the arguments before position i are taken.
Reached(p, a, s, i) ==
  /\ GoesOn(p, a, i)
  /\ DOMAIN s.storage = DOMAIN p.options
  /\ \A name \in DOMAIN p.options :
       /\ s.storage[name] = Holds(p.options[name], a, GivenIn(p, a, name, i))
       /\ name \in s.parsed <=> GivenIn(p, a, name, i) # {}
  /\ s.positional_args = Picked(a, PlacedIn(p, a, i))

Loop(p, a, s) ==
  /\ DOMAIN s = ParseFields
  /\ s.result = "none"
  /\ s.i \in 1 .. Len(a) + 1
  /\ s.i <= Len(a) => Roles(p, a)[s.i] = "seen"
  /\ s.places = [k \in DOMAIN p.positionals |-> p.positionals[k].default]
  /\ Reached(p, a, s, s.i)

\* What is stored of the positional argument when it can be read.
ShouldRead(p, placed, k) == ReadAs(p.positionals[k].number, Text(placed[k], FALSE))

\* What parse() leaves is what the command line says.
Agrees(p, a, s) ==
  /\ s.result = ShouldReturn(p, a) /\ s.result # "none"
  /\ \A name \in DOMAIN p.options : s.storage[name] = ShouldHold(p, a, name)
  /\ s.positional_args = ShouldPlace(p, a)
  /\ s.result = "success" =>
       \A k \in DOMAIN p.positionals :
         s.places[k] = IF k \in DOMAIN ShouldPlace(p, a) THEN ShouldRead(p, ShouldPlace(p, a), k)
                       ELSE p.positionals[k].default

LEMMA Classes ==
  ASSUME NEW arg \in Args
  PROVE  LET type == ClassifyArgument(arg)
         IN  /\ type \in {"double_dash", "lone_dash", "positional", "long_single",
                          "short_multiple", "long", "short"}
             /\ type = "double_dash" <=> arg = DoubleDash
             /\ type \in {"lone_dash", "positional"} <=> (arg.dashes = 0 \/ arg = LoneDash)
<1>1. arg.dashes \in 0 .. 2
  BY DEF Args
<1>2. arg.dashes = 0 \/ arg.dashes = 1 \/ arg.dashes = 2
  BY <1>1
<1>3. DoubleDash.dashes = 2 /\ LoneDash.dashes = 1
  BY DEF DoubleDash, LoneDash, Arg
<1> DEFINE double == arg = DoubleDash
           lone == arg = LoneDash
           letter == arg.name \in Letters /\ ~ arg.eq
           type == ClassifyArgument(arg)
<1>4. type = IF double THEN "double_dash"
             ELSE IF lone THEN "lone_dash"
             ELSE IF arg.dashes = 2 THEN IF letter THEN "long_single" ELSE "long"
             ELSE IF arg.dashes = 1 THEN IF letter THEN "short" ELSE "short_multiple"
             ELSE "positional"
  BY DEF ClassifyArgument
<1>5. /\ double => arg.dashes = 2 /\ ~ lone
      /\ lone => arg.dashes = 1
  BY <1>3
<1> HIDE DEF double, lone, letter, type
<1>6. /\ type \in {"double_dash", "lone_dash", "positional", "long_single",
                   "short_multiple", "long", "short"}
      /\ type = "double_dash" <=> double
      /\ type \in {"lone_dash", "positional"} <=> (arg.dashes = 0 \/ lone)
  BY <1>2, <1>4, <1>5
<1>7. QED
  BY <1>6 DEF double, lone, type

LEMMA PickedNone == \A a : Picked(a, {}) = << >>
<1> SUFFICES ASSUME NEW a PROVE Picked(a, {}) = << >>
  OBVIOUS
<1>1. DOMAIN InOrder({}) = {}
  BY InOrderNone
<1>2. Picked(a, {}) \in [1 .. 0 -> {}]
  BY <1>1 DEF Picked
<1>3. QED
  BY <1>2

\* A program is started with its name in front of its arguments.
LEMMA LoopStarts ==
  ASSUME NEW p, Built(p), NEW a \in Seq(Args), NEW line, line # << >>
  PROVE  Loop(p, a, Started(p, line))
<1> DEFINE s == Started(p, line)
<1>1. /\ DOMAIN s = ParseFields /\ s.result = "none" /\ s.i = 1
      /\ s.parsed = {} /\ s.positional_args = << >>
      /\ s.storage = [name \in DOMAIN p.options |-> p.options[name].default]
      /\ s.places = [k \in DOMAIN p.positionals |-> p.positionals[k].default]
  BY DEF Started, ParseFields
<1> HIDE DEF s
<1>2. 1 .. 1 - 1 = {}
  OBVIOUS
<1>3. /\ GoesOn(p, a, 1) /\ PlacedIn(p, a, 1) = {}
      /\ \A name : GivenIn(p, a, name, 1) = {}
  BY <1>2 DEF GoesOn, PlacedIn, GivenIn
<1>4. /\ 1 \in 1 .. Len(a) + 1
      /\ 1 <= Len(a) => Roles(p, a)[1] = "seen"
  <2>1. Len(a) \in Nat
    BY ArgsAre
  <2>2. 1 <= Len(a) => 1 \in 1 .. Len(a)
    BY <2>1
  <2>3. QED
    BY <2>1, <2>2, RoleFacts
<1>5. \A name \in DOMAIN p.options :
        s.storage[name] = Holds(p.options[name], a, GivenIn(p, a, name, 1))
  <2> SUFFICES ASSUME NEW name \in DOMAIN p.options
               PROVE  s.storage[name] = Holds(p.options[name], a, GivenIn(p, a, name, 1))
    OBVIOUS
  <2>1. Holds(p.options[name], a, GivenIn(p, a, name, 1)) = p.options[name].default
    BY <1>3, HoldsNone, Zenon
  <2>2. s.storage[name] = p.options[name].default
    BY <1>1
  <2>3. QED
    BY <2>1, <2>2, Zenon
<1>6. \A name \in DOMAIN p.options : name \in s.parsed <=> GivenIn(p, a, name, 1) # {}
  BY <1>1, <1>3, Zenon
<1>7. DOMAIN s.storage = DOMAIN p.options
  BY <1>1, Zenon
<1>8. s.positional_args = Picked(a, PlacedIn(p, a, 1))
  BY <1>1, <1>3, PickedNone, Zenon
<1>9. Loop(p, a, s)
  BY <1>1, <1>3, <1>4, <1>5, <1>6, <1>7, <1>8, Zenon DEF Loop, Reached
<1>10. QED
  BY <1>9 DEF s

-----------------------------------------------------------------------------
(* One argument more *)

LEMMA ReachedNext ==
  ASSUME NEW p, NEW a \in Seq(Args), NEW s, NEW t, NEW i \in 1 .. Len(a),
         Reached(p, a, s, i), Ends(p, a, i) = "no",
         DOMAIN t.storage = DOMAIN p.options,
         \A name \in DOMAIN p.options :
           /\ t.storage[name] = IF Gives(p, a, name, i)
                                THEN Holds(p.options[name], a, GivenIn(p, a, name, i) \cup {i})
                                ELSE s.storage[name]
           /\ name \in t.parsed <=> (name \in s.parsed \/ Gives(p, a, name, i)),
         t.positional_args = IF Places(p, a, i) THEN Append(s.positional_args, a[i])
                             ELSE s.positional_args
  PROVE  Reached(p, a, t, i + 1)
<1>1. i \in Nat /\ i # 0
  BY ArgsAre
<1>2. GoesOn(p, a, i + 1)
  BY <1>1, GoesOnNext DEF Reached
<1>3. ASSUME NEW name \in DOMAIN p.options
      PROVE  /\ t.storage[name] = Holds(p.options[name], a, GivenIn(p, a, name, i + 1))
             /\ name \in t.parsed <=> GivenIn(p, a, name, i + 1) # {}
  <2>1. /\ s.storage[name] = Holds(p.options[name], a, GivenIn(p, a, name, i))
        /\ name \in s.parsed <=> GivenIn(p, a, name, i) # {}
    BY DEF Reached
  <2>2. CASE Gives(p, a, name, i)
    <3>1. GivenIn(p, a, name, i + 1) = GivenIn(p, a, name, i) \cup {i}
      BY <1>1, <2>2, GivenNext
    <3>2. i \in GivenIn(p, a, name, i + 1)
      BY <3>1, Zenon
    <3>3. QED
      BY <2>2, <3>1, <3>2, Zenon
  <2>3. CASE ~ Gives(p, a, name, i)
    <3>1. GivenIn(p, a, name, i + 1) = GivenIn(p, a, name, i)
      BY <1>1, <2>3, GivenNext
    <3>2. QED
      BY <2>1, <2>3, <3>1, Zenon
  <2>4. QED
    BY <2>2, <2>3
<1>4. t.positional_args = Picked(a, PlacedIn(p, a, i + 1))
  <2>1. s.positional_args = Picked(a, PlacedIn(p, a, i)) /\ PlacedIn(p, a, i) \subseteq 1 .. i - 1
    BY <1>1, PlacedNext, Zenon DEF Reached
  <2>2. CASE Places(p, a, i)
    <3>1. PlacedIn(p, a, i + 1) = PlacedIn(p, a, i) \cup {i}
      BY <1>1, <2>2, PlacedNext
    <3>2. Picked(a, PlacedIn(p, a, i) \cup {i}) = Append(Picked(a, PlacedIn(p, a, i)), a[i])
      BY <2>1, PickedMore, Zenon
    <3>3. QED
      BY <2>1, <2>2, <3>1, <3>2, Zenon
  <2>3. CASE ~ Places(p, a, i)
    <3>1. PlacedIn(p, a, i + 1) = PlacedIn(p, a, i)
      BY <1>1, <2>3, PlacedNext
    <3>2. QED
      BY <2>1, <2>3, <3>1, Zenon
  <2>4. QED
    BY <2>2, <2>3
<1>5. QED
  BY <1>2, <1>3, <1>4, Zenon DEF Reached

\* The value of an option is no argument of its own.
LEMMA ReachedValue ==
  ASSUME NEW p, NEW a \in Seq(Args), NEW s, NEW i \in 1 .. Len(a),
         Reached(p, a, s, i), Roles(p, a)[i] = "value"
  PROVE  Reached(p, a, s, i + 1)
<1>1. Ends(p, a, i) = "no" /\ ~ Places(p, a, i) /\ \A name : ~ Gives(p, a, name, i)
  BY DEF Ends, Places, Gives
<1>2. DOMAIN s.storage = DOMAIN p.options
  BY DEF Reached
<1>3. QED
  BY <1>1, <1>2, ReachedNext, Zenon

LEMMA DashEnds ==
  ASSUME NEW p, NEW a, NEW i, Roles(p, a)[i] = "seen", a[i] = DoubleDash
  PROVE  Ends(p, a, i) = "no" /\ ~ Known(p, a[i]) /\ ~ Places(p, a, i)
<1>1. /\ DoubleDash.name = "" /\ DoubleDash.dashes = 2 /\ LoneDash.dashes = 1
      /\ Arg(1, "h", FALSE, "").name = "h" /\ Arg(2, "help", FALSE, "").name = "help"
      /\ Arg(1, "v", FALSE, "").name = "v" /\ Arg(2, "version", FALSE, "").name = "version"
  BY DEF DoubleDash, LoneDash, Arg
<1>2. /\ DoubleDash # Arg(1, "h", FALSE, "") /\ DoubleDash # Arg(2, "help", FALSE, "")
      /\ DoubleDash # Arg(1, "v", FALSE, "") /\ DoubleDash # Arg(2, "version", FALSE, "")
      /\ DoubleDash # LoneDash /\ DoubleDash.dashes # 0
  <2>1. "" # "h" /\ "" # "help" /\ "" # "v" /\ "" # "version"
    OBVIOUS
  <2>2. 2 # 1 /\ 2 # 0
    OBVIOUS
  <2>3. QED
    BY <1>1, <2>1, <2>2, Zenon
<1>3. ~ IsHelpFlag(DoubleDash) /\ ~ IsVersionFlag(DoubleDash)
  BY <1>2, Zenon DEF IsHelpFlag, IsVersionFlag
<1>4. Ends(p, a, i) = "no"
  BY <1>3 DEF Ends
<1>5. ~ Known(p, a[i])
  BY Zenon DEF Known, ClassifyArgument
<1>6. ~ Places(p, a, i)
  BY <1>2, Zenon DEF Places
<1>7. QED
  BY <1>4, <1>5, <1>6

\* All that is behind a double dash is positional.
LEMMA ReachedEnd ==
  ASSUME NEW p, NEW a \in Seq(Args), NEW s, NEW t, NEW i \in 1 .. Len(a),
         Reached(p, a, s, i), Roles(p, a)[i] = "seen", a[i] = DoubleDash,
         t.storage = s.storage, t.parsed = s.parsed,
         t.positional_args = s.positional_args \o Behind(a, i)
  PROVE  Reached(p, a, t, Len(a) + 1)
<1> DEFINE n == Len(a)
<1>1. n \in Nat /\ i \in Nat /\ i # 0
  BY ArgsAre
<1>2. \A j \in i + 1 .. n : Roles(p, a)[j] = "behind"
  BY AllBehind
<1>3. /\ \A j : j \in 1 .. n + 1 - 1 <=> j \in 1 .. i - 1 \/ j = i \/ j \in i + 1 .. n
      /\ \A j : j \in 1 .. i - 1 => j \notin i + 1 .. n /\ j # i
  BY <1>1
<1>4. Ends(p, a, i) = "no" /\ ~ Known(p, a[i]) /\ ~ Places(p, a, i)
  BY DashEnds
<1>5. \A j \in i + 1 .. n : /\ Ends(p, a, j) = "no" /\ Places(p, a, j)
                            /\ \A name : ~ Gives(p, a, name, j)
  BY <1>2 DEF Ends, Places, Gives
<1>6. \A name : ~ Gives(p, a, name, i)
  BY <1>4 DEF Gives
<1>7. GoesOn(p, a, n + 1)
  <2>1. GoesOn(p, a, i)
    BY DEF Reached
  <2>2. QED
    BY <1>3, <1>4, <1>5, <2>1 DEF GoesOn
<1>8. \A name : GivenIn(p, a, name, n + 1) = GivenIn(p, a, name, i)
  BY <1>3, <1>5, <1>6 DEF GivenIn
<1>9. PlacedIn(p, a, n + 1) = PlacedIn(p, a, i) \cup (i + 1 .. n)
  BY <1>3, <1>4, <1>5 DEF PlacedIn
<1>10. Picked(a, PlacedIn(p, a, i) \cup (i + 1 .. n)) = Picked(a, PlacedIn(p, a, i)) \o Behind(a, i)
  <2>1. PlacedIn(p, a, i) \subseteq 1 .. i - 1
    BY <1>1, PlacedNext, Zenon
  <2>2. QED
    BY <2>1, PickedTail, Zenon
<1>11. QED
  BY <1>7, <1>8, <1>9, <1>10, Zenon DEF Reached

-----------------------------------------------------------------------------
(* Where the parsing ends *)

LEMMA ReturnsEarly ==
  ASSUME NEW p, NEW a, EndsAt(p, a) <= Len(a)
  PROVE  ShouldReturn(p, a) = Ends(p, a, EndsAt(p, a))
BY Zenon DEF ShouldReturn

\* An argument that ends the parsing and stores nothing.
LEMMA Stops ==
  ASSUME NEW p, NEW a \in Seq(Args), NEW s, Loop(p, a, s), s.i <= Len(a), NEW r,
         Ends(p, a, s.i) = r, r \notin {"no", "option_parse_failed", "success", "none"},
         NEW t, t.result = r, t.storage = s.storage, t.positional_args = s.positional_args
  PROVE  Agrees(p, a, t)
<1> DEFINE i == s.i
<1>1. i \in 1 .. Len(a) + 1 /\ Reached(p, a, s, i) /\ GoesOn(p, a, i) /\ i \in Nat /\ i # 0
  BY ArgsAre DEF Loop, Reached
<1>2. Ends(p, a, i) # "no"
  OBVIOUS
<1>3. /\ EndsAt(p, a) = i
      /\ \A name : GivenAt(p, a, name) = GivenIn(p, a, name, i + 1)
      /\ ShouldPlace(p, a) = Picked(a, PlacedIn(p, a, i))
  BY <1>1, <1>2, EndsAtIs
<1>4. \A name : ~ Gives(p, a, name, i)
  BY DEF Gives
<1>5. \A name : GivenIn(p, a, name, i + 1) = GivenIn(p, a, name, i)
  BY <1>1, <1>4, GivenNext
<1>6. ShouldReturn(p, a) = r
  BY <1>3, ReturnsEarly
<1>7. \A name \in DOMAIN p.options : t.storage[name] = ShouldHold(p, a, name)
  BY <1>1, <1>3, <1>5, Zenon DEF ShouldHold, Reached
<1>8. t.positional_args = ShouldPlace(p, a)
  BY <1>1, <1>3, Zenon DEF Reached
<1>9. t.result # "none" /\ t.result # "success"
  OBVIOUS
<1>10. QED
  BY <1>6, <1>7, <1>8, <1>9, Zenon DEF Agrees

\* An option with a value that is no number.
LEMMA StopsStoring ==
  ASSUME NEW p, NEW a \in Seq(Args), NEW s, Loop(p, a, s), s.i <= Len(a),
         Ends(p, a, s.i) = "option_parse_failed",
         NEW t, t.result = "option_parse_failed",
         \A name \in DOMAIN p.options :
           t.storage[name] = IF Gives(p, a, name, s.i)
                             THEN Holds(p.options[name], a, GivenIn(p, a, name, s.i) \cup {s.i})
                             ELSE s.storage[name],
         ~ Places(p, a, s.i), t.positional_args = s.positional_args
  PROVE  Agrees(p, a, t)
<1> DEFINE i == s.i
<1>1. i \in 1 .. Len(a) + 1 /\ Reached(p, a, s, i) /\ GoesOn(p, a, i) /\ i \in Nat /\ i # 0
  BY ArgsAre DEF Loop, Reached
<1>2. Ends(p, a, i) # "no"
  OBVIOUS
<1>3. /\ EndsAt(p, a) = i
      /\ \A name : GivenAt(p, a, name) = GivenIn(p, a, name, i + 1)
      /\ ShouldPlace(p, a) = Picked(a, PlacedIn(p, a, i))
  BY <1>1, <1>2, EndsAtIs
<1>4. ShouldReturn(p, a) = "option_parse_failed"
  BY <1>3, ReturnsEarly
<1>5. ASSUME NEW name \in DOMAIN p.options
      PROVE  t.storage[name] = ShouldHold(p, a, name)
  <2>1. s.storage[name] = Holds(p.options[name], a, GivenIn(p, a, name, i))
    BY <1>1 DEF Reached
  <2>2. ShouldHold(p, a, name) = Holds(p.options[name], a, GivenIn(p, a, name, i + 1))
    BY <1>3, Zenon DEF ShouldHold
  <2>3. CASE Gives(p, a, name, i)
    <3>1. GivenIn(p, a, name, i + 1) = GivenIn(p, a, name, i) \cup {i}
      BY <1>1, <2>3, GivenNext
    <3>2. QED
      BY <2>2, <2>3, <3>1, Zenon
  <2>4. CASE ~ Gives(p, a, name, i)
    <3>1. GivenIn(p, a, name, i + 1) = GivenIn(p, a, name, i)
      BY <1>1, <2>4, GivenNext
    <3>2. QED
      BY <2>1, <2>2, <2>4, <3>1, Zenon
  <2>5. QED
    BY <2>3, <2>4
<1>6. t.positional_args = ShouldPlace(p, a)
  BY <1>1, <1>3, Zenon DEF Reached
<1>7. t.result # "none" /\ t.result # "success"
  OBVIOUS
<1>8. QED
  BY <1>4, <1>5, <1>6, <1>7, Zenon DEF Agrees

-----------------------------------------------------------------------------
(* One option *)

IsOption(p, a, i) ==
  /\ Roles(p, a)[i] = "seen" /\ a[i] \in Args
  /\ ~ IsHelpFlag(a[i]) /\ ~ IsVersionFlag(a[i])
  /\ ClassifyArgument(a[i]) \in {"long", "short"}

LEMMA OptionEnds ==
  ASSUME NEW p, NEW a, NEW i, IsOption(p, a, i)
  PROVE  LET option == p.options[Names(p, a[i])]
             eq == a[i].eq
         IN  /\ Ends(p, a, i) =
                  IF Names(p, a[i]) \notin DOMAIN p.options THEN "unknown_argument"
                  ELSE IF option.kind = "flag" THEN IF eq THEN "flag_has_value" ELSE "no"
                  ELSE IF ~ eq /\ i = Len(a) THEN "option_missing_value"
                  ELSE IF option.number /\ ~ IsNumber(GivenText(a, i))
                  THEN "option_parse_failed" ELSE "no"
             /\ ~ Places(p, a, i)
             /\ Known(p, a[i]) <=> Names(p, a[i]) \in DOMAIN p.options
             /\ a[i] # DoubleDash
             /\ Asks(p, a[i]) <=> /\ Names(p, a[i]) \in DOMAIN p.options
                                  /\ ~ eq /\ option.kind # "flag"
<1> DEFINE arg == a[i]
           option == p.options[Names(p, arg)]
           has == Names(p, arg) \in DOMAIN p.options
           flag == option.kind = "flag"
           eq == arg.eq
           bad == option.number /\ ~ IsNumber(GivenText(a, i))
           known == Known(p, arg)
           asks == Asks(p, arg)
           end == Ends(p, a, i)
           ended == i = Len(a)
<1>1. /\ ClassifyArgument(arg) \in {"long", "short"}
      /\ ClassifyArgument(arg) \notin {"long_single", "short_multiple"}
  BY DEF IsOption
<1>2. arg.dashes # 0 /\ arg # LoneDash /\ arg # DoubleDash
  <2>1. arg \in Args
    BY DEF IsOption
  <2>2. ClassifyArgument(arg) \notin {"double_dash", "lone_dash", "positional"}
    BY <1>1
  <2>3. QED
    BY <2>1, <2>2, Classes
<1>3. ~ Places(p, a, i)
  BY <1>2, Zenon DEF Places, IsOption
<1>4. known <=> has
  BY <1>1, Zenon DEF Known, IsOption
<1>5. asks <=> known /\ ~ eq /\ ~ flag
  BY Zenon DEF Asks
<1>6. end = IF ~ known THEN "unknown_argument"
            ELSE IF flag THEN IF eq THEN "flag_has_value" ELSE "no"
            ELSE IF asks /\ ended THEN "option_missing_value"
            ELSE IF bad THEN "option_parse_failed" ELSE "no"
  BY <1>1, <1>2, Zenon DEF Ends, IsOption
<1> HIDE DEF known, has, asks, flag, eq, bad, end, ended
<1>7. end = IF ~ has THEN "unknown_argument"
            ELSE IF flag THEN IF eq THEN "flag_has_value" ELSE "no"
            ELSE IF ~ eq /\ ended THEN "option_missing_value"
            ELSE IF bad THEN "option_parse_failed" ELSE "no"
  BY <1>4, <1>5, <1>6
<1>8. asks <=> has /\ ~ eq /\ ~ flag
  BY <1>4, <1>5
<1>9. QED
  BY <1>2, <1>3, <1>4, <1>7, <1>8, Zenon DEF known, has, asks, flag, eq, bad, end, ended

\* At position i is an option, with its value if it takes one.
WellGiven(p, a, i) ==
  LET option == p.options[Names(p, a[i])]
  IN  /\ IsOption(p, a, i) /\ Names(p, a[i]) \in DOMAIN p.options
      /\ ~ (option.kind = "flag" /\ a[i].eq)
      /\ ~ (option.kind # "flag" /\ ~ a[i].eq /\ i = Len(a))

\* What parse() of the option makes of it, given before at these positions.
IntoOf(p, a, i, given) ==
  LET option == p.options[Names(p, a[i])]
  IN  ParseInto(option, Holds(option, a, given),
                IF option.kind = "flag" THEN Text(Word(""), FALSE) ELSE GivenText(a, i))

IsGiven(p, a, i, given, into) ==
  LET option == p.options[Names(p, a[i])]
  IN  /\ into.stored = Holds(option, a, given \cup {i})
      /\ Ends(p, a, i) = IF into.ok THEN "no" ELSE "option_parse_failed"
      /\ \A name : Gives(p, a, name, i) <=> name = Names(p, a[i])

LEMMA GivenHere ==
  ASSUME NEW p, Built(p), NEW a, NEW i \in Nat, i # 0, WellGiven(p, a, i),
         NEW given, given \subseteq 1 .. i - 1, NEW into, into = IntoOf(p, a, i, given)
  PROVE  IsGiven(p, a, i, given, into)
<1> DEFINE option == p.options[Names(p, a[i])]
           value == ValueAt(option, a, i)
           before == Holds(option, a, given)
           after == Holds(option, a, given \cup {i})
           number == option.number
           text == GivenText(a, i)
           end == Ends(p, a, i)
<1>0. /\ IsOption(p, a, i) /\ Names(p, a[i]) \in DOMAIN p.options
      /\ ~ (option.kind = "flag" /\ a[i].eq)
      /\ ~ (option.kind # "flag" /\ ~ a[i].eq /\ i = Len(a))
      /\ into = ParseInto(option, before, IF option.kind = "flag" THEN Text(Word(""), FALSE)
                                          ELSE text)
  BY Zenon DEF WellGiven, IntoOf
<1>1. /\ number \in BOOLEAN
      /\ option.kind = "flag" \/ option.kind = "option" \/ option.kind = "list"
  BY <1>0, Zenon DEF Built
<1>2. /\ option.kind = "flag" => after = TRUE
      /\ option.kind = "option" =>
           after = IF LeavesStored(number, text) THEN before ELSE value.stored
      /\ option.kind = "list" =>
           after = IF value.ok THEN Append(before, value.stored) ELSE before
  BY HoldsMore, Zenon
<1>3. end = IF option.kind = "flag" THEN "no"
            ELSE IF number /\ ~ IsNumber(text) THEN "option_parse_failed" ELSE "no"
  <2>1. end = IF option.kind = "flag" THEN IF a[i].eq THEN "flag_has_value" ELSE "no"
              ELSE IF ~ a[i].eq /\ i = Len(a) THEN "option_missing_value"
              ELSE IF number /\ ~ IsNumber(text) THEN "option_parse_failed" ELSE "no"
    BY <1>0, OptionEnds, Zenon
  <2>2. ~ (option.kind = "flag" /\ a[i].eq) /\ ~ (option.kind # "flag" /\ ~ a[i].eq /\ i = Len(a))
    BY <1>0, Zenon
  <2> HIDE DEF end, number, text
  <2>3. QED
    BY <2>1, <2>2
<1>4. \A stored :
        LET scalar == ParseScalar(number, stored, text)
        IN  /\ scalar.ok \in BOOLEAN
            /\ scalar.ok <=> ~ (number /\ ~ IsNumber(text))
            /\ scalar.ok => scalar.stored = ReadAs(number, text)
            /\ ~ scalar.ok =>
                 scalar.stored = IF LeavesStored(number, text) THEN stored ELSE Zero
  BY <1>1, ScalarIs, Zenon
<1>5. /\ value = ParseScalar(number, option.default, text)
      /\ LeavesStored(number, text) => ~ value.ok
  <2>1. value = ParseScalar(number, option.default, text)
    BY Zenon DEF ValueAt
  <2>2. LeavesStored(number, text) => number /\ ~ IsNumber(text)
    BY Zenon DEF LeavesStored
  <2> HIDE DEF value, number, text
  <2>3. QED
    BY <1>4, <2>1, <2>2
<1>6. /\ into.stored = after
      /\ option.kind = "flag" => into.ok = TRUE
      /\ option.kind # "flag" => into.ok = value.ok
  <2>1. CASE option.kind = "flag"
    <3>1. into = Parsed(TRUE, TRUE)
      BY <1>0, <2>1 DEF ParseInto
    <3>2. into.ok = TRUE /\ into.stored = TRUE
      BY <3>1, ParsedIs, Zenon
    <3>3. QED
      BY <1>2, <2>1, <3>2
  <2>2. CASE option.kind = "option"
    <3>1. into = ParseScalar(number, before, text)
      BY <1>0, <2>2 DEF ParseInto
    <3> HIDE DEF value, number, text, before, after
    <3>2. /\ into.ok = value.ok
          /\ into.stored = IF LeavesStored(number, text) THEN before ELSE value.stored
      BY <1>4, <1>5, <3>1
    <3>3. QED
      BY <1>2, <2>2, <3>2
  <2>3. CASE option.kind = "list"
    <3> DEFINE grown == IF value.ok THEN Append(before, value.stored) ELSE before
    <3>0. LET item == ParseScalar(number, Zero, text)
          IN  /\ into = Parsed(item.ok, IF item.ok THEN Append(before, item.stored)
                                        ELSE before)
              /\ item.ok = value.ok
              /\ item.ok => item.stored = value.stored
      <4> DEFINE item == ParseScalar(number, Zero, text)
      <4>1. into = Parsed(item.ok, IF item.ok THEN Append(before, item.stored) ELSE before)
        BY <1>0, <2>3 DEF ParseInto
      <4> HIDE DEF value, number, text, before
      <4>2. item.ok = value.ok /\ (item.ok => item.stored = value.stored)
        BY <1>4, <1>5
      <4>3. QED
        BY <4>1, <4>2
    <3>1. into = Parsed(value.ok, grown)
      <4> HIDE DEF value, number, text, before
      <4>1. QED
        BY <3>0
    <3>2. after = grown
      BY <1>2, <2>3
    <3> HIDE DEF value, before, grown, after
    <3>3. into.ok = value.ok /\ into.stored = grown
      <4>1. /\ Parsed(value.ok, grown).ok = value.ok
            /\ Parsed(value.ok, grown).stored = grown
        BY ParsedIs, Zenon
      <4>2. QED
        BY <3>1, <4>1
    <3>4. QED
      BY <2>3, <3>2, <3>3
  <2>4. QED
    BY <1>1, <2>1, <2>2, <2>3
<1>7. end = IF into.ok THEN "no" ELSE "option_parse_failed"
  <2> DEFINE isnumber == IsNumber(text)
             flag == option.kind = "flag"
  <2>1. isnumber \in BOOLEAN
    BY DEF IsNumber
  <2>2. /\ flag => into.ok = TRUE
        /\ ~ flag => into.ok = (~ number \/ isnumber)
    <3>1. value.ok \in BOOLEAN /\ (value.ok <=> ~ (number /\ ~ isnumber))
      BY <1>4, <1>5, Zenon
    <3> HIDE DEF value, number, isnumber
    <3>2. QED
      BY <1>1, <1>6, <2>1, <3>1 DEF number
  <2>3. end = IF flag THEN "no"
              ELSE IF number /\ ~ isnumber THEN "option_parse_failed" ELSE "no"
    BY <1>3
  <2> HIDE DEF isnumber, number, text, end, flag
  <2>4. QED
    BY <2>1, <2>2, <2>3
<1>8. \A name : Gives(p, a, name, i) <=> name = Names(p, a[i])
  <2>1. end \in {"no", "option_parse_failed"}
    BY <1>7
  <2>2. Known(p, a[i]) /\ Roles(p, a)[i] = "seen"
    BY <1>0, OptionEnds DEF IsOption
  <2>3. QED
    BY <2>1, <2>2 DEF Gives
<1>9. QED
  BY <1>6, <1>7, <1>8, Zenon DEF IsGiven

\* One turn of the loop leads to the next, or to the end of the parsing.
Takes(p, a, t) == Loop(p, a, t) \/ Agrees(p, a, t)

\* The option at s.i, with its value, is stored in t.
OptionTaken(p, a, s, t, into) ==
  LET name == Names(p, a[s.i])
      option == p.options[name]
      flag == option.kind = "flag"
  IN  /\ IsOption(p, a, s.i) /\ name \in DOMAIN p.options
      /\ ~ (flag /\ a[s.i].eq) /\ ~ (~ flag /\ ~ a[s.i].eq /\ s.i = Len(a))
      /\ into = ParseInto(option, s.storage[name],
                          IF flag THEN Text(Word(""), FALSE) ELSE GivenText(a, s.i))
      /\ DOMAIN t = ParseFields
      /\ flag \/ a[s.i].eq => t.i = s.i + 1
      /\ ~ (flag \/ a[s.i].eq) => t.i = s.i + 1 + 1
      /\ t.result = IF into.ok THEN "none" ELSE "option_parse_failed"
      /\ t.parsed = s.parsed \cup {name}
      /\ t.storage = [s.storage EXCEPT ![name] = into.stored]
      /\ t.positional_args = s.positional_args /\ t.places = s.places

LEMMA OptionStored ==
  ASSUME NEW p, Built(p), NEW a \in Seq(Args), NEW s, Loop(p, a, s), s.i <= Len(a),
         NEW t, NEW into, OptionTaken(p, a, s, t, into)
  PROVE  Takes(p, a, t)
<1> DEFINE i == s.i
           name == Names(p, a[i])
           option == p.options[name]
           bare == option.kind = "flag"
           valued == a[i].eq
           given == GivenIn(p, a, name, i)
           n == Len(a)
<1>0. /\ IsOption(p, a, i) /\ name \in DOMAIN p.options
      /\ ~ (bare /\ valued) /\ ~ (~ bare /\ ~ valued /\ i = n)
      /\ into = ParseInto(option, s.storage[name],
                          IF bare THEN Text(Word(""), FALSE) ELSE GivenText(a, i))
      /\ DOMAIN t = ParseFields
      /\ bare \/ valued => t.i = i + 1
      /\ ~ (bare \/ valued) => t.i = i + 1 + 1
      /\ t.result = IF into.ok THEN "none" ELSE "option_parse_failed"
      /\ t.parsed = s.parsed \cup {name}
      /\ t.storage = [s.storage EXCEPT ![name] = into.stored]
      /\ t.positional_args = s.positional_args /\ t.places = s.places
  BY Zenon DEF OptionTaken
<1>moves. /\ bare \/ valued => t.i = i + 1
          /\ ~ (bare \/ valued) => t.i = i + 1 + 1 /\ i # n
          /\ IsOption(p, a, i)
  BY <1>0, Zenon
<1>1. /\ i \in 1 .. n /\ i \in Nat /\ i # 0 /\ n \in Nat
      /\ Reached(p, a, s, i) /\ Roles(p, a)[i] = "seen"
  <2>1. /\ i \in 1 .. n + 1 /\ Reached(p, a, s, i)
        /\ i <= n => Roles(p, a)[i] = "seen"
    BY Zenon DEF Loop
  <2>2. n \in Nat
    BY ArgsAre
  <2> HIDE DEF i
  <2>3. i <= n
    BY DEF i
  <2>4. QED
    BY <2>1, <2>2, <2>3
<1>2. /\ DOMAIN s.storage = DOMAIN p.options
      /\ s.storage[name] = Holds(option, a, given)
  BY <1>0, <1>1, Zenon DEF Reached
<1>3. given \subseteq 1 .. i - 1
  BY <1>1, GivenNext
<1>4. into = IntoOf(p, a, i, given)
  BY <1>0, <1>2, Zenon DEF IntoOf
<1>5. /\ into.stored = Holds(option, a, given \cup {i})
      /\ Ends(p, a, i) = IF into.ok THEN "no" ELSE "option_parse_failed"
      /\ \A other : Gives(p, a, other, i) <=> other = name
  <2>1. WellGiven(p, a, i)
    BY <1>0, Zenon DEF WellGiven
  <2>2. IsGiven(p, a, i, given, into)
    BY <1>1, <1>3, <1>4, <2>1, GivenHere, Zenon
  <2>3. QED
    BY <2>2, Zenon DEF IsGiven
<1>6. ASSUME NEW other \in DOMAIN p.options
      PROVE  /\ t.storage[other] = IF Gives(p, a, other, i)
                                   THEN Holds(p.options[other], a, GivenIn(p, a, other, i) \cup {i})
                                   ELSE s.storage[other]
             /\ other \in t.parsed <=> (other \in s.parsed \/ Gives(p, a, other, i))
  <2>1. t.storage[other] = IF other = name THEN into.stored ELSE s.storage[other]
    BY <1>0, <1>2
  <2>2. CASE other = name
    BY <1>0, <1>5, <2>1, <2>2, Zenon
  <2>3. CASE other # name
    BY <1>0, <1>5, <2>1, <2>3, Zenon
  <2>4. QED
    BY <2>2, <2>3
<1>7. /\ ~ Places(p, a, i) /\ a[i] # DoubleDash
      /\ Asks(p, a[i]) <=> ~ valued /\ ~ bare
  <2>1. /\ ~ Places(p, a, i) /\ a[i] # DoubleDash
        /\ Asks(p, a[i]) <=> Names(p, a[i]) \in DOMAIN p.options /\ ~ valued /\ ~ bare
    BY <1>moves, OptionEnds, Zenon
  <2>2. Names(p, a[i]) \in DOMAIN p.options
    BY <1>0
  <2> HIDE DEF valued, bare
  <2>3. QED
    BY <2>1, <2>2
<1>8. DOMAIN t.storage = DOMAIN p.options
  BY <1>0, <1>2
<1>9. CASE into.ok
  <2>1. Ends(p, a, i) = "no" /\ t.result = "none"
    BY <1>0, <1>5, <1>9
  <2>2. t.positional_args = IF Places(p, a, i) THEN Append(s.positional_args, a[i])
                            ELSE s.positional_args
    BY <1>0, <1>7
  <2> HIDE DEF i
  <2>3. Reached(p, a, t, i + 1)
    BY <1>1, <1>6, <1>8, <2>1, <2>2, ReachedNext, Zenon
  <2>4. i < n => Roles(p, a)[i + 1] = IF Asks(p, a[i]) THEN "value" ELSE "seen"
    BY <1>1, <1>7, RoleFacts
  <2>5. CASE bare \/ valued
    <3>1. t.i = i + 1 /\ t.i \in 1 .. n + 1
      BY <1>moves, <1>1, <2>5
    <3>2. t.i <= n => Roles(p, a)[t.i] = "seen"
      BY <1>1, <1>7, <2>4, <2>5, <3>1
    <3>3. Reached(p, a, t, t.i)
      BY <2>3, <3>1
    <3>4. Loop(p, a, t)
      BY <1>0, <2>1, <3>1, <3>2, <3>3 DEF Loop
    <3>5. QED
      BY <3>4 DEF Takes
  <2>6. CASE ~ (bare \/ valued)
    <3>1. i < n /\ i + 1 \in 1 .. n
      BY <1>moves, <1>1, <2>6
    <3>2. Roles(p, a)[i + 1] = "value"
      BY <1>7, <2>4, <2>6, <3>1
    <3>3. Reached(p, a, t, i + 1 + 1)
      BY <2>3, <3>1, <3>2, ReachedValue
    <3>4. t.i = i + 1 + 1 /\ t.i \in 1 .. n + 1
      BY <1>moves, <1>1, <2>6, <3>1
    <3>5. t.i <= n => Roles(p, a)[t.i] = "seen"
      BY <1>1, <3>1, <3>2, <3>4, RoleFacts
    <3>6. Reached(p, a, t, t.i)
      BY <3>3, <3>4
    <3>7. Loop(p, a, t)
      BY <1>0, <2>1, <3>4, <3>5, <3>6 DEF Loop
    <3>8. QED
      BY <3>7 DEF Takes
  <2>7. QED
    BY <2>5, <2>6
<1>10. CASE ~ into.ok
  <2>1. Ends(p, a, i) = "option_parse_failed" /\ t.result = "option_parse_failed"
    BY <1>0, <1>5, <1>10
  <2>2. Agrees(p, a, t)
    BY <1>0, <1>6, <1>7, <2>1, StopsStoring, Zenon
  <2>3. QED
    BY <2>2 DEF Takes
<1>11. QED
  BY <1>9, <1>10

LEMMA FailingIs ==
  ASSUME NEW s, DOMAIN s = ParseFields, NEW r
  PROVE  /\ Failing(s, r).result = r /\ Failing(s, r).storage = s.storage
         /\ Failing(s, r).positional_args = s.positional_args
BY DEF Failing, ParseFields

LEMMA TakeOptionTakes ==
  ASSUME NEW p, Built(p), NEW a \in Seq(Args), NEW s, Loop(p, a, s), s.i <= Len(a),
         IsOption(p, a, s.i)
  PROVE  Takes(p, a, TakeOption(p, a, s))
<1> DEFINE i == s.i
           arg == a[i]
           name == Names(p, arg)
           option == p.options[name]
           flag == option.kind = "flag"
           missing == ~ flag /\ ~ arg.eq /\ i >= Len(a)
           text == IF flag THEN Text(Word(""), FALSE)
                   ELSE IF arg.eq THEN Text(Word(arg.value), FALSE)
                   ELSE NextValue(a[i + 1])
           into == ParseInto(option, s.storage[name], text)
           marked == [s EXCEPT !.parsed = @ \cup {name}]
           t == [marked EXCEPT
                   !.i = IF flag \/ arg.eq THEN i + 1 ELSE ValueIndex(s) + 1,
                   !.storage[name] = into.stored,
                   !.result = IF into.ok THEN "none" ELSE "option_parse_failed"]
<1>1. TakeOption(p, a, s) =
        IF name \notin DOMAIN p.options THEN Failing(s, "unknown_argument")
        ELSE IF flag /\ arg.eq THEN Failing(marked, "flag_has_value")
        ELSE IF missing THEN Failing(marked, "option_missing_value")
        ELSE t
  BY Zenon DEF TakeOption, Names
<1>2. DOMAIN s = ParseFields /\ DOMAIN s.storage = DOMAIN p.options
  BY Zenon DEF Loop, Reached
<1>3. /\ DOMAIN marked = ParseFields /\ marked.storage = s.storage
      /\ marked.positional_args = s.positional_args
  BY <1>2 DEF ParseFields
<1>4. Ends(p, a, i) =
        IF name \notin DOMAIN p.options THEN "unknown_argument"
        ELSE IF flag THEN IF arg.eq THEN "flag_has_value" ELSE "no"
        ELSE IF ~ arg.eq /\ i = Len(a) THEN "option_missing_value"
        ELSE IF option.number /\ ~ IsNumber(GivenText(a, i)) THEN "option_parse_failed" ELSE "no"
  BY OptionEnds, Zenon
<1>5. ASSUME NEW r \in {"unknown_argument", "flag_has_value", "option_missing_value"},
             Ends(p, a, i) = r, NEW u, u.result = r, u.storage = s.storage,
             u.positional_args = s.positional_args
      PROVE  Takes(p, a, u)
  BY <1>5, Stops DEF Takes
<1>6. CASE name \notin DOMAIN p.options
  <2>1. Ends(p, a, i) = "unknown_argument"
    BY <1>4, <1>6, Zenon
  <2>2. TakeOption(p, a, s) = Failing(s, "unknown_argument")
    BY <1>1, <1>6, Zenon
  <2>3. QED
    BY <1>2, <1>5, <2>1, <2>2, FailingIs
<1>7. CASE name \in DOMAIN p.options /\ flag /\ arg.eq
  <2>1. Ends(p, a, i) = "flag_has_value"
    BY <1>4, <1>7, Zenon
  <2>2. TakeOption(p, a, s) = Failing(marked, "flag_has_value")
    BY <1>1, <1>7, Zenon
  <2> HIDE DEF marked
  <2>3. QED
    BY <1>3, <1>5, <2>1, <2>2, FailingIs
<1>8. CASE name \in DOMAIN p.options /\ missing
  <2>1. i = Len(a)
    <3>1. i \in 1 .. Len(a) + 1 /\ Len(a) \in Nat
      BY ArgsAre DEF Loop
    <3>2. i <= Len(a) /\ i >= Len(a)
      BY <1>8
    <3>3. QED
      BY <3>1, <3>2
  <2>2. ~ flag /\ ~ arg.eq
    BY <1>8, Zenon
  <2>3. Ends(p, a, i) = "option_missing_value"
    BY <1>4, <1>8, <2>1, <2>2, Zenon
  <2>4. TakeOption(p, a, s) = Failing(marked, "option_missing_value")
    BY <1>1, <1>8, <2>2, Zenon
  <2> HIDE DEF marked
  <2>5. QED
    BY <1>3, <1>5, <2>3, <2>4, FailingIs
<1>9. CASE name \in DOMAIN p.options /\ ~ (flag /\ arg.eq) /\ ~ missing
  <2>1. TakeOption(p, a, s) = t
    BY <1>1, <1>9, Zenon
  <2>2. ~ (~ flag /\ ~ arg.eq /\ i = Len(a))
    BY <1>9, ArgsAre
  <2>3. text = IF flag THEN Text(Word(""), FALSE) ELSE GivenText(a, i)
    BY DEF GivenText
  <2>4. into = ParseInto(option, s.storage[name],
                         IF flag THEN Text(Word(""), FALSE) ELSE GivenText(a, i))
    BY <2>3
  <2>5. ValueIndex(s) = i + 1
    BY DEF ValueIndex
  <2>6. OptionTaken(p, a, s, t, into)
    <3> HIDE DEF into, text, flag
    <3>1. /\ DOMAIN t = ParseFields
          /\ t.i = IF flag \/ arg.eq THEN i + 1 ELSE ValueIndex(s) + 1
          /\ t.result = IF into.ok THEN "none" ELSE "option_parse_failed"
          /\ t.parsed = s.parsed \cup {name}
          /\ t.storage = [s.storage EXCEPT ![name] = into.stored]
          /\ t.positional_args = s.positional_args /\ t.places = s.places
      BY <1>2 DEF ParseFields
    <3> HIDE DEF t
    <3>2. /\ flag \/ arg.eq => t.i = i + 1
          /\ ~ (flag \/ arg.eq) => t.i = i + 1 + 1
      BY <2>5, <3>1
    <3> USE DEF flag
    <3>3. QED
      BY <1>9, <2>2, <2>4, <3>1, <3>2, Zenon DEF OptionTaken
  <2> HIDE DEF t, into
  <2>7. QED
    BY <2>1, <2>6, OptionStored
<1>10. QED
  BY <1>6, <1>7, <1>8, <1>9

-----------------------------------------------------------------------------
(* One turn of the loop *)

\* The loop's state says nothing of the warning.
LEMMA Unwarned ==
  ASSUME NEW p, NEW a, NEW before, Loop(p, a, before), NEW warned
  PROVE  LET s == [before EXCEPT !.warned = warned]
         IN  Loop(p, a, s) /\ s.i = before.i
<1> DEFINE s == [before EXCEPT !.warned = warned]
<1>1. DOMAIN before = ParseFields
  BY DEF Loop
<1>2. /\ DOMAIN s = ParseFields /\ s.i = before.i /\ s.result = before.result
      /\ s.places = before.places /\ s.storage = before.storage
      /\ s.parsed = before.parsed /\ s.positional_args = before.positional_args
  BY <1>1 DEF ParseFields
<1> HIDE DEF s
<1>3. \A i : Reached(p, a, before, i) => Reached(p, a, s, i)
  BY <1>2, Zenon DEF Reached
<1>4. Loop(p, a, s)
  BY <1>2, <1>3, Zenon DEF Loop
<1>5. QED
  BY <1>2, <1>4 DEF s

\* What ends the parsing and stores nothing.
LEMMA FailingTakes ==
  ASSUME NEW p, NEW a \in Seq(Args), NEW s, Loop(p, a, s), s.i <= Len(a),
         NEW r \in {"show_help", "show_version", "invalid_format"}, Ends(p, a, s.i) = r
  PROVE  Takes(p, a, Failing(s, r))
<1>1. DOMAIN s = ParseFields
  BY DEF Loop
<1>2. /\ Failing(s, r).result = r /\ Failing(s, r).storage = s.storage
      /\ Failing(s, r).positional_args = s.positional_args
  BY <1>1, FailingIs
<1>3. r \notin {"no", "option_parse_failed", "success", "none"}
  OBVIOUS
<1>4. Agrees(p, a, Failing(s, r))
  BY <1>2, <1>3, Stops, Zenon
<1>5. QED
  BY <1>4 DEF Takes

\* The double dash.
LEMMA DashTakes ==
  ASSUME NEW p, NEW a \in Seq(Args), NEW s, Loop(p, a, s), s.i <= Len(a), a[s.i] = DoubleDash
  PROVE  Takes(p, a, [s EXCEPT !.positional_args = @ \o Behind(a, s.i), !.i = Len(a) + 1])
<1> DEFINE t == [s EXCEPT !.positional_args = @ \o Behind(a, s.i), !.i = Len(a) + 1]
           more == s.positional_args \o Behind(a, s.i)
           n == Len(a)
<1>1. /\ DOMAIN s = ParseFields /\ s.result = "none" /\ s.i \in 1 .. n
      /\ Roles(p, a)[s.i] = "seen" /\ Reached(p, a, s, s.i) /\ n \in Nat
      /\ s.places = [k \in DOMAIN p.positionals |-> p.positionals[k].default]
  BY ArgsAre DEF Loop
<1>2. /\ DOMAIN t = ParseFields /\ t.i = n + 1 /\ t.result = "none"
      /\ t.places = s.places /\ t.storage = s.storage
      /\ t.parsed = s.parsed /\ t.positional_args = more
  <2> DEFINE u == [s EXCEPT !.positional_args = more, !.i = n + 1]
  <2>1. t = u
    OBVIOUS
  <2> HIDE DEF more, n
  <2>2. /\ DOMAIN u = ParseFields /\ u.i = n + 1 /\ u.result = "none"
        /\ u.places = s.places /\ u.storage = s.storage
        /\ u.parsed = s.parsed /\ u.positional_args = more
    BY <1>1 DEF ParseFields
  <2>3. QED
    BY <2>1, <2>2
<1> HIDE DEF t
<1>3. Reached(p, a, t, n + 1)
  BY <1>1, <1>2, ReachedEnd, Zenon
<1>4. n + 1 \in 1 .. n + 1 /\ ~ (n + 1 <= n)
  BY <1>1
<1>5. Loop(p, a, t)
  BY <1>1, <1>2, <1>3, <1>4 DEF Loop
<1>6. QED
  BY <1>5 DEF Takes, t

\* A positional argument.
LEMMA PlaceTakes ==
  ASSUME NEW p, NEW a \in Seq(Args), NEW s, Loop(p, a, s), s.i <= Len(a),
         ClassifyArgument(a[s.i]) \in {"lone_dash", "positional"},
         ~ IsHelpFlag(a[s.i]), ~ IsVersionFlag(a[s.i])
  PROVE  Takes(p, a, [s EXCEPT !.positional_args = Append(@, a[s.i]), !.i = @ + 1])
<1> DEFINE t == [s EXCEPT !.positional_args = Append(@, a[s.i]), !.i = @ + 1]
           n == Len(a)
           i == s.i
           arg == a[i]
<1>1. /\ DOMAIN s = ParseFields /\ s.result = "none" /\ i \in 1 .. n
      /\ Roles(p, a)[i] = "seen" /\ Reached(p, a, s, i) /\ n \in Nat /\ arg \in Args
      /\ s.places = [k \in DOMAIN p.positionals |-> p.positionals[k].default]
  BY ArgsAre DEF Loop
<1>2. /\ DOMAIN t = ParseFields /\ t.i = i + 1 /\ t.result = "none"
      /\ t.places = s.places /\ t.storage = s.storage
      /\ t.parsed = s.parsed /\ t.positional_args = Append(s.positional_args, arg)
  BY <1>1 DEF ParseFields
<1> HIDE DEF t
<1>3. /\ arg.dashes = 0 \/ arg = LoneDash
      /\ ClassifyArgument(arg) \notin {"long", "short"}
      /\ arg # DoubleDash
  BY <1>1, Classes
<1>4. ~ Known(p, arg) /\ ~ Asks(p, arg)
  BY <1>3, Zenon DEF Known, Asks
<1>5. Places(p, a, i) /\ \A name : ~ Gives(p, a, name, i)
  BY <1>1, <1>3, <1>4, Zenon DEF Places, Gives
<1>6. Ends(p, a, i) = "no"
  BY <1>3, Zenon DEF Ends
<1>7. DOMAIN t.storage = DOMAIN p.options
  BY <1>1, <1>2, Zenon DEF Reached
<1> HIDE DEF i, arg
<1>71. t.positional_args = IF Places(p, a, i) THEN Append(s.positional_args, a[i])
                           ELSE s.positional_args
  BY <1>2, <1>5, Zenon DEF arg
<1>72. ASSUME NEW name \in DOMAIN p.options
       PROVE  /\ t.storage[name] = IF Gives(p, a, name, i)
                                   THEN Holds(p.options[name], a, GivenIn(p, a, name, i) \cup {i})
                                   ELSE s.storage[name]
              /\ name \in t.parsed <=> (name \in s.parsed \/ Gives(p, a, name, i))
  BY <1>2, <1>5, Zenon
<1>8. Reached(p, a, t, i + 1)
  BY <1>1, <1>6, <1>7, <1>71, <1>72, ReachedNext, Zenon
<1>9. i + 1 \in 1 .. n + 1 /\ (i + 1 <= n => i < n)
  BY <1>1
<1>10. i < n => Roles(p, a)[i + 1] = "seen"
  <2>1. i < n => Roles(p, a)[i + 1] = IF a[i] = DoubleDash THEN "behind"
                                      ELSE IF Asks(p, a[i]) THEN "value" ELSE "seen"
    BY <1>1, RoleFacts
  <2>2. QED
    BY <1>3, <1>4, <2>1, Zenon DEF arg
<1>11. Loop(p, a, t)
  BY <1>1, <1>2, <1>8, <1>9, <1>10 DEF Loop
<1>12. QED
  BY <1>11 DEF Takes, t, i, arg

LEMMA TakeArgumentTakes ==
  ASSUME NEW p, Built(p), NEW a \in Seq(Args), NEW before, Loop(p, a, before),
         before.i <= Len(a)
  PROVE  Takes(p, a, TakeArgument(p, a, before))
<1> DEFINE s == [before EXCEPT !.warned = FALSE]
           i == s.i
           arg == a[i]
           type == ClassifyArgument(arg)
           help == IsHelpFlag(arg)
           version == IsVersionFlag(arg)
           dash == [s EXCEPT !.positional_args = @ \o Behind(a, s.i), !.i = Len(a) + 1]
           place == [s EXCEPT !.positional_args = Append(@, arg), !.i = @ + 1]
           t == TakeArgument(p, a, before)
<1>1. t = IF help THEN Failing(s, "show_help")
          ELSE IF version THEN Failing(s, "show_version")
          ELSE CASE type = "double_dash" -> dash
                 [] type \in {"lone_dash", "positional"} -> place
                 [] type \in {"long_single", "short_multiple"} -> Failing(s, "invalid_format")
                 [] type \in {"long", "short"} -> TakeOption(p, a, s)
  BY DEF TakeArgument
<1>2. Loop(p, a, s) /\ s.i <= Len(a)
  BY Unwarned
<1> HIDE DEF s
<1>3. Roles(p, a)[i] = "seen" /\ arg \in Args
  BY <1>2, ArgsAre DEF Loop
<1>4. /\ type \in {"double_dash", "lone_dash", "positional", "long_single",
                   "short_multiple", "long", "short"}
      /\ type = "double_dash" <=> arg = DoubleDash
      /\ type \in {"lone_dash", "positional"} <=> (arg.dashes = 0 \/ arg = LoneDash)
  BY <1>3, Classes
<1> HIDE DEF dash, place, type, help, version, t
<1>5. CASE help
  <2>1. Ends(p, a, i) = "show_help"
    BY <1>3, <1>5, Zenon DEF Ends, help
  <2>2. QED
    BY <1>1, <1>2, <1>5, <2>1, FailingTakes DEF t
<1>6. CASE ~ help /\ version
  <2>1. Ends(p, a, i) = "show_version"
    BY <1>3, <1>6, Zenon DEF Ends, help, version
  <2>2. QED
    BY <1>1, <1>2, <1>6, <2>1, FailingTakes DEF t
<1>7. CASE ~ help /\ ~ version /\ type = "double_dash"
  <2>1. t = dash
    BY <1>1, <1>7
  <2>2. Takes(p, a, dash)
    BY <1>2, <1>4, <1>7, DashTakes DEF dash
  <2>3. QED
    BY <2>1, <2>2, Zenon DEF t
<1>8. CASE ~ help /\ ~ version /\ type \in {"lone_dash", "positional"}
  <2>1. t = place
    BY <1>1, <1>8
  <2>2. Takes(p, a, place)
    BY <1>2, <1>8, PlaceTakes DEF place, type, help, version
  <2>3. QED
    BY <2>1, <2>2, Zenon DEF t
<1>9. CASE ~ help /\ ~ version /\ type \in {"long_single", "short_multiple"}
  <2>1. t = Failing(s, "invalid_format")
    BY <1>1, <1>9
  <2>2. arg.dashes # 0 /\ arg \notin {LoneDash, DoubleDash}
    BY <1>4, <1>9
  <2>3. Ends(p, a, i) = "invalid_format"
    BY <1>3, <1>9, <2>2, Zenon DEF Ends, help, version, type
  <2>4. QED
    BY <1>2, <2>1, <2>3, FailingTakes DEF t
<1>10. CASE ~ help /\ ~ version /\ type \in {"long", "short"}
  <2>1. t = TakeOption(p, a, s)
    BY <1>1, <1>10
  <2>2. IsOption(p, a, i)
    BY <1>3, <1>10, Zenon DEF IsOption, type, help, version
  <2>3. QED
    BY <1>2, <2>1, <2>2, TakeOptionTakes, Zenon DEF t
<1>11. QED
  BY <1>4, <1>5, <1>6, <1>7, <1>8, <1>9, <1>10

-----------------------------------------------------------------------------
(* The positional arguments *)

\* The positional argument is to be a number, and is none.
Unread(p, placed, k) == p.positionals[k].number /\ ~ IsNumber(Text(placed[k], FALSE))

\* u is s with the first k positional arguments stored, if they can be.
PlacedTo(p, s, u, k) ==
  /\ DOMAIN u = ParseFields
  /\ u.storage = s.storage /\ u.positional_args = s.positional_args
  /\ u.result = IF \E j \in 1 .. k : Unread(p, s.positional_args, j)
                THEN "positional_parse_failed" ELSE "none"
  /\ u.result = "none" =>
       /\ DOMAIN u.places = DOMAIN p.positionals
       /\ \A j \in DOMAIN p.positionals :
            u.places[j] = IF j <= k THEN ShouldRead(p, s.positional_args, j)
                          ELSE p.positionals[j].default

LEMMA PlaceStep ==
  ASSUME NEW p, Built(p), NEW s, NEW u, NEW k \in DOMAIN p.positionals, PlacedTo(p, s, u, k - 1)
  PROVE  PlacedTo(p, s, StorePlace(p, u, k), k)
<1> DEFINE placed == s.positional_args
           scalar == ParseScalar(p.positionals[k].number, u.places[k], Text(placed[k], FALSE))
           bad(j) == Unread(p, placed, j)
           v == StorePlace(p, u, k)
           w == [u EXCEPT !.places[k] = scalar.stored,
                          !.result = IF scalar.ok THEN "none" ELSE "positional_parse_failed"]
<1>1. /\ k \in Nat /\ k # 0 /\ DOMAIN p.positionals \subseteq Nat
      /\ p.positionals[k].number \in BOOLEAN
  <2>1. /\ DOMAIN p.positionals = 1 .. Len(p.positionals)
        /\ Len(p.positionals) \in Nat
        /\ p.positionals[k].number \in BOOLEAN
    BY DEF Built
  <2>2. QED
    BY <2>1
<1>2. /\ scalar.ok \in BOOLEAN /\ scalar.ok <=> ~ bad(k)
      /\ scalar.ok => scalar.stored = ShouldRead(p, placed, k)
  BY <1>1, ScalarIs DEF Unread, ShouldRead
<1>3. /\ DOMAIN u = ParseFields
      /\ u.storage = s.storage /\ u.positional_args = placed
      /\ u.result = IF \E j \in 1 .. k - 1 : bad(j) THEN "positional_parse_failed" ELSE "none"
      /\ u.result = "none" =>
           /\ DOMAIN u.places = DOMAIN p.positionals
           /\ \A j \in DOMAIN p.positionals :
                u.places[j] = IF j <= k - 1 THEN ShouldRead(p, placed, j)
                              ELSE p.positionals[j].default
  BY Zenon DEF PlacedTo
<1>4. v = IF u.result # "none" THEN u ELSE w
  BY <1>3, Zenon DEF StorePlace
<1> HIDE DEF scalar, bad, v
<1>5. (\E j \in 1 .. k : bad(j)) <=> bad(k) \/ \E j \in 1 .. k - 1 : bad(j)
  <2>1. \A j : j \in 1 .. k <=> j \in 1 .. k - 1 \/ j = k
    BY <1>1
  <2>2. QED
    BY <2>1, Zenon
<1>6. CASE u.result # "none"
  <2>1. \E j \in 1 .. k : bad(j)
    BY <1>3, <1>5, <1>6, Zenon
  <2>2. v = u /\ u.result = "positional_parse_failed"
    BY <1>3, <1>4, <1>6
  <2>3. QED
    BY <1>3, <2>1, <2>2 DEF PlacedTo, bad, v
<1>7. CASE u.result = "none"
  <2>0. v = w
    BY <1>4, <1>7
  <2>1. ~ \E j \in 1 .. k - 1 : bad(j)
    BY <1>3, <1>7
  <2>2. /\ DOMAIN v = ParseFields
        /\ v.storage = s.storage /\ v.positional_args = placed
        /\ v.result = IF scalar.ok THEN "none" ELSE "positional_parse_failed"
        /\ v.places = [u.places EXCEPT ![k] = scalar.stored]
    BY <1>3, <2>0 DEF ParseFields
  <2>3. v.result = IF \E j \in 1 .. k : bad(j) THEN "positional_parse_failed" ELSE "none"
    BY <1>2, <1>5, <2>1, <2>2
  <2>4. ASSUME v.result = "none", NEW j \in DOMAIN p.positionals
        PROVE  v.places[j] = IF j <= k THEN ShouldRead(p, placed, j) ELSE p.positionals[j].default
    <3>1. scalar.stored = ShouldRead(p, placed, k)
      BY <1>2, <2>2, <2>4
    <3>2. /\ DOMAIN u.places = DOMAIN p.positionals
          /\ u.places[j] = IF j <= k - 1 THEN ShouldRead(p, placed, j)
                           ELSE p.positionals[j].default
      BY <1>3, <1>7
    <3>3. v.places[j] = IF j = k THEN scalar.stored ELSE u.places[j]
      BY <2>2, <3>2
    <3>4. j \in Nat
      BY <1>1
    <3>5. j # k => (j <= k <=> j <= k - 1)
      BY <1>1, <3>4
    <3>6. j = k => j <= k
      BY <1>1
    <3>7. QED
      BY <3>1, <3>2, <3>3, <3>5, <3>6
  <2>5. v.result = "none" => DOMAIN v.places = DOMAIN p.positionals
    BY <1>3, <1>7, <2>2
  <2>6. QED
    BY <2>2, <2>3, <2>4, <2>5, Zenon DEF PlacedTo, bad, v
<1>8. QED
  BY <1>6, <1>7

LEMMA StorePositionalsIs ==
  ASSUME NEW p, Built(p), NEW s, DOMAIN s = ParseFields, s.result = "none",
         s.places = [k \in DOMAIN p.positionals |-> p.positionals[k].default],
         Len(s.positional_args) \in Nat
  PROVE  PlacedTo(p, s, StorePositionals(p, s),
                  IF Len(s.positional_args) < Len(p.positionals)
                  THEN Len(s.positional_args) ELSE Len(p.positionals))
<1> DEFINE n == IF Len(s.positional_args) < Len(p.positionals)
                THEN Len(s.positional_args) ELSE Len(p.positionals)
           Turn(f, k) == IF k = 0 THEN s ELSE StorePlace(p, f[k - 1], k)
           Solves(f, m) == f = [k \in 0 .. m |-> Turn(f, k)]
           Wrong == {m \in 0 .. n : ~ \E f : Solves(f, m) /\ PlacedTo(p, s, f[m], m)}
<1>0. /\ n \in Nat /\ n <= Len(p.positionals) /\ Len(p.positionals) \in Nat
      /\ DOMAIN p.positionals = 1 .. Len(p.positionals)
  <2>1. Len(p.positionals) \in Nat /\ DOMAIN p.positionals = 1 .. Len(p.positionals)
    BY DEF Built
  <2>2. QED
    BY <2>1
<1>1. StorePositionals(p, s) = LET f == CHOOSE g : Solves(g, n) IN f[n]
  BY DEF StorePositionals
<1> HIDE DEF n
<1>2. ASSUME NEW m \in 1 .. n, NEW f, Solves(f, m - 1)
      PROVE  Solves([k \in 0 .. m |-> IF k < m THEN f[k] ELSE StorePlace(p, f[m - 1], m)], m)
  <2> DEFINE g == [k \in 0 .. m |-> IF k < m THEN f[k] ELSE StorePlace(p, f[m - 1], m)]
  <2>1. m \in Nat /\ m # 0
    BY <1>0
  <2>2. ASSUME NEW k \in 0 .. m PROVE g[k] = Turn(g, k)
    <3>1. k \in Nat /\ (k < m \/ k = m)
      BY <2>1
    <3>2. CASE k < m
      <4>1. k \in 0 .. m - 1
        BY <2>1, <3>1, <3>2
      <4>2. f[k] = Turn(f, k)
        BY <1>2, <4>1
      <4>3. k # 0 => k - 1 \in 0 .. m /\ k - 1 < m
        BY <2>1, <3>1, <3>2
      <4>4. k # 0 => g[k - 1] = f[k - 1]
        BY <4>3
      <4>5. g[k] = f[k]
        BY <3>2
      <4> HIDE DEF g
      <4>6. QED
        BY <4>2, <4>4, <4>5
    <3>3. CASE k = m
      <4>1. k - 1 \in 0 .. m /\ k - 1 < m
        BY <2>1, <3>3
      <4>2. g[k - 1] = f[k - 1]
        BY <4>1
      <4>3. g[k] = StorePlace(p, f[m - 1], m)
        BY <2>1, <3>3
      <4> HIDE DEF g
      <4>4. QED
        BY <2>1, <3>3, <4>2, <4>3
    <3>4. QED
      BY <3>1, <3>2, <3>3
  <2>3. g = [k \in 0 .. m |-> g[k]]
    OBVIOUS
  <2> HIDE DEF g
  <2>4. Solves(g, m)
    BY <2>2, <2>3
  <2> HIDE DEF Solves
  <2>5. QED
    BY <2>4 DEF g
<1>3. PlacedTo(p, s, s, 0)
  <2>1. 1 .. 0 = {} /\ \A j \in DOMAIN p.positionals : ~ (j <= 0)
    BY <1>0
  <2>2. \A j \in DOMAIN p.positionals : s.places[j] = p.positionals[j].default
    OBVIOUS
  <2>3. QED
    BY <2>1, <2>2 DEF PlacedTo
<1>4. Wrong = {}
  <2> SUFFICES ASSUME Wrong # {} PROVE FALSE
    OBVIOUS
  <2>1. Wrong \subseteq Nat
    BY <1>0
  <2>2. PICK m \in Wrong : \A k \in Wrong : m <= k
    <3> HIDE DEF Wrong
    <3>1. QED
      BY <2>1, Least
  <2>3. m \in 0 .. n /\ ~ \E f : Solves(f, m) /\ PlacedTo(p, s, f[m], m)
    BY <2>2
  <2>4. m # 0
    <3> DEFINE f == [k \in 0 .. 0 |-> s]
    <3>1. Solves(f, 0) /\ f[0] = s
      OBVIOUS
    <3> HIDE DEF Solves, f
    <3>2. Solves(f, 0) /\ PlacedTo(p, s, f[0], 0)
      BY <1>3, <3>1
    <3>3. QED
      BY <2>3, <3>2
  <2>5. m \in 1 .. n /\ m - 1 \in 0 .. n /\ m - 1 < m
    BY <1>0, <2>3, <2>4
  <2>6. m - 1 \notin Wrong
    <3> HIDE DEF Wrong
    <3>1. m \in Nat
      BY <1>0, <2>5
    <3>2. QED
      BY <2>2, <3>1
  <2>7. PICK f : Solves(f, m - 1) /\ PlacedTo(p, s, f[m - 1], m - 1)
    <3> HIDE DEF Solves
    <3>1. QED
      BY <2>5, <2>6
  <2> DEFINE g == [k \in 0 .. m |-> IF k < m THEN f[k] ELSE StorePlace(p, f[m - 1], m)]
  <2>8. Solves(g, m)
    <3> HIDE DEF Solves
    <3>1. QED
      BY <1>2, <2>5, <2>7
  <2>9. g[m] = StorePlace(p, f[m - 1], m)
    BY <1>0, <2>5
  <2>10. m \in DOMAIN p.positionals
    BY <1>0, <2>5
  <2> HIDE DEF g
  <2>11. PlacedTo(p, s, g[m], m)
    BY <2>7, <2>9, <2>10, PlaceStep
  <2> HIDE DEF Solves
  <2>12. QED
    BY <2>3, <2>8, <2>11
<1>5. \E f : Solves(f, n) /\ PlacedTo(p, s, f[n], n)
  <2>1. n \in 0 .. n
    BY <1>0
  <2> HIDE DEF Solves
  <2>2. QED
    BY <1>4, <2>1
<1>6. ASSUME NEW f, NEW g, Solves(f, n), Solves(g, n)
      PROVE  f[n] = g[n]
  <2> DEFINE Differ == {k \in 0 .. n : f[k] # g[k]}
  <2>1. Differ = {}
    <3> SUFFICES ASSUME Differ # {} PROVE FALSE
      OBVIOUS
    <3>1. Differ \subseteq Nat
      BY <1>0
    <3>2. PICK m \in Differ : \A k \in Differ : m <= k
      <4> HIDE DEF Differ
      <4>1. QED
        BY <3>1, Least
    <3>3. m \in 0 .. n /\ f[m] # g[m] /\ f[m] = Turn(f, m) /\ g[m] = Turn(g, m)
      <4>1. m \in 0 .. n /\ f[m] # g[m]
        BY <3>2
      <4>2. f[m] = Turn(f, m)
        BY <1>6, <4>1
      <4>3. g[m] = Turn(g, m)
        BY <1>6, <4>1
      <4>4. QED
        BY <4>1, <4>2, <4>3
    <3>4. m # 0
      BY <3>3
    <3>5. m - 1 \in 0 .. n /\ m - 1 < m
      BY <1>0, <3>3, <3>4
    <3>6. f[m - 1] = g[m - 1]
      BY <1>0, <3>2, <3>5
    <3>7. QED
      BY <3>3, <3>6
  <2>2. n \in 0 .. n
    BY <1>0
  <2>3. QED
    BY <2>1, <2>2
<1>7. QED
  <2>1. PICK f : Solves(f, n) /\ PlacedTo(p, s, f[n], n)
    <3> HIDE DEF Solves
    <3>1. QED
      BY <1>5
  <2> DEFINE g == CHOOSE h : Solves(h, n)
  <2>2. Solves(g, n)
    <3> HIDE DEF Solves
    <3>1. QED
      BY <2>1
  <2>3. StorePositionals(p, s) = g[n]
    BY <1>1
  <2> HIDE DEF g
  <2>4. f[n] = g[n]
    <3> HIDE DEF Solves
    <3>1. QED
      BY <1>6, <2>1, <2>2
  <2>5. QED
    BY <2>1, <2>3, <2>4 DEF n

\* After the loop.
LEMMA ConcludeAgrees ==
  ASSUME NEW p, Built(p), NEW a \in Seq(Args), NEW s, Loop(p, a, s), s.i > Len(a)
  PROVE  Agrees(p, a, Conclude(p, s))
<1> DEFINE n == Len(a)
           placed == s.positional_args
           kept == Len(p.positionals)
           m == IF Len(placed) < kept THEN Len(placed) ELSE kept
           stored == StorePositionals(p, s)
           missing == \E name \in DOMAIN p.options : IsMissing(p, s, name)
           unread == {k \in DOMAIN placed \cap DOMAIN p.positionals : Unread(p, placed, k)}
           needed == RequiredPositionals(p)
           few == Len(placed) < needed
           many == Len(placed) > kept
           outcome == IF stored.result # "none" THEN stored.result
                      ELSE IF many THEN "positional_too_many" ELSE "success"
           t == Conclude(p, s)
<1>1. /\ DOMAIN s = ParseFields /\ s.result = "none" /\ s.i = n + 1 /\ n \in Nat
      /\ Reached(p, a, s, n + 1) /\ GoesOn(p, a, n + 1) /\ n + 1 \in 1 .. n + 1
      /\ s.places = [k \in DOMAIN p.positionals |-> p.positionals[k].default]
  <2>1. s.i \in 1 .. n + 1 /\ n \in Nat
    BY ArgsAre DEF Loop
  <2>2. s.i = n + 1 /\ n + 1 \in 1 .. n + 1
    BY <2>1
  <2>3. QED
    BY <2>1, <2>2 DEF Loop, Reached
<1>2. /\ EndsAt(p, a) = n + 1
      /\ \A name : GivenAt(p, a, name) = GivenIn(p, a, name, n + 1)
      /\ ShouldPlace(p, a) = Picked(a, PlacedIn(p, a, n + 1))
  <2>1. ~ (n + 1 <= n)
    BY <1>1
  <2>2. QED
    BY <1>1, <2>1, EndsAtIs
<1>3. /\ placed = ShouldPlace(p, a)
      /\ \A name \in DOMAIN p.options :
           /\ s.storage[name] = ShouldHold(p, a, name)
           /\ name \in s.parsed <=> GivenAt(p, a, name) # {}
  BY <1>1, <1>2, Zenon DEF Reached, ShouldHold
<1>4. Len(placed) \in Nat /\ DOMAIN placed = 1 .. Len(placed)
  <2>1. PlacedIn(p, a, n + 1) \subseteq 1 .. n
    BY <1>1 DEF PlacedIn
  <2>2. Picked(a, PlacedIn(p, a, n + 1)) \in Seq(Args)
    BY <2>1, PickedIs, Zenon
  <2>3. placed \in Seq(Args)
    BY <1>2, <1>3, <2>2
  <2>4. QED
    BY <2>3
<1>5. kept \in Nat /\ DOMAIN p.positionals = 1 .. kept
  BY DEF Built
<1>6. PlacedTo(p, s, stored, m)
  BY <1>1, <1>4, StorePositionalsIs
<1>7. /\ DOMAIN stored = ParseFields
      /\ stored.storage = s.storage /\ stored.positional_args = placed
      /\ stored.result = IF \E j \in 1 .. m : Unread(p, placed, j)
                         THEN "positional_parse_failed" ELSE "none"
      /\ stored.result = "none" =>
           \A j \in DOMAIN p.positionals :
             stored.places[j] = IF j <= m THEN ShouldRead(p, placed, j)
                                ELSE p.positionals[j].default
  BY <1>6, Zenon DEF PlacedTo
<1>8. (\E j \in 1 .. m : Unread(p, placed, j)) <=> unread # {}
  <2>1. \A j : j \in 1 .. m <=> j \in DOMAIN placed \cap DOMAIN p.positionals
    BY <1>4, <1>5
  <2> HIDE DEF m
  <2>2. QED
    BY <2>1, Zenon
<1>9. t = IF missing THEN Failing(s, "required_option_missing")
          ELSE IF few THEN Failing(s, "positional_missing")
          ELSE [stored EXCEPT !.result = outcome]
  BY Zenon DEF Conclude
<1>10. ShouldReturn(p, a) =
         IF missing THEN "required_option_missing"
         ELSE IF few THEN "positional_missing"
         ELSE IF unread # {} THEN "positional_parse_failed"
         ELSE IF many THEN "positional_too_many" ELSE "success"
  <2> DEFINE lacking == \E name \in DOMAIN p.options :
                          /\ p.options[name].required
                          /\ ~ p.options[name].has_default
                          /\ GivenAt(p, a, name) = {}
  <2>1. missing <=> lacking
    BY <1>3, Zenon DEF IsMissing
  <2>2. ~ (EndsAt(p, a) <= Len(a))
    BY <1>1, <1>2
  <2>3. ShouldReturn(p, a) =
          IF lacking THEN "required_option_missing"
          ELSE IF few THEN "positional_missing"
          ELSE IF unread # {} THEN "positional_parse_failed"
          ELSE IF many THEN "positional_too_many" ELSE "success"
    BY <1>3, <2>2, Zenon DEF ShouldReturn, Unread
  <2> HIDE DEF missing, lacking, few, many, unread
  <2>4. QED
    BY <2>1, <2>3
<1>11. ASSUME t.storage = s.storage, t.positional_args = placed, t.result = ShouldReturn(p, a),
              t.result # "none",
              t.result = "success" =>
                \A j \in DOMAIN p.positionals :
                  t.places[j] = IF j \in DOMAIN placed THEN ShouldRead(p, placed, j)
                                ELSE p.positionals[j].default
       PROVE  Agrees(p, a, t)
  BY <1>3, <1>11, Zenon DEF Agrees
<1> HIDE DEF t, missing, few
<1>12. CASE missing
  <2>1. t = Failing(s, "required_option_missing") /\ ShouldReturn(p, a) = "required_option_missing"
    BY <1>9, <1>10, <1>12, Zenon
  <2>2. /\ t.storage = s.storage /\ t.positional_args = placed
        /\ t.result = "required_option_missing"
    BY <1>1, <2>1, FailingIs
  <2>3. QED
    BY <1>11, <2>1, <2>2 DEF t
<1>13. CASE ~ missing /\ few
  <2>1. t = Failing(s, "positional_missing") /\ ShouldReturn(p, a) = "positional_missing"
    BY <1>9, <1>10, <1>13, Zenon
  <2>2. /\ t.storage = s.storage /\ t.positional_args = placed
        /\ t.result = "positional_missing"
    BY <1>1, <2>1, FailingIs
  <2>3. QED
    BY <1>11, <2>1, <2>2 DEF t
<1>14. CASE ~ missing /\ ~ few
  <2>1. t = [stored EXCEPT !.result = outcome]
    BY <1>9, <1>14, Zenon
  <2>2. ShouldReturn(p, a) = IF unread # {} THEN "positional_parse_failed"
                             ELSE IF many THEN "positional_too_many" ELSE "success"
    BY <1>10, <1>14, Zenon
  <2>3. stored.result = IF unread # {} THEN "positional_parse_failed" ELSE "none"
    BY <1>7, <1>8, Zenon
  <2>4. ASSUME outcome = "success"
        PROVE  stored.result = "none" /\ Len(placed) <= kept
    <3> HIDE DEF stored, unread
    <3>1. stored.result \in {"positional_parse_failed", "none"}
      BY <2>3
    <3>2. stored.result = "none" /\ ~ many
      <4> HIDE DEF many
      <4>1. QED
        BY <2>4, <3>1
    <3>3. QED
      BY <1>4, <1>5, <3>2
  <2>5. outcome = ShouldReturn(p, a) /\ outcome # "none"
    <3> HIDE DEF stored, unread, many
    <3>1. QED
      BY <2>2, <2>3
  <2> HIDE DEF stored, outcome
  <2>6. /\ t.storage = s.storage /\ t.positional_args = placed /\ t.result = outcome
        /\ t.places = stored.places
    BY <1>7, <2>1 DEF ParseFields
  <2>7. ASSUME t.result = "success", NEW j \in DOMAIN p.positionals
        PROVE  t.places[j] = IF j \in DOMAIN placed THEN ShouldRead(p, placed, j)
                             ELSE p.positionals[j].default
    <3>1. stored.result = "none" /\ Len(placed) <= kept
      BY <2>4, <2>6, <2>7
    <3>2. j <= m <=> j \in DOMAIN placed
      BY <1>4, <1>5, <3>1
    <3>3. stored.places[j] = IF j <= m THEN ShouldRead(p, placed, j) ELSE p.positionals[j].default
      BY <1>7, <3>1, Zenon
    <3> HIDE DEF m
    <3>4. QED
      BY <2>6, <3>2, <3>3
  <2>8. QED
    BY <1>11, <2>5, <2>6, <2>7 DEF t
<1>15. QED
  BY <1>12, <1>13, <1>14 DEF t

-----------------------------------------------------------------------------
(* The parser of this program *)

OptionNames ==
  {"config", "verbose", "debug", "release", "rel_w_deb_info", "min_size_rel"}

\* What is built of the parser, the options still to be added being later.
BuiltSoFar(p, later) ==
  /\ DOMAIN p = {"options", "order", "aliases", "positionals"}
  /\ p.order \in Seq(OptionNames)
  /\ \A name \in DOMAIN p.options :
       LET option == p.options[name]
       IN  /\ option.number = FALSE
           /\ \/ option.kind = "flag" /\ option.default = FALSE /\ name \notin Letters
              \/ option.kind = "option"
  /\ ToSet(p.order) \subseteq DOMAIN p.options
  /\ \A alias \in DOMAIN p.aliases : p.aliases[alias] \in DOMAIN p.options \cup later
  /\ "" \notin DOMAIN p.options \cup DOMAIN p.aliases
  /\ \/ p.positionals = << >>
     \/ \E positional : p.positionals = <<positional>> /\ positional.number = FALSE

LEMMA AppendToSet ==
  \A S : \A order \in Seq(S), name \in S :
    /\ Append(order, name) \in Seq(S)
    /\ ToSet(Append(order, name)) = ToSet(order) \cup {name}
<1> SUFFICES ASSUME NEW S, NEW order \in Seq(S), NEW name \in S
             PROVE  /\ Append(order, name) \in Seq(S)
                    /\ ToSet(Append(order, name)) = ToSet(order) \cup {name}
  OBVIOUS
<1> DEFINE n == Len(order)
           longer == Append(order, name)
<1>1. n \in Nat /\ DOMAIN order = 1 .. n
  OBVIOUS
<1>2. longer \in Seq(S) /\ Len(longer) = n + 1
  OBVIOUS
<1>3. DOMAIN longer = 1 .. n + 1
  BY <1>1, <1>2
<1>4. longer[n + 1] = name /\ \A k \in 1 .. n : longer[k] = order[k]
  OBVIOUS
<1>5. \A k : k \in 1 .. n + 1 <=> k \in 1 .. n \/ k = n + 1
  BY <1>1
<1> HIDE DEF longer, n
<1>6. ToSet(longer) = ToSet(order) \cup {name}
  BY <1>1, <1>3, <1>4, <1>5 DEF ToSet
<1>7. QED
  BY <1>2, <1>6 DEF longer

LEMMA AddArgumentBuilds ==
  ASSUME NEW p, NEW later, BuiltSoFar(p, later), NEW name \in OptionNames, name # "",
         NEW option, option.number = FALSE,
         \/ option.kind = "flag" /\ option.default = FALSE /\ name \notin Letters
         \/ option.kind = "option"
  PROVE  LET q == AddArgument(p, name, option)
         IN  /\ BuiltSoFar(q, later) /\ DOMAIN q.options = DOMAIN p.options \cup {name}
             /\ q.positionals = p.positionals
<1> DEFINE q == AddArgument(p, name, option)
<1>1. /\ DOMAIN p = {"options", "order", "aliases", "positionals"}
      /\ p.order \in Seq(OptionNames)
  BY DEF BuiltSoFar
<1>2. /\ DOMAIN q = {"options", "order", "aliases", "positionals"}
      /\ q.options = Extended(p.options, name, option)
      /\ q.order = Append(p.order, name)
      /\ q.aliases = p.aliases /\ q.positionals = p.positionals
  BY <1>1 DEF AddArgument
<1> HIDE DEF q
<1>3. /\ DOMAIN q.options = DOMAIN p.options \cup {name}
      /\ q.options[name] = option
      /\ \A k \in DOMAIN p.options : k # name => q.options[k] = p.options[k]
  <2> DEFINE f == p.options
             g == Extended(f, name, option)
  <2>1. q.options = g
    BY <1>2
  <2> HIDE DEF f
  <2>2. /\ DOMAIN g = DOMAIN f \cup {name} /\ g[name] = option
        /\ \A k \in DOMAIN f : k # name => g[k] = f[k]
    BY DEF Extended
  <2>3. QED
    BY <2>1, <2>2, Zenon DEF f
<1>4. q.order \in Seq(OptionNames) /\ ToSet(q.order) = ToSet(p.order) \cup {name}
  <2>1. /\ Append(p.order, name) \in Seq(OptionNames)
        /\ ToSet(Append(p.order, name)) = ToSet(p.order) \cup {name}
    <3>1. \A order \in Seq(OptionNames), other \in OptionNames :
            /\ Append(order, other) \in Seq(OptionNames)
            /\ ToSet(Append(order, other)) = ToSet(order) \cup {other}
      BY AppendToSet, Zenon
    <3>2. p.order \in Seq(OptionNames) /\ name \in OptionNames
      BY <1>1, Zenon
    <3>3. QED
      BY <3>1, <3>2, Zenon
  <2>2. QED
    BY <1>2, <2>1, Zenon
<1>5. \A k \in DOMAIN q.options :
        LET o == q.options[k]
        IN  /\ o.number = FALSE
            /\ \/ o.kind = "flag" /\ o.default = FALSE /\ k \notin Letters
               \/ o.kind = "option"
  <2> SUFFICES ASSUME NEW k \in DOMAIN q.options
               PROVE  /\ q.options[k].number = FALSE
                      /\ \/ /\ q.options[k].kind = "flag" /\ q.options[k].default = FALSE
                            /\ k \notin Letters
                         \/ q.options[k].kind = "option"
    BY Zenon
  <2>1. CASE k = name
    BY <1>3, <2>1, Zenon
  <2>2. CASE k # name
    <3>1. k \in DOMAIN p.options /\ q.options[k] = p.options[k]
      BY <1>3, <2>2
    <3>2. QED
      BY <3>1, Zenon DEF BuiltSoFar
  <2>3. QED
    BY <2>1, <2>2
<1>6. ToSet(q.order) \subseteq DOMAIN q.options
  BY <1>3, <1>4 DEF BuiltSoFar
<1>7. /\ \A alias \in DOMAIN q.aliases : q.aliases[alias] \in DOMAIN q.options \cup later
      /\ "" \notin DOMAIN q.options \cup DOMAIN q.aliases
  BY <1>2, <1>3 DEF BuiltSoFar
<1>8. \/ q.positionals = << >>
      \/ \E positional : q.positionals = <<positional>> /\ positional.number = FALSE
  BY <1>2, Zenon DEF BuiltSoFar
<1>9. BuiltSoFar(q, later)
  BY <1>2, <1>4, <1>5, <1>6, <1>7, <1>8, Zenon DEF BuiltSoFar
<1>10. QED
  BY <1>2, <1>3, <1>9 DEF q

LEMMA AddAliasBuilds ==
  ASSUME NEW p, NEW later, BuiltSoFar(p, later), NEW alias, alias # "",
         NEW name \in DOMAIN p.options \cup later
  PROVE  LET q == AddAlias(p, alias, name)
         IN  /\ BuiltSoFar(q, later) /\ q.options = p.options
             /\ q.positionals = p.positionals
<1> DEFINE q == AddAlias(p, alias, name)
<1>1. DOMAIN p = {"options", "order", "aliases", "positionals"}
  BY DEF BuiltSoFar
<1>2. /\ DOMAIN q = {"options", "order", "aliases", "positionals"}
      /\ q.aliases = Extended(p.aliases, alias, name)
      /\ q.options = p.options /\ q.order = p.order /\ q.positionals = p.positionals
  BY <1>1 DEF AddAlias
<1> HIDE DEF q
<1>3. /\ DOMAIN q.aliases = DOMAIN p.aliases \cup {alias}
      /\ q.aliases[alias] = name
      /\ \A k \in DOMAIN p.aliases : k # alias => q.aliases[k] = p.aliases[k]
  <2> DEFINE f == p.aliases
             g == Extended(f, alias, name)
  <2>1. q.aliases = g
    BY <1>2
  <2> HIDE DEF f
  <2>2. /\ DOMAIN g = DOMAIN f \cup {alias} /\ g[alias] = name
        /\ \A k \in DOMAIN f : k # alias => g[k] = f[k]
    BY DEF Extended
  <2>3. QED
    BY <2>1, <2>2, Zenon DEF f
<1>4. \A k \in DOMAIN q.aliases : q.aliases[k] \in DOMAIN q.options \cup later
  BY <1>2, <1>3 DEF BuiltSoFar
<1>5. "" \notin DOMAIN q.options \cup DOMAIN q.aliases
  BY <1>2, <1>3 DEF BuiltSoFar
<1>6. BuiltSoFar(q, later)
  BY <1>2, <1>4, <1>5, Zenon DEF BuiltSoFar
<1>7. QED
  BY <1>2, <1>6 DEF q

LEMMA AddPositionalBuilds ==
  ASSUME NEW p, NEW later, BuiltSoFar(p, later), p.positionals = << >>,
         NEW required, NEW default
  PROVE  LET q == AddPositional(p, FALSE, required, default)
         IN  BuiltSoFar(q, later) /\ q.options = p.options
<1> DEFINE q == AddPositional(p, FALSE, required, default)
           positional == [number |-> FALSE, required |-> required, default |-> default]
<1>1. DOMAIN p = {"options", "order", "aliases", "positionals"}
  BY DEF BuiltSoFar
<1>2. /\ DOMAIN q = {"options", "order", "aliases", "positionals"}
      /\ q.positionals = Append(<< >>, positional)
      /\ q.options = p.options /\ q.order = p.order /\ q.aliases = p.aliases
  BY <1>1 DEF AddPositional
<1>3. positional.number = FALSE
  OBVIOUS
<1> HIDE DEF q, positional
<1>4. Append(<< >>, positional) = <<positional>>
  OBVIOUS
<1>5. \E x : q.positionals = <<x>> /\ x.number = FALSE
  BY <1>2, <1>3, <1>4, Zenon
<1>6. BuiltSoFar(q, later)
  BY <1>2, <1>5, Zenon DEF BuiltSoFar
<1>7. QED
  BY <1>2, <1>6 DEF q

LEMMA NewParserBuilt == \A later : BuiltSoFar(NewParser, later)
<1> SUFFICES ASSUME NEW later PROVE BuiltSoFar(NewParser, later)
  OBVIOUS
<1>1. /\ DOMAIN NewParser = {"options", "order", "aliases", "positionals"}
      /\ NewParser.options = << >> /\ NewParser.order = << >>
      /\ NewParser.aliases = << >> /\ NewParser.positionals = << >>
  BY DEF NewParser
<1>2. << >> \in Seq(OptionNames) /\ DOMAIN << >> = {}
  OBVIOUS
<1>3. ToSet(<< >>) = {}
  BY <1>2 DEF ToSet
<1>4. QED
  BY <1>1, <1>2, <1>3 DEF BuiltSoFar

LEMMA AddFlagBuilds ==
  ASSUME NEW p, NEW later, BuiltSoFar(p, later), NEW name \in OptionNames, name # "",
         name \notin Letters
  PROVE  LET q == AddFlag(p, name)
         IN  /\ BuiltSoFar(q, later) /\ DOMAIN q.options = DOMAIN p.options \cup {name}
             /\ q.positionals = p.positionals
<1> DEFINE option == Option("flag", FALSE, FALSE, TRUE, FALSE)
<1>1. option.number = FALSE /\ option.kind = "flag" /\ option.default = FALSE
  BY DEF Option
<1> HIDE DEF option
<1>2. LET q == AddArgument(p, name, option)
      IN  /\ BuiltSoFar(q, later) /\ DOMAIN q.options = DOMAIN p.options \cup {name}
          /\ q.positionals = p.positionals
  BY <1>1, AddArgumentBuilds, Zenon
<1>3. QED
  BY <1>2 DEF AddFlag, option

\* The options of this program, added one after the other.
LEMMA RedyBuilt == Built(RedyParser)
<1> DEFINE later == {"min_size_rel"}
           option == Option("option", FALSE, FALSE, TRUE, Text(Word("redy_config.toml"), FALSE))
           p1 == AddArgument(NewParser, "config", option)
           p2 == AddAlias(p1, "c", "config")
           p3 == AddFlag(p2, "verbose")
           p4 == AddAlias(p3, "V", "verbose")
           p5 == AddAlias(p4, "mr", "min_size_rel")
           p6 == AddPositional(p5, FALSE, FALSE, Text(Word("compile"), FALSE))
           p7 == AddFlag(p6, "debug")
           p8 == AddAlias(p7, "d", "debug")
           p9 == AddFlag(p8, "release")
           p10 == AddAlias(p9, "r", "release")
           p11 == AddFlag(p10, "rel_w_deb_info")
           p12 == AddAlias(p11, "rd", "rel_w_deb_info")
           p13 == AddFlag(p12, "min_size_rel")
<1>0. RedyParser = p13
  BY DEF RedyParser, AddOption
<1>names. /\ "verbose" \notin Letters /\ "debug" \notin Letters /\ "release" \notin Letters
          /\ "rel_w_deb_info" \notin Letters /\ "min_size_rel" \notin Letters
          /\ "verbose" # "" /\ "debug" # "" /\ "release" # "" /\ "rel_w_deb_info" # ""
          /\ "min_size_rel" # "" /\ "config" # "" /\ "c" # "" /\ "V" # "" /\ "mr" # ""
          /\ "d" # "" /\ "r" # "" /\ "rd" # ""
  BY ParsersAssumption
<1>known. /\ "verbose" \in OptionNames /\ "debug" \in OptionNames /\ "release" \in OptionNames
          /\ "rel_w_deb_info" \in OptionNames /\ "min_size_rel" \in OptionNames
          /\ "config" \in OptionNames
  BY DEF OptionNames
<1>option. option.number = FALSE /\ option.kind = "option"
  BY DEF Option
<1>later. "min_size_rel" \in later
  OBVIOUS
<1> HIDE DEF later, option, p13
<1>1. BuiltSoFar(p1, later) /\ "config" \in DOMAIN p1.options /\ p1.positionals = << >>
  <2>1. BuiltSoFar(NewParser, later)
    BY NewParserBuilt, Zenon
  <2>2. NewParser.positionals = << >>
    BY DEF NewParser
  <2>3. /\ BuiltSoFar(p1, later) /\ DOMAIN p1.options = DOMAIN NewParser.options \cup {"config"}
        /\ p1.positionals = NewParser.positionals
    BY <2>1, <1>names, <1>known, <1>option, AddArgumentBuilds, Zenon
  <2> HIDE DEF p1
  <2>4. QED
    BY <2>2, <2>3
<1> HIDE DEF p1
<1>alias. ASSUME NEW p, BuiltSoFar(p, later),
                 NEW alias \in {"c", "V", "d", "r", "rd", "mr"},
                 NEW name \in DOMAIN p.options \cup later
          PROVE  LET q == AddAlias(p, alias, name)
                 IN  /\ BuiltSoFar(q, later) /\ q.options = p.options
                     /\ q.positionals = p.positionals
  <2>1. alias # ""
    BY <1>names, Zenon
  <2>2. QED
    BY <1>alias, <2>1, AddAliasBuilds, Zenon
<1>2. BuiltSoFar(p2, later) /\ p2.positionals = << >>
  BY <1>1, <1>alias, Zenon
<1> HIDE DEF p2
<1>flag. ASSUME NEW p, BuiltSoFar(p, later),
                NEW name \in {"verbose", "debug", "release", "rel_w_deb_info", "min_size_rel"}
         PROVE  LET q == AddFlag(p, name)
                IN  /\ BuiltSoFar(q, later) /\ name \in DOMAIN q.options
                    /\ q.positionals = p.positionals
  <2> DEFINE q == AddFlag(p, name)
  <2>1. name \in OptionNames /\ name # "" /\ name \notin Letters
    BY <1>names, <1>known, Zenon
  <2>2. /\ BuiltSoFar(q, later) /\ DOMAIN q.options = DOMAIN p.options \cup {name}
        /\ q.positionals = p.positionals
    BY <1>flag, <2>1, AddFlagBuilds, Zenon
  <2> HIDE DEF q
  <2>3. QED
    BY <2>2 DEF q
<1>3. BuiltSoFar(p3, later) /\ "verbose" \in DOMAIN p3.options /\ p3.positionals = << >>
  BY <1>2, <1>flag, Zenon
<1> HIDE DEF p3
<1>4. BuiltSoFar(p4, later) /\ p4.positionals = << >>
  BY <1>3, <1>alias, Zenon
<1> HIDE DEF p4
<1>5. BuiltSoFar(p5, later) /\ p5.positionals = << >>
  <2>1. "min_size_rel" \in DOMAIN p4.options \cup later
    BY <1>later
  <2>2. QED
    BY <1>4, <1>alias, <2>1, Zenon
<1> HIDE DEF p5
<1>6. BuiltSoFar(p6, later)
  BY <1>5, AddPositionalBuilds, Zenon
<1> HIDE DEF p6
<1>7. BuiltSoFar(p7, later) /\ "debug" \in DOMAIN p7.options
  BY <1>6, <1>flag, Zenon
<1> HIDE DEF p7
<1>8. BuiltSoFar(p8, later)
  BY <1>7, <1>alias, Zenon
<1> HIDE DEF p8
<1>9. BuiltSoFar(p9, later) /\ "release" \in DOMAIN p9.options
  BY <1>8, <1>flag, Zenon
<1> HIDE DEF p9
<1>10. BuiltSoFar(p10, later)
  BY <1>9, <1>alias, Zenon
<1> HIDE DEF p10
<1>11. BuiltSoFar(p11, later) /\ "rel_w_deb_info" \in DOMAIN p11.options
  BY <1>10, <1>flag, Zenon
<1> HIDE DEF p11
<1>12. BuiltSoFar(p12, later)
  BY <1>11, <1>alias, Zenon
<1> HIDE DEF p12
<1>13. BuiltSoFar(p13, later) /\ "min_size_rel" \in DOMAIN p13.options
  BY <1>12, <1>flag, Zenon DEF p13
<1>14. Built(p13)
  <2>1. \A alias \in DOMAIN p13.aliases : p13.aliases[alias] \in DOMAIN p13.options
    BY <1>13 DEF BuiltSoFar, later
  <2>2. \A name \in DOMAIN p13.options :
          LET o == p13.options[name]
          IN  /\ o.number \in BOOLEAN
              /\ \/ o.kind = "flag" /\ o.default = FALSE /\ name \notin Letters
                 \/ o.kind = "option"
    BY <1>13 DEF BuiltSoFar
  <2>3. /\ DOMAIN p13.positionals = 1 .. Len(p13.positionals)
        /\ Len(p13.positionals) \in Nat
        /\ \A k \in DOMAIN p13.positionals : p13.positionals[k].number \in BOOLEAN
    <3>1. CASE p13.positionals = << >>
      BY <3>1
    <3>2. ASSUME NEW x, p13.positionals = <<x>>, x.number = FALSE
          PROVE  /\ DOMAIN p13.positionals = 1 .. Len(p13.positionals)
                 /\ Len(p13.positionals) \in Nat
                 /\ \A k \in DOMAIN p13.positionals : p13.positionals[k].number \in BOOLEAN
      <4> DEFINE one == <<x>>
      <4>1. DOMAIN one = 1 .. 1 /\ Len(one) = 1 /\ one[1] = x /\ 1 \in Nat
        OBVIOUS
      <4>2. \A k \in 1 .. 1 : k = 1
        OBVIOUS
      <4> HIDE DEF one
      <4>3. \A k \in DOMAIN one : one[k].number = FALSE
        BY <3>2, <4>1, <4>2, Zenon
      <4>4. p13.positionals = one
        BY <3>2 DEF one
      <4>5. QED
        BY <4>1, <4>3, <4>4
    <3>3. QED
      BY <1>13, <3>1, <3>2 DEF BuiltSoFar
  <2>4. ToSet(p13.order) \subseteq DOMAIN p13.options
    BY <1>13 DEF BuiltSoFar
  <2>5. "" \notin DOMAIN p13.options \cup DOMAIN p13.aliases
    BY <1>13 DEF BuiltSoFar
  <2>6. QED
    BY <2>1, <2>2, <2>3, <2>4, <2>5, Zenon DEF Built
<1>15. QED
  BY <1>0, <1>14

LEMMA ParserBuilt == program \in DOMAIN CommandLines => Built(parser)
<1>1. \A name \in DOMAIN OtherParsers : Built(OtherParsers[name])
  BY ParsersAssumption
<1>2. program \in DOMAIN CommandLines => program \in DOMAIN OtherParsers \/ program = "redy"
  BY ApplicationAssumption
<1>3. QED
  BY <1>1, <1>2, RedyBuilt, Zenon DEF parser

-----------------------------------------------------------------------------
(* The help *)

\* One of the forms the help shows: a letter with one dash, or more than one
\* character with two.
Shown(p, arg) ==
  /\ arg.name # "" /\ arg.dashes \in {1, 2}
  /\ arg.dashes = 1 => arg.name \in Letters /\ ~ arg.eq
  /\ arg.dashes = 2 => arg.name \notin Letters \/ arg.eq
  /\ Names(p, arg) \in DOMAIN p.options

LEMMA ShownKnown ==
  ASSUME NEW p, NEW arg, Shown(p, arg)
  PROVE  Known(p, arg) \/ IsHelpFlag(arg) \/ IsVersionFlag(arg)
<1>1. arg # DoubleDash /\ arg # LoneDash
  <2>1. DoubleDash.name = "" /\ LoneDash.name = ""
    BY DEF DoubleDash, LoneDash, Arg
  <2>2. QED
    BY <2>1, Zenon DEF Shown
<1> DEFINE letter == arg.name \in Letters /\ ~ arg.eq
           type == ClassifyArgument(arg)
<1>2. type = IF arg.dashes = 2 THEN IF letter THEN "long_single" ELSE "long"
             ELSE IF arg.dashes = 1 THEN IF letter THEN "short" ELSE "short_multiple"
             ELSE "positional"
  BY <1>1, Zenon DEF ClassifyArgument
<1>3. /\ arg.dashes = 1 \/ arg.dashes = 2
      /\ arg.dashes = 1 => letter
      /\ arg.dashes = 2 => ~ letter
  BY Zenon DEF Shown
<1> HIDE DEF letter, type
<1>4. type \in {"long", "short"}
  BY <1>2, <1>3
<1>5. QED
  BY <1>4, Zenon DEF Known, Shown, type

\* Who follows the help is understood.
LEMMA HelpUnderstood ==
  ASSUME NEW p, Built(p), NEW arg \in HelpForms(p)
  PROVE  Known(p, arg) \/ IsHelpFlag(arg) \/ IsVersionFlag(arg)
<1>1. /\ ToSet(p.order) \subseteq DOMAIN p.options
      /\ "" \notin DOMAIN p.options \cup DOMAIN p.aliases
      /\ \A alias \in DOMAIN p.aliases : p.aliases[alias] \in DOMAIN p.options
      /\ \A name \in DOMAIN p.options : p.options[name].kind = "flag" => name \notin Letters
  <2>1. \A name \in DOMAIN p.options :
          LET option == p.options[name]
          IN  \/ option.kind = "flag" /\ option.default = FALSE /\ name \notin Letters
              \/ option.kind = "option"
              \/ option.kind = "list" /\ option.default = << >>
    BY DEF Built
  <2>2. \A name \in DOMAIN p.options : p.options[name].kind = "flag" => name \notin Letters
    BY <2>1
  <2>3. QED
    BY <2>2, Zenon DEF Built
<1>2. ASSUME NEW alias \in DOMAIN p.aliases,
             arg = Arg(IF alias \in Letters THEN 1 ELSE 2, alias, FALSE, "")
      PROVE  Shown(p, arg)
  <2> DEFINE dashes == IF alias \in Letters THEN 1 ELSE 2
  <2>0. arg = Arg(dashes, alias, FALSE, "")
    BY <1>2
  <2> HIDE DEF dashes
  <2>1. arg.dashes = dashes /\ arg.name = alias /\ arg.eq = FALSE
    BY <2>0 DEF Arg
  <2>2. alias # ""
    BY <1>1
  <2>3. Names(p, arg) \in DOMAIN p.options
    BY <1>1, <2>1, Zenon DEF Names, ResolveAlias
  <2>4. 1 # 2
    OBVIOUS
  <2>5. CASE alias \in Letters
    <3>1. dashes = 1
      BY <2>5 DEF dashes
    <3>2. QED
      BY <2>1, <2>2, <2>3, <2>4, <2>5, <3>1, Zenon DEF Shown
  <2>6. CASE alias \notin Letters
    <3>1. dashes = 2
      BY <2>6 DEF dashes
    <3>2. QED
      BY <2>1, <2>2, <2>3, <2>4, <2>6, <3>1, Zenon DEF Shown
  <2>7. QED
    BY <2>5, <2>6
<1>3. ASSUME NEW name \in DOMAIN p.options,
             LET takes == p.options[name].kind # "flag"
             IN  arg = Arg(2, name, takes, IF takes THEN "<value>" ELSE "")
      PROVE  Shown(p, arg)
  <2> DEFINE takes == p.options[name].kind # "flag"
             value == IF takes THEN "<value>" ELSE ""
  <2>0. arg = Arg(2, name, takes, value)
    BY <1>3
  <2> HIDE DEF takes, value
  <2>1. arg.dashes = 2 /\ arg.name = name /\ arg.eq = takes
    BY <2>0 DEF Arg
  <2>2. name # "" /\ (name \notin Letters \/ p.options[name].kind # "flag")
    BY <1>1
  <2>3. Names(p, arg) \in DOMAIN p.options
    BY <1>1, <2>1, Zenon DEF Names, ResolveAlias
  <2>4. 1 # 2
    OBVIOUS
  <2>5. QED
    BY <2>1, <2>2, <2>3, <2>4, Zenon DEF Shown, takes
<1>4. \/ \E alias \in DOMAIN p.aliases :
           arg = Arg(IF alias \in Letters THEN 1 ELSE 2, alias, FALSE, "")
      \/ \E name \in DOMAIN p.options :
           LET takes == p.options[name].kind # "flag"
           IN  arg = Arg(2, name, takes, IF takes THEN "<value>" ELSE "")
      \/ IsHelpFlag(arg) \/ IsVersionFlag(arg)
  BY <1>1, Zenon DEF HelpForms, IsHelpFlag, IsVersionFlag
<1>5. QED
  BY <1>2, <1>3, <1>4, ShownKnown, Zenon

-----------------------------------------------------------------------------
(* The command line *)

\* The main thread is before parse(), in it, or behind its success.
Before ==
  pc \in {"preinit", "options"} \/ (pc = "flush" /\ then \in {"preinit", "options"})
Within == pc = "parse" \/ (pc = "flush" /\ then = "parse")
Compiles ==
  pc \in {"build_type", "progress"} \/ (pc = "flush" /\ then \in {"build_type", "progress"})

LineInv == program \in DOMAIN CommandLines /\ (argv # << >> => args \in Seq(Args))

ParseInv ==
  /\ parse.result = result
  /\ parse.result # "none" =>
       IF argv = << >> THEN parse.result = "invalid_format" ELSE Agrees(parser, args, parse)
  /\ Before => parse.result = "none"
  /\ Within => argv # << >> /\ Loop(parser, args, parse)
  /\ Compiles => parse.result = "success"
  /\ bar.at > 0 => parse.result = "success"

LEMMA TailIs ==
  ASSUME NEW S, NEW line \in Seq(S), NEW x
  PROVE  <<x>> \o line # << >> /\ Tail(<<x>> \o line) = line
<1> DEFINE T == S \cup {x}
           one == <<x>>
           both == one \o line
           n == Len(line)
<1>1. line \in Seq(T) /\ n \in Nat
  OBVIOUS
<1>2. one \in Seq(T) /\ Len(one) = 1 /\ one[1] = x
  OBVIOUS
<1> HIDE DEF T, one, n
<1>3. both \in Seq(T) /\ Len(both) = n + 1
  <2>1. both \in Seq(T) /\ Len(both) = Len(one) + Len(line)
    BY <1>1, <1>2, ConcatProperties, Zenon
  <2>2. Len(line) = n
    BY DEF n
  <2> HIDE DEF both
  <2>3. QED
    BY <1>1, <1>2, <2>1, <2>2
<1>4. \A k \in 1 .. n + 1 : both[k] = IF k <= 1 THEN one[k] ELSE line[k - 1]
  <2>1. \A k \in 1 .. Len(one) + Len(line) :
          both[k] = IF k <= Len(one) THEN one[k] ELSE line[k - Len(one)]
    BY <1>1, <1>2, ConcatProperties, Zenon
  <2>2. \A k : k \in 1 .. n + 1 <=> k \in 1 .. 1 + n
    BY <1>1
  <2>3. QED
    BY <1>2, <2>1, <2>2, Zenon DEF n
<1> HIDE DEF both
<1>5. both # << >>
  <2>1. Len(both) # 0
    BY <1>1, <1>3
  <2>2. Len(<< >>) = 0
    OBVIOUS
  <2>3. QED
    BY <2>1, <2>2, Zenon
<1>6. /\ Tail(both) \in Seq(T) /\ Len(Tail(both)) = n
      /\ \A k \in 1 .. n : Tail(both)[k] = both[k + 1]
  BY <1>1, <1>3, <1>5
<1>7. \A k \in 1 .. n : Tail(both)[k] = line[k]
  <2> SUFFICES ASSUME NEW k \in 1 .. n PROVE Tail(both)[k] = line[k]
    OBVIOUS
  <2> DEFINE j == k + 1
  <2>1. j \in 1 .. n + 1 /\ ~ (j <= 1) /\ j - 1 = k
    BY <1>1
  <2>2. Tail(both)[k] = both[j]
    BY <1>6
  <2> HIDE DEF j
  <2>3. both[j] = line[j - 1]
    BY <1>4, <2>1, Zenon
  <2>4. QED
    BY <2>1, <2>2, <2>3
<1>8. Tail(both) = line
  BY <1>1, <1>6, <1>7, SeqEqual, Zenon DEF n
<1>9. QED
  BY <1>5, <1>8 DEF both, one

LEMMA LineStarts == Init => LineInv
<1> SUFFICES ASSUME Init PROVE LineInv
  OBVIOUS
<1>1. program \in DOMAIN CommandLines
  BY DEF Init
<1>2. argv = << >> \/ \E line \in CommandLines[program] : argv = <<Word(program)>> \o line
  BY Zenon DEF Init
<1>3. ASSUME NEW line \in CommandLines[program], argv = <<Word(program)>> \o line
      PROVE  args \in Seq(Args)
  <2>1. line \in Seq(Args)
    BY <1>1, ParsersAssumption
  <2>2. Tail(<<Word(program)>> \o line) = line
    BY <2>1, TailIs, Zenon
  <2>3. args = line
    BY <1>3, <2>2, Zenon DEF args
  <2>4. QED
    BY <2>1, <2>3
<1>4. QED
  BY <1>1, <1>2, <1>3, Zenon DEF LineInv

LEMMA ParseStarts == Init => ParseInv
<1> SUFFICES ASSUME Init PROVE ParseInv
  OBVIOUS
<1>1. parse = NotStarted /\ result = "none" /\ pc = "preinit" /\ bar = NewBar
  BY DEF Init
<1>2. parse.result = "none" /\ bar.at = 0
  BY <1>1 DEF NotStarted, NewBar
<1>3. QED
  BY <1>1, <1>2 DEF ParseInv, Before, Within, Compiles

\* The command line and the parser do not change.
LEMMA LineKept ==
  ASSUME UNCHANGED <<program, argv>>
  PROVE  /\ parser' = parser /\ args' = args
         /\ LineInv => LineInv'
BY DEF parser, args, LineInv

\* A step outside parse().
LEMMA ParseKept ==
  ASSUME ParseInv, UNCHANGED <<program, argv, parse, result>>,
         bar' = bar \/ parse.result = "success",
         Before' => Before, Within' => Within, Compiles' => parse.result = "success"
  PROVE  ParseInv'
<1>1. parser' = parser /\ args' = args
  BY LineKept
<1>2. /\ Agrees(parser, args, parse) => Agrees(parser, args, parse)'
      /\ Loop(parser, args, parse) => Loop(parser, args, parse)'
  BY <1>1
<1>3. (bar.at > 0)' => parse.result = "success"
  BY DEF ParseInv
<1>4. QED
  BY <1>2, <1>3 DEF ParseInv

LEMMA SetupParses == LineInv /\ ParseInv /\ SetupOptions => ParseInv'
<1> SUFFICES ASSUME LineInv, ParseInv, SetupOptions PROVE ParseInv'
  OBVIOUS
<1>1. /\ pc = "options" /\ parse' = Started(parser, argv) /\ result' = parse'.result
      /\ pc' = IF argv = << >> THEN "returned" ELSE "parse"
      /\ UNCHANGED <<program, argv, bar>>
  BY DEF SetupOptions
<1>2. ~ (bar.at > 0)
  BY <1>1 DEF ParseInv, Before
<1>3. parser' = parser /\ args' = args
  BY <1>1, LineKept
<1>4. CASE argv = << >>
  <2>1. parse'.result = "invalid_format"
    BY <1>1, <1>4 DEF Started
  <2>2. pc' = "returned"
    BY <1>1, <1>4
  <2>3. QED
    BY <1>1, <1>2, <1>4, <2>1, <2>2 DEF ParseInv, Before, Within, Compiles
<1>5. CASE argv # << >>
  <2>1. Loop(parser, args, Started(parser, argv))
    BY <1>5, ParserBuilt, LoopStarts, Zenon DEF LineInv
  <2>2. Loop(parser, args, parse)'
    BY <1>1, <1>3, <2>1
  <2>3. parse'.result = "none"
    BY <1>1, <2>1 DEF Loop
  <2>4. pc' = "parse"
    BY <1>1, <1>5
  <2>5. QED
    BY <1>1, <1>2, <1>5, <2>2, <2>3, <2>4 DEF ParseInv, Before, Within, Compiles
<1>6. QED
  BY <1>4, <1>5

\* A step of parse().
LEMMA BecomesParses ==
  ASSUME LineInv, ParseInv, pc = "parse", NEW q, ParseBecomes(q), Takes(parser, args, q)
  PROVE  ParseInv'
<1>1. /\ parse' = q /\ result' = q.result /\ UNCHANGED <<program, argv, bar>>
      /\ \/ pc' = Parsing(q)
         \/ pc' = "flush" /\ then' = Parsing(q)
  BY DEF ParseBecomes, LogRefAndFlush
<1>2. argv # << >> /\ parse.result = "none"
  BY DEF ParseInv, Within, Loop
<1>3. ~ (bar.at > 0)
  BY <1>2 DEF ParseInv
<1>4. parser' = parser /\ args' = args
  BY <1>1, LineKept
<1>5. CASE Loop(parser, args, q)
  <2>1. Loop(parser, args, parse)'
    BY <1>1, <1>4, <1>5
  <2>2. q.result = "none" /\ Parsing(q) = "parse"
    BY <1>5 DEF Loop, Parsing
  <2>3. ~ Before' /\ ~ Compiles'
    BY <1>1, <2>2 DEF Before, Compiles
  <2>4. QED
    BY <1>1, <1>2, <1>3, <2>1, <2>2, <2>3 DEF ParseInv
<1>6. CASE Agrees(parser, args, q)
  <2>1. Agrees(parser, args, parse)'
    BY <1>1, <1>4, <1>6
  <2>2. q.result # "none"
    BY <1>6 DEF Agrees
  <2>3. Parsing(q) = IF q.result = "success" THEN "build_type" ELSE "returned"
    BY <2>2 DEF Parsing
  <2>4. ~ Before' /\ ~ Within' /\ (Compiles' => q.result = "success")
    BY <1>1, <2>3 DEF Before, Within, Compiles
  <2>5. QED
    BY <1>1, <1>2, <1>3, <2>1, <2>2, <2>4 DEF ParseInv
<1>7. QED
  BY <1>5, <1>6 DEF Takes

LEMMA ParseArgumentParses == LineInv /\ ParseInv /\ ParseArgument => ParseInv'
<1> SUFFICES ASSUME LineInv, ParseInv, ParseArgument PROVE ParseInv'
  OBVIOUS
<1>1. /\ pc = "parse" /\ parse.i <= Len(args)
      /\ ParseBecomes(TakeArgument(parser, args, parse))
  BY DEF ParseArgument
<1>2. argv # << >> /\ Loop(parser, args, parse) /\ args \in Seq(Args) /\ Built(parser)
  BY <1>1, ParserBuilt DEF LineInv, ParseInv, Within
<1>3. Takes(parser, args, TakeArgument(parser, args, parse))
  BY <1>1, <1>2, TakeArgumentTakes
<1>4. QED
  BY <1>1, <1>3, BecomesParses

LEMMA ParseEndsParses == LineInv /\ ParseInv /\ ParseEnds => ParseInv'
<1> SUFFICES ASSUME LineInv, ParseInv, ParseEnds PROVE ParseInv'
  OBVIOUS
<1>1. /\ pc = "parse" /\ parse.i > Len(args)
      /\ ParseBecomes(Conclude(parser, parse))
  BY DEF ParseEnds
<1>2. argv # << >> /\ Loop(parser, args, parse) /\ args \in Seq(Args) /\ Built(parser)
  BY <1>1, ParserBuilt DEF LineInv, ParseInv, Within
<1>3. Agrees(parser, args, Conclude(parser, parse))
  BY <1>1, <1>2, ConcludeAgrees
<1>4. QED
  BY <1>1, <1>3, BecomesParses DEF Takes

LEMMA WarnOfValueParses == LineInv /\ ParseInv /\ WarnOfValue => ParseInv'
<1> SUFFICES ASSUME LineInv, ParseInv, WarnOfValue PROVE ParseInv'
  OBVIOUS
<1> DEFINE s == [parse EXCEPT !.warned = TRUE]
<1>1. /\ pc = "parse" /\ parse' = s /\ UNCHANGED <<program, argv, result, bar>>
      /\ pc' = "flush" /\ then' = "parse"
  BY DEF WarnOfValue, LogRefAndFlush
<1>2. /\ argv # << >> /\ Loop(parser, args, parse)
      /\ bar.at > 0 => parse.result = "success"
      /\ result = parse.result /\ parse.result = "none"
  BY <1>1 DEF ParseInv, Within, Loop
<1>3. Loop(parser, args, s)
  BY <1>2, Unwarned
<1> HIDE DEF s
<1>4. parser' = parser /\ args' = args
  BY <1>1, LineKept
<1>5. Loop(parser, args, parse)' /\ parse'.result = "none"
  <2>1. PICK q : parse' = q /\ Loop(parser, args, q)
    BY <1>1, <1>3
  <2>2. Loop(parser, args, parse)'
    BY <1>4, <2>1
  <2>3. q.result = "none"
    BY <2>1 DEF Loop
  <2>4. QED
    BY <2>1, <2>2, <2>3
<1>6. ~ Before' /\ ~ Compiles'
  BY <1>1 DEF Before, Compiles
<1>7. QED
  BY <1>1, <1>2, <1>5, <1>6 DEF ParseInv

LEMMA OthersParse ==
  ParseInv /\ (\/ Register \/ ChooseBuildType \/ UpdateProgress \/ FinishProgress \/ Return
               \/ Exit \/ FlushEnds \/ ReportFault \/ StopAndExit \/ WorkerPrints
               \/ \E kind \in FaultKinds, stack \in Stacks : Fault(kind, stack)
               \/ UNCHANGED vars) => ParseInv'
<1> SUFFICES ASSUME ParseInv PROVE
      (\/ Register \/ ChooseBuildType \/ UpdateProgress \/ FinishProgress \/ Return
       \/ Exit \/ FlushEnds \/ ReportFault \/ StopAndExit \/ WorkerPrints
       \/ \E kind \in FaultKinds, stack \in Stacks : Fault(kind, stack)
       \/ UNCHANGED vars) => ParseInv'
  OBVIOUS
<1>1. CASE Register
  <2>1. /\ UNCHANGED <<program, argv, parse, result, bar>> /\ Before
        /\ pc' \in {"preinit", "options"}
    BY <1>1 DEF Register, main, Before
  <2>2. ~ Within' /\ ~ Compiles'
    BY <2>1 DEF Before, Within, Compiles
  <2>3. QED
    BY <2>1, <2>2, ParseKept
<1>2. CASE ChooseBuildType
  <2>1. /\ UNCHANGED <<program, argv, parse, result, bar>> /\ pc = "build_type"
        /\ \/ pc' \in {"returned", "progress"}
           \/ pc' = "flush" /\ then' = "progress"
    BY <1>2 DEF ChooseBuildType, LogRefAndFlush
  <2>2. parse.result = "success" /\ ~ Before' /\ ~ Within'
    BY <2>1 DEF ParseInv, Compiles, Before, Within
  <2>3. QED
    BY <2>1, <2>2, ParseKept
<1>3. CASE UpdateProgress
  <2>1. /\ UNCHANGED <<program, argv, parse, result>> /\ pc = "progress"
        /\ pc' = "flush" /\ then' = "progress"
    BY <1>3 DEF UpdateProgress, LogRefAndFlush
  <2>2. parse.result = "success" /\ ~ Before' /\ ~ Within'
    BY <2>1 DEF ParseInv, Compiles, Before, Within
  <2>3. QED
    BY <2>1, <2>2, ParseKept
<1>4. CASE FinishProgress
  <2>1. /\ UNCHANGED <<program, argv, parse, result>> /\ pc = "progress"
        /\ pc' = "returned"
    BY <1>4 DEF FinishProgress
  <2>2. parse.result = "success" /\ ~ Before' /\ ~ Within'
    BY <2>1 DEF ParseInv, Compiles, Before, Within
  <2>3. QED
    BY <2>1, <2>2, ParseKept
<1>5. CASE Return \/ Exit \/ StopAndExit
  <2>1. UNCHANGED <<program, argv, parse, result, bar>> /\ pc' \in {"exiting", "exited"}
    BY <1>5 DEF Return, Exit, StopAndExit, main
  <2>2. ~ Before' /\ ~ Within' /\ ~ Compiles'
    BY <2>1 DEF Before, Within, Compiles
  <2>3. QED
    BY <2>1, <2>2, ParseKept
<1>6. CASE FlushEnds
  <2>1. UNCHANGED <<program, argv, parse, result, bar, then>> /\ pc = "flush" /\ pc' = then
    BY <1>6 DEF FlushEnds, main
  <2>2. (Before' => Before) /\ (Within' => Within) /\ (Compiles' => Compiles)
    BY <2>1 DEF Before, Within, Compiles
  <2>3. QED
    BY <2>1, <2>2, ParseKept DEF ParseInv
<1>7. CASE ReportFault
  <2>1. UNCHANGED <<program, argv, parse, result, bar>> /\ pc' = "flush" /\ then' = "stop"
    BY <1>7 DEF ReportFault, LogRefAndFlush, main
  <2>2. ~ Before' /\ ~ Within' /\ ~ Compiles'
    BY <2>1 DEF Before, Within, Compiles
  <2>3. QED
    BY <2>1, <2>2, ParseKept
<1>8. CASE WorkerPrints \/ UNCHANGED vars
  <2>1. UNCHANGED <<program, argv, parse, result, bar, pc, then>>
    BY <1>8 DEF WorkerPrints, main, vars
  <2>2. (Before' => Before) /\ (Within' => Within) /\ (Compiles' => Compiles)
    BY <2>1 DEF Before, Within, Compiles
  <2>3. QED
    BY <2>1, <2>2, ParseKept DEF ParseInv
<1>9. ASSUME NEW kind \in FaultKinds, NEW stack \in Stacks, Fault(kind, stack)
      PROVE  ParseInv'
  <2>1. UNCHANGED <<program, argv, parse, result, bar>> /\ pc' \in {"report", "killed"}
    BY <1>9 DEF Fault, main
  <2>2. ~ Before' /\ ~ Within' /\ ~ Compiles'
    BY <2>1 DEF Before, Within, Compiles
  <2>3. QED
    BY <2>1, <2>2, ParseKept
<1>10. QED
  BY <1>1, <1>2, <1>3, <1>4, <1>5, <1>6, <1>7, <1>8, <1>9

LEMMA NextParses == LineInv /\ ParseInv /\ [Next]_vars => LineInv' /\ ParseInv'
<1> SUFFICES ASSUME LineInv, ParseInv, [Next]_vars PROVE LineInv' /\ ParseInv'
  OBVIOUS
<1>1. UNCHANGED <<program, argv>>
  BY DEF Next, MainThread, Ended, vars, Register, SetupOptions, WarnOfValue,
         ParseArgument, ParseEnds, ParseBecomes, ChooseBuildType, UpdateProgress,
         FinishProgress, Return, Exit, FlushEnds, ReportFault, StopAndExit, WorkerPrints,
         Fault
<1>2. LineInv'
  BY <1>1, LineKept
<1>3. ParseInv'
  BY SetupParses, WarnOfValueParses, ParseArgumentParses, ParseEndsParses, OthersParse
     DEF Next, MainThread, Ended
<1>4. QED
  BY <1>2, <1>3

\* Whatever the options, lists, flags, aliases and positional arguments of a
\* program, and whatever its command line, what parse() has stored when it comes
\* to a result is what the command line says position by position.
THEOREM ParsedCorrect == Spec => []ParsedAgrees
<1>1. Init => LineInv /\ ParseInv
  BY LineStarts, ParseStarts
<1>2. ParseInv => ParsedAgrees
  <2> SUFFICES ASSUME ParseInv, parse.result # "none", argv # << >>
               PROVE  LET placed == ShouldPlace(parser, args)
                      IN  /\ \A name \in DOMAIN parser.options :
                               parse.storage[name] = ShouldHold(parser, args, name)
                          /\ parse.positional_args = placed
                          /\ parse.result = "success" =>
                               \A k \in DOMAIN parser.positionals :
                                 LET p == parser.positionals[k]
                                 IN  parse.places[k] =
                                       IF k \in DOMAIN placed
                                       THEN ReadAs(p.number, Text(placed[k], FALSE))
                                       ELSE p.default
    BY DEF ParsedAgrees
  <2>1. Agrees(parser, args, parse)
    BY DEF ParseInv
  <2>2. QED
    BY <2>1, Zenon DEF Agrees, ShouldRead
<1>3. QED
  BY <1>1, <1>2, NextParses, PTL DEF Spec

-----------------------------------------------------------------------------
(* What the user is told *)

Told == Prints(parse) = "copy" \/ Prints(parse) \in printed

\* The message about the command line was printed, or is still queued.
ToldInv ==
  argv # << >> =>
    /\ pc = "returned" => Told
    /\ pc = "flush" /\ then = "returned" =>
         Told \/ \E k \in 1 .. Len(queue) : queue[k].owner = Prints(parse)

\* A success is not printed.
LEMMA SuccessIsQuiet ==
  ASSUME ParseInv, parse.result = "success"
  PROVE  Prints(parse) = "copy"
BY DEF Prints

LEMMA ToldStarts == Init => ToldInv
BY DEF Init, ToldInv

LEMMA BecomesTells ==
  ASSUME QueueSize >= 3, IInv, pc = "parse", NEW q, ParseBecomes(q)
  PROVE  ToldInv'
<1>1. parse' = q
  BY DEF ParseBecomes
<1>2. queue = << >> /\ queue \in Seq(Messages) /\ Len(queue) = 0
  <2>1. queue = << >>
    BY QuietFacts DEF Quiet
  <2>2. QED
    BY <2>1
<1>3. Parsing(q) # "flush"
  BY DEF Parsing
<1>4. CASE Prints(q) = "copy"
  <2>1. Prints(parse)' = "copy"
    BY <1>1, <1>4
  <2>2. QED
    BY <2>1 DEF ToldInv, Told
<1>5. CASE Prints(q) # "copy"
  <2>1. LogRefAndFlush(Prints(q), Parsing(q))
    BY <1>5 DEF ParseBecomes
  <2>2. Prints(q) \in Owners /\ TRUE \in BOOLEAN /\ Len(queue) <= 2
    BY <1>2 DEF Prints, Owners
  <2>3. Log(Prints(q), TRUE) /\ pc' = "flush"
    BY <2>1 DEF LogRefAndFlush
  <2>4. /\ Len(queue') = Len(queue) + 1
        /\ queue'[Len(queue) + 1] = [owner |-> Prints(q), by_ref |-> TRUE]
    BY <1>2, <2>2, <2>3, LogAppends
  <2>5. 1 \in 1 .. Len(queue') /\ queue'[1].owner = Prints(q)
    BY <1>2, <2>4
  <2>6. Prints(q) = Prints(parse)'
    BY <1>1
  <2>7. \E k \in 1 .. Len(queue') : queue'[k].owner = Prints(parse)'
    BY <2>5, <2>6
  <2>8. QED
    BY <2>3, <2>7 DEF ToldInv
<1>6. QED
  BY <1>4, <1>5

LEMMA WorkerTells == IInv /\ ToldInv /\ WorkerPrints => ToldInv'
<1> SUFFICES ASSUME IInv, ToldInv, WorkerPrints PROVE ToldInv'
  OBVIOUS
<1>1. /\ queue # << >> /\ queue' = Tail(queue)
      /\ printed' = printed \cup {Head(queue).owner}
      /\ UNCHANGED <<argv, pc, then, parse>>
  BY DEF WorkerPrints, main
<1>2. queue \in Seq(Messages) /\ Len(queue) \in Nat
  BY DEF IInv, QueueInv
<1>3. /\ Head(queue) = queue[1] /\ Len(queue') = Len(queue) - 1
      /\ \A k \in 1 .. Len(queue') : queue'[k] = queue[k + 1]
  BY <1>1, <1>2
<1>4. Prints(parse)' = Prints(parse) /\ (Told => Told')
  <2>1. Prints(parse)' = Prints(parse)
    BY <1>1
  <2>2. QED
    BY <1>1, <2>1 DEF Told
<1>5. ASSUME NEW k \in 1 .. Len(queue), queue[k].owner = Prints(parse)
      PROVE  Told' \/ \E j \in 1 .. Len(queue') : queue'[j].owner = Prints(parse)'
  <2>1. CASE k = 1
    <3>1. Prints(parse)' \in printed'
      BY <1>1, <1>3, <1>4, <1>5, <2>1
    <3>2. QED
      BY <3>1 DEF Told
  <2>2. CASE k # 1
    <3>1. k - 1 \in 1 .. Len(queue') /\ k - 1 + 1 = k
      BY <1>2, <1>3, <2>2
    <3>2. queue'[k - 1].owner = Prints(parse)'
      BY <1>3, <1>4, <1>5, <3>1
    <3>3. QED
      BY <3>1, <3>2
  <2>3. QED
    BY <2>1, <2>2
<1>6. argv # << >> /\ pc' = "returned" => Told'
  BY <1>1, <1>4 DEF ToldInv
<1>7. argv # << >> /\ pc' = "flush" /\ then' = "returned" =>
        Told' \/ \E k \in 1 .. Len(queue') : queue'[k].owner = Prints(parse)'
  BY <1>1, <1>4, <1>5 DEF ToldInv
<1>8. QED
  BY <1>1, <1>6, <1>7 DEF ToldInv

LEMMA FlushTells == IInv /\ ToldInv /\ FlushEnds => ToldInv'
<1> SUFFICES ASSUME IInv, ToldInv, FlushEnds PROVE ToldInv'
  OBVIOUS
<1>1. /\ pc = "flush" /\ pc' = then /\ FlushReturns
      /\ UNCHANGED <<argv, then, fault, parse, printed>>
  BY DEF FlushEnds, logger, main
<1>2. pc' # "flush"
  BY <1>1 DEF IInv, PlaceInv
<1>3. CASE argv # << >> /\ pc' = "returned"
  <2>1. fault = "none"
    BY <1>1, <1>3 DEF IInv, PlaceInv
  <2>2. queue = << >>
    BY <1>1, <2>1 DEF IInv, WorkerInv, FlushReturns
  <2>3. ~ \E k \in 1 .. Len(queue) : queue[k].owner = Prints(parse)
    BY <2>2
  <2>4. Told
    BY <1>1, <1>3, <2>3 DEF ToldInv
  <2>5. Told'
    BY <1>1, <2>4 DEF Told
  <2>6. QED
    BY <1>2, <2>5 DEF ToldInv
<1>4. CASE ~ (argv # << >> /\ pc' = "returned")
  BY <1>1, <1>2, <1>4 DEF ToldInv
<1>5. QED
  BY <1>3, <1>4

LEMMA NextTells ==
  ASSUME QueueSize >= 3
  PROVE  IInv /\ ParseInv /\ ToldInv /\ [Next]_vars => ToldInv'
<1> SUFFICES ASSUME IInv, ParseInv, ToldInv, [Next]_vars PROVE ToldInv'
  OBVIOUS
<1>1. CASE Register
  <2>1. pc' \in {"preinit", "options"}
    BY <1>1 DEF Register
  <2>2. QED
    BY <2>1 DEF ToldInv
<1>2. CASE SetupOptions
  <2>1. UNCHANGED argv /\ pc' = IF argv = << >> THEN "returned" ELSE "parse"
    BY <1>2 DEF SetupOptions
  <2>2. QED
    BY <2>1 DEF ToldInv
<1>3. CASE ParseArgument \/ ParseEnds
  BY <1>3, BecomesTells DEF ParseArgument, ParseEnds
<1>4. CASE ChooseBuildType \/ FinishProgress
  <2>1. UNCHANGED parse /\ pc \in {"build_type", "progress"}
    BY <1>4 DEF ChooseBuildType, FinishProgress
  <2>2. Prints(parse) = "copy"
    BY <2>1, SuccessIsQuiet DEF ParseInv, Compiles
  <2>3. Prints(parse)' = "copy"
    BY <2>1, <2>2
  <2>4. QED
    BY <2>3 DEF ToldInv, Told
<1>5. CASE UpdateProgress
  <2>1. pc' = "flush" /\ then' = "progress"
    BY <1>5 DEF UpdateProgress, LogRefAndFlush
  <2>2. QED
    BY <2>1 DEF ToldInv
<1>6. CASE Return \/ Exit \/ StopAndExit
  <2>1. pc' \in {"exiting", "exited"}
    BY <1>6 DEF Return, Exit, StopAndExit
  <2>2. QED
    BY <2>1 DEF ToldInv
<1>7. CASE ReportFault
  <2>1. pc' = "flush" /\ then' = "stop"
    BY <1>7 DEF ReportFault, LogRefAndFlush
  <2>2. QED
    BY <2>1 DEF ToldInv
<1>8. CASE FlushEnds
  BY <1>8, FlushTells
<1>9. CASE WorkerPrints
  BY <1>9, WorkerTells
<1>10. ASSUME NEW kind \in FaultKinds, NEW stack \in Stacks, Fault(kind, stack)
       PROVE  ToldInv'
  <2>1. pc' \in {"report", "killed"}
    BY <1>10 DEF Fault
  <2>2. QED
    BY <2>1 DEF ToldInv
<1>11. CASE UNCHANGED vars
  <2>1. UNCHANGED <<argv, pc, then, parse, queue, printed>>
    BY <1>11 DEF vars, main, logger
  <2>2. QED
    BY <2>1 DEF ToldInv, Told
<1>12. CASE WarnOfValue
  <2>1. pc' = "flush" /\ then' = "parse"
    BY <1>12 DEF WarnOfValue, LogRefAndFlush
  <2>2. QED
    BY <2>1 DEF ToldInv
<1>13. QED
  BY <1>1, <1>2, <1>3, <1>4, <1>5, <1>6, <1>7, <1>8, <1>9, <1>10, <1>11, <1>12
     DEF Next, MainThread, Ended

\* Whatever the program and its command line, parse() returns what the command
\* line deserves, the user has been told of it when handle_arguments() returns,
\* who follows the help is understood, and nothing is compiled after an error, if
\* the queue of the logger has room for three messages.
THEOREM ResultCorrect == ASSUME QueueSize >= 3 PROVE Spec => []ResultAgrees
<1>1. Init => IInv /\ LineInv /\ ParseInv /\ ToldInv
  BY InitHolds, LineStarts, ParseStarts, ToldStarts
<1>2. IInv /\ LineInv /\ ParseInv /\ ToldInv /\ [Next]_vars =>
        IInv' /\ LineInv' /\ ParseInv' /\ ToldInv'
  BY NextHolds, NextParses, NextTells
<1>3. LineInv /\ ParseInv /\ ToldInv => ResultAgrees
  <2> SUFFICES ASSUME LineInv, ParseInv, ToldInv PROVE ResultAgrees
    OBVIOUS
  <2>1. parse.result # "none" =>
          parse.result = IF argv = << >> THEN "invalid_format" ELSE ShouldReturn(parser, args)
    <3>1. argv # << >> /\ parse.result # "none" => parse.result = ShouldReturn(parser, args)
      BY DEF ParseInv, Agrees
    <3>2. argv = << >> /\ parse.result # "none" => parse.result = "invalid_format"
      BY DEF ParseInv
    <3>3. QED
      BY <3>1, <3>2
  <2>2. pc = "returned" /\ argv # << >> => Prints(parse) = "copy" \/ Prints(parse) \in printed
    BY DEF ToldInv, Told
  <2>3. \A arg \in HelpForms(parser) :
          Known(parser, arg) \/ IsHelpFlag(arg) \/ IsVersionFlag(arg)
    BY ParserBuilt, HelpUnderstood, Zenon DEF LineInv
  <2>4. bar.at > 0 => result = "success"
    BY DEF ParseInv
  <2>5. QED
    BY <2>1, <2>2, <2>3, <2>4, Zenon DEF ResultAgrees
<1>4. QED
  BY <1>1, <1>2, <1>3, PTL DEF Spec
=============================================================================
