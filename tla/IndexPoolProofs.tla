--------------------------- MODULE IndexPoolProofs ---------------------------
(* The refresh with its workers keeps what Reindex promises, and a document  *)
(* the next refresh would skip is current, for any files, walk, workers and  *)
(* channel capacities.                                                       *)
(*                                                                           *)
(* The argument follows one file that the walk meets once.  It has at most   *)
(* one job, and the job is in one place at a time: left in the walk, in      *)
(* pendingJobs, in the jobs channel, with a worker or in the results         *)
(* channel.  Each place says what the document, the disk and the promise of  *)
(* the refresh have to do with the job.                                      *)
EXTENDS IndexPool, FiniteSetTheorems, TLAPS

Content == Texts \cup {Nil}

Sent == [at: {"send"}, job: IndexJob, kind: {"error", "unchanged", "parsed"},
         text: Content]
WorkerState ==
    {Idle, [at |-> "gone"], [at |-> "crashed"]}
    \cup [at: {"read"}, job: IndexJob]
    \cup [at: {"parse"}, job: IndexJob, text: Texts, raced: BOOLEAN]
    \cup Sent

(* The variables of the refresh hold what their types say.                   *)
PoolTypeOK ==
    /\ disk \in [Files -> [text: Content, time: 1..MaxTime]]
    /\ docs \in [Files -> [src: Content, tree: Content \cup {Torn},
                           time: 0..MaxTime]]
    /\ open \subseteq Files /\ active \subseteq Files
    /\ phase \in {"walk", "drain", "idle"}
    /\ walk \in Seq(Files)
    /\ pending \in Seq(IndexJob) /\ jobs \in Seq(IndexJob)
    /\ fed \in BOOLEAN /\ drained \in BOOLEAN
    /\ worker \in [Workers -> WorkerState]
    /\ results \in Seq(Sent)
    /\ old = [f \in Files |-> old[f]]
    /\ may = [f \in Files |-> may[f]]

(* Which goroutines run in which phase, and how they came to stop: a worker  *)
(* leaves an empty closed channel, or has panicked.                          *)
PhaseInv ==
    /\ phase # "walk" => walk = <<>>
    /\ phase # "drain" => results = <<>> /\ WorkersDone
    /\ phase = "drain" =>
          /\ fed => pending = <<>>
          /\ (\E w \in Workers : worker[w].at = "gone") => fed /\ jobs = <<>>
          /\ drained => WorkersDone
          /\ (\E w \in Workers : worker[w].at = "crashed") =>
                \A f \in Files : Nil \in may[f]

-----------------------------------------------------------------------------
(* What concerns one file.                                                   *)
View(f) == [doc |-> docs[f], disk |-> disk[f], may |-> may[f], old |-> old[f],
            active |-> f \in active, open |-> f \in open]

(* A document at rest: a whole tree, whose time is the disk's only if its    *)
(* text is.                                                                  *)
DocOK(d, k) ==
    /\ d.tree \in Content
    /\ d.src \in {Nil, d.tree}
    /\ d.time <= k.time
    /\ d.time = k.time => d.tree = k.text /\ d.tree # Nil

Promised(v) ==
    /\ v.old \in Content
    /\ v.may \subseteq Content
    /\ Indexed(v.disk.text) \in v.may

Unseen(v) == DocOK(v.doc, v.disk) /\ v.doc.tree = v.old /\ ~v.active

(* A job is on its way: the document is out of date, and whatever is read    *)
(* from now on is promised.                                                  *)
Waiting(v, job) ==
    /\ ~v.active /\ ~v.open
    /\ v.doc.time < v.disk.time
    /\ job.time <= v.disk.time
    /\ v.disk.text \in v.may
    /\ v.disk.text = Nil => v.old \in v.may

Kept(v) == v.doc.tree = v.old /\ v.doc.src \in {Nil, v.doc.tree}

Queued(v, job) ==
    /\ Waiting(v, job) /\ Kept(v)
    /\ job.old = (v.doc.tree # Nil)
    /\ job.src = v.doc.src

Got(v, job, text) ==
    /\ Waiting(v, job)
    /\ text \in v.may \ {Nil}
    /\ job.time = v.disk.time => text = v.disk.text

Into(v, job, tree, text) ==
    IF job.old THEN v.doc.tree = tree /\ v.doc.src = text ELSE v.doc.tree = Nil

Parsing(v, x) == Got(v, x.job, x.text) /\ ~x.raced /\ Into(v, x.job, Torn, x.text)

Answered(v, x) ==
    \/ x.kind = "error" /\ Waiting(v, x.job) /\ Kept(v) /\ v.old \in v.may
    \/ x.kind = "unchanged" /\ Got(v, x.job, x.text)
       /\ v.doc.tree = x.text /\ v.doc.src = x.text
    \/ x.kind = "parsed" /\ Got(v, x.job, x.text) /\ Into(v, x.job, x.text, x.text)

(* No job is left: the file is marked active with a promised document, or    *)
(* the sweep may clear it.                                                   *)
Settled(v) ==
    IF v.active \/ v.open
    THEN /\ DocOK(v.doc, v.disk)
         /\ IF v.open THEN v.doc.tree = v.old ELSE v.doc.tree \in v.may
    ELSE Nil \in v.may

-----------------------------------------------------------------------------
(* Where a file's job is.                                                    *)
InWalk(s, f) == \E i \in DOMAIN s : s[i] = f
InJobs(s, f) == \E i \in DOMAIN s : s[i].file = f
InResults(s, f) == \E i \in DOMAIN s : s[i].job.file = f
Mine(x, f) == x.at \in {"read", "parse", "send"} /\ x.job.file = f

OnceInWalk(s, f) == \A i, j \in DOMAIN s : s[i] = f /\ s[j] = f => i = j
OnceInJobs(s, f) == \A i, j \in DOMAIN s : s[i].file = f /\ s[j].file = f => i = j
OnceInResults(s, f) ==
    \A i, j \in DOMAIN s : s[i].job.file = f /\ s[j].job.file = f => i = j

(* The line of a job.  The channels of an earlier refresh are garbage until  *)
(* they are made anew.                                                       *)
Line == [walk |-> walk, pending |-> pending,
         jobs |-> IF phase = "drain" THEN jobs ELSE <<>>,
         results |-> results, worker |-> worker]

InQueue(l, f) == InJobs(l.pending, f) \/ InJobs(l.jobs, f)
WithWorker(l, f) == \E w \in Workers : Mine(l.worker[w], f)

OneJob(l, f) ==
    /\ OnceInWalk(l.walk, f)
    /\ OnceInJobs(l.pending, f) /\ OnceInJobs(l.jobs, f)
    /\ OnceInResults(l.results, f)
    /\ \A u, w \in Workers : Mine(l.worker[u], f) /\ Mine(l.worker[w], f) => u = w
    /\ ~(InWalk(l.walk, f) /\ InQueue(l, f))
    /\ ~(InJobs(l.pending, f) /\ InJobs(l.jobs, f))
    /\ ~((InWalk(l.walk, f) \/ InQueue(l, f)) /\ InResults(l.results, f))
    /\ ~((InWalk(l.walk, f) \/ InQueue(l, f) \/ InResults(l.results, f))
         /\ WithWorker(l, f))

NoJob(l, f) ==
    /\ ~InWalk(l.walk, f) /\ ~InQueue(l, f) /\ ~InResults(l.results, f)
    /\ ~WithWorker(l, f)

WorkerSays(v, x) ==
    /\ x.at = "read"  => Queued(v, x.job)
    /\ x.at = "parse" => Parsing(v, x)
    /\ x.at = "send"  => Answered(v, x)

AllQueued(v, s, f) == \A i \in DOMAIN s : s[i].file = f => Queued(v, s[i])
AllAnswered(v, s, f) == \A i \in DOMAIN s : s[i].job.file = f => Answered(v, s[i])

Follows(l, v, f) ==
    /\ OneJob(l, f)
    /\ Promised(v)
    /\ InWalk(l.walk, f) => Unseen(v)
    /\ AllQueued(v, l.pending, f)
    /\ AllQueued(v, l.jobs, f)
    /\ \A w \in Workers : Mine(l.worker[w], f) => WorkerSays(v, l.worker[w])
    /\ AllAnswered(v, l.results, f)
    /\ NoJob(l, f) => Settled(v)

FileInv(f) ==
    IF phase = "idle" THEN DocOK(docs[f], disk[f]) ELSE Follows(Line, View(f), f)

PoolInv == PoolTypeOK /\ PhaseInv /\ \A f \in Single : FileInv(f)

-----------------------------------------------------------------------------
(* What the two ends of a channel do.                                        *)
LEMMA TailOf ==
    ASSUME NEW S, NEW s \in Seq(S), s # <<>>
    PROVE  /\ Tail(s) \in Seq(S)
           /\ Head(s) \in S /\ Head(s) = s[1] /\ 1 \in DOMAIN s
           /\ \A i \in DOMAIN Tail(s) : i + 1 \in DOMAIN s \ {1}
                                        /\ Tail(s)[i] = s[i + 1]
           /\ DOMAIN Tail(s) \subseteq Nat
  OBVIOUS

(* What appending does to a sequence.                                        *)
LEMMA AppendOf ==
    ASSUME NEW S, NEW s \in Seq(S), NEW e \in S
    PROVE  /\ Append(s, e) \in Seq(S)
           /\ DOMAIN Append(s, e) = DOMAIN s \cup {Len(s) + 1}
           /\ Len(s) + 1 \notin DOMAIN s
           /\ \A i \in DOMAIN s : Append(s, e)[i] = s[i]
           /\ Append(s, e)[Len(s) + 1] = e
  OBVIOUS

(* A file leaves the walk when its turn comes.                               *)
LEMMA WalkTail ==
    ASSUME NEW S, NEW s \in Seq(S), s # <<>>, NEW f
    PROVE  /\ InWalk(Tail(s), f) => InWalk(s, f)
           /\ OnceInWalk(s, f) => OnceInWalk(Tail(s), f)
           /\ Head(s) = f => InWalk(s, f)
           /\ OnceInWalk(s, f) /\ Head(s) = f => ~InWalk(Tail(s), f)
           /\ InWalk(s, f) /\ Head(s) # f => InWalk(Tail(s), f)
<1>1. /\ InWalk(Tail(s), f) => InWalk(s, f)
      /\ Head(s) = f => InWalk(s, f)
  BY TailOf DEF InWalk
<1>2. OnceInWalk(s, f) => OnceInWalk(Tail(s), f)
  BY TailOf DEF OnceInWalk
<1>3. OnceInWalk(s, f) /\ Head(s) = f => ~InWalk(Tail(s), f)
  BY TailOf DEF OnceInWalk, InWalk
<1>4. ASSUME InWalk(s, f), Head(s) # f PROVE InWalk(Tail(s), f)
  <2>1. PICK i \in DOMAIN s : s[i] = f
    BY <1>4 DEF InWalk
  <2>2. i \in Nat /\ i > 1 /\ i <= Len(s)
    BY <1>4, <2>1
  <2>3. i - 1 \in DOMAIN Tail(s) /\ Tail(s)[i - 1] = s[i]
    BY <2>2
  <2>. QED
    BY <2>1, <2>3 DEF InWalk
<1>. QED
  BY <1>1, <1>2, <1>3, <1>4

(* The same of a queue of jobs.                                              *)
LEMMA JobsTail ==
    ASSUME NEW s \in Seq(IndexJob), s # <<>>, NEW f
    PROVE  /\ InJobs(Tail(s), f) => InJobs(s, f)
           /\ OnceInJobs(s, f) => OnceInJobs(Tail(s), f)
           /\ Head(s).file = f => InJobs(s, f)
           /\ OnceInJobs(s, f) /\ Head(s).file = f => ~InJobs(Tail(s), f)
           /\ InJobs(s, f) /\ Head(s).file # f => InJobs(Tail(s), f)
<1>1. /\ InJobs(Tail(s), f) => InJobs(s, f)
      /\ Head(s).file = f => InJobs(s, f)
  BY TailOf DEF InJobs
<1>2. OnceInJobs(s, f) => OnceInJobs(Tail(s), f)
  BY TailOf DEF OnceInJobs
<1>3. OnceInJobs(s, f) /\ Head(s).file = f => ~InJobs(Tail(s), f)
  BY TailOf DEF OnceInJobs, InJobs
<1>4. ASSUME InJobs(s, f), Head(s).file # f PROVE InJobs(Tail(s), f)
  <2>1. PICK i \in DOMAIN s : s[i].file = f
    BY <1>4 DEF InJobs
  <2>2. i \in Nat /\ i > 1 /\ i <= Len(s)
    BY <1>4, <2>1
  <2>3. i - 1 \in DOMAIN Tail(s) /\ Tail(s)[i - 1] = s[i]
    BY <2>2
  <2>. QED
    BY <2>1, <2>3 DEF InJobs
<1>. QED
  BY <1>1, <1>2, <1>3, <1>4

(* A job sent is in the queue, once if it was not there.                     *)
LEMMA JobsAppend ==
    ASSUME NEW s \in Seq(IndexJob), NEW e \in IndexJob, NEW f
    PROVE  /\ InJobs(Append(s, e), f) <=> InJobs(s, f) \/ e.file = f
           /\ OnceInJobs(s, f) /\ ~(e.file = f /\ InJobs(s, f)) =>
                 OnceInJobs(Append(s, e), f)
  BY AppendOf DEF InJobs, OnceInJobs

(* And of the results.                                                       *)
LEMMA ResultsTail ==
    ASSUME NEW s \in Seq(Sent), s # <<>>, NEW f
    PROVE  /\ InResults(Tail(s), f) => InResults(s, f)
           /\ OnceInResults(s, f) => OnceInResults(Tail(s), f)
           /\ Head(s).job.file = f => InResults(s, f)
           /\ OnceInResults(s, f) /\ Head(s).job.file = f => ~InResults(Tail(s), f)
           /\ InResults(s, f) /\ Head(s).job.file # f => InResults(Tail(s), f)
<1>1. /\ InResults(Tail(s), f) => InResults(s, f)
      /\ Head(s).job.file = f => InResults(s, f)
  BY TailOf DEF InResults
<1>2. OnceInResults(s, f) => OnceInResults(Tail(s), f)
  BY TailOf DEF OnceInResults
<1>3. OnceInResults(s, f) /\ Head(s).job.file = f => ~InResults(Tail(s), f)
  BY TailOf DEF OnceInResults, InResults
<1>4. ASSUME InResults(s, f), Head(s).job.file # f PROVE InResults(Tail(s), f)
  <2>1. PICK i \in DOMAIN s : s[i].job.file = f
    BY <1>4 DEF InResults
  <2>2. i \in Nat /\ i > 1 /\ i <= Len(s)
    BY <1>4, <2>1
  <2>3. i - 1 \in DOMAIN Tail(s) /\ Tail(s)[i - 1] = s[i]
    BY <2>2
  <2>. QED
    BY <2>1, <2>3 DEF InResults
<1>. QED
  BY <1>1, <1>2, <1>3, <1>4

(* And a result sent is among the results.                                   *)
LEMMA ResultsAppend ==
    ASSUME NEW s \in Seq(Sent), NEW e \in Sent, NEW f
    PROVE  /\ InResults(Append(s, e), f) <=> InResults(s, f) \/ e.job.file = f
           /\ OnceInResults(s, f) /\ ~(e.job.file = f /\ InResults(s, f)) =>
                 OnceInResults(Append(s, e), f)
  BY AppendOf DEF InResults, OnceInResults

(* What a worker holds at each of its steps.                                 *)
LEMMA StateAt ==
    ASSUME NEW x \in WorkerState
    PROVE  /\ x.at = "read" => x \in [at: {"read"}, job: IndexJob]
           /\ x.at = "parse" => x \in [at: {"parse"}, job: IndexJob, text: Texts,
                                      raced: BOOLEAN]
           /\ x.at = "send" => x \in Sent
           /\ x.at \in {"read", "parse", "send", "idle", "gone", "crashed"}
  BY DEF WorkerState, Sent, Idle

-----------------------------------------------------------------------------
(* Every variable keeps its type.                                            *)
LEMMA TypesInit == PoolInit => PoolTypeOK
<1>. SUFFICES ASSUME PoolInit PROVE PoolTypeOK
  OBVIOUS
<1>1. docs \in [Files -> [src: Content, tree: Content \cup {Torn}, time: 0..MaxTime]]
  BY PoolConstantsOK DEF PoolInit, NoDoc, Content
<1>2. disk \in [Files -> [text: Content, time: 1..MaxTime]]
  BY PoolConstantsOK DEF PoolInit, Content
<1>3. worker \in [Workers -> WorkerState]
  BY DEF PoolInit, WorkerState
<1>. QED
  BY <1>1, <1>2, <1>3 DEF PoolInit, PoolTypeOK, Unset

(* The main goroutine.                                                       *)
LEMMA TypesMain == PoolTypeOK /\ Main => PoolTypeOK'
<1>. SUFFICES ASSUME PoolTypeOK, Main PROVE PoolTypeOK'
  OBVIOUS
<1>1. CASE StartRefresh
  BY <1>1, PoolConstantsOK DEF StartRefresh, PoolTypeOK, Trees
<1>2. CASE indexWorkspace
  <2>1. PICK f : f = Head(walk)
    OBVIOUS
  <2>2. f \in Files /\ walk' \in Seq(Files)
    BY <1>2, <2>1, TailOf DEF indexWorkspace, PoolTypeOK
  <2>3. may' = [g \in Files |-> may'[g]]
    BY <1>2 DEF indexWorkspace, PoolTypeOK, Written
  <2>4. ASSUME NEW time \in 0..MaxTime, Queue(f, time)
        PROVE  pending' \in Seq(IndexJob) /\ active' \subseteq Files
    <3>1. [file |-> f, time |-> time, old |-> HasDoc(docs[f]), src |-> docs[f].src]
             \in IndexJob
      BY <2>2 DEF PoolTypeOK, IndexJob, HasDoc, Content
    <3>. QED
      BY <2>4, <3>1, AppendOf DEF Queue, PoolTypeOK
  <2>5. pending' \in Seq(IndexJob) /\ active' \subseteq Files
    <3>1. 0 \in 0..MaxTime /\ disk[f].time \in 0..MaxTime
      BY <2>2, PoolConstantsOK DEF PoolTypeOK
    <3>. QED
      BY <1>2, <2>1, <2>2, <2>4, <3>1 DEF indexWorkspace, Skip, MarkActive, PoolTypeOK
  <2>. QED
    BY <1>2, <2>2, <2>3, <2>5 DEF indexWorkspace, PoolTypeOK
<1>3. CASE StartWorkers
  <2>1. <<>> \in Seq(IndexJob) /\ <<>> \in Seq(Sent)
    OBVIOUS
  <2>2. worker' \in [Workers -> WorkerState]
    BY <1>3 DEF StartWorkers, WorkerState
  <2>. QED
    BY <1>3, <2>1, <2>2 DEF StartWorkers, PoolTypeOK, history
<1>4. CASE Result
  <2>1. PICK res : res = Head(results)
    OBVIOUS
  <2>2. PICK f : f = res.job.file
    OBVIOUS
  <2>3. results' \in Seq(Sent) /\ res \in Sent /\ f \in Files
    <3>1. results \in Seq(Sent) /\ results # <<>> /\ results' = Tail(results)
      BY <1>4 DEF Result, PoolTypeOK
    <3>2. results' \in Seq(Sent) /\ res \in Sent
      BY <2>1, <3>1, TailOf
    <3>. QED
      BY <2>2, <3>2 DEF Sent, IndexJob
  <2>4. /\ active' = active \cup {f}
        /\ docs' = [docs EXCEPT ![f] = applyResult(docs[f], res)]
    BY <1>4, <2>1, <2>2 DEF Result
  <2>5. ASSUME NEW d \in [src: Content, tree: Content \cup {Torn}, time: 0..MaxTime]
        PROVE  Stamp(d, res.job)
                  \in [src: Content, tree: Content \cup {Torn}, time: 0..MaxTime]
    BY <2>3, <2>5 DEF Stamp, Sent, IndexJob
  <2>6. [src |-> res.text, tree |-> res.text, time |-> 0]
           \in [src: Content, tree: Content \cup {Torn}, time: 0..MaxTime]
    BY <2>3, PoolConstantsOK DEF Sent
  <2>7. docs[f] \in [src: Content, tree: Content \cup {Torn}, time: 0..MaxTime]
    BY <2>3 DEF PoolTypeOK
  <2>8. applyResult(docs[f], res)
           \in [src: Content, tree: Content \cup {Torn}, time: 0..MaxTime]
    <3>1. res.kind \in {"error", "unchanged", "parsed"}
      BY <2>3 DEF Sent
    <3>. QED
      BY <2>5, <2>6, <2>7, <3>1 DEF applyResult
  <2>9. docs' \in [Files -> [src: Content, tree: Content \cup {Torn}, time: 0..MaxTime]]
    BY <2>4, <2>8 DEF PoolTypeOK
  <2>. QED
    BY <1>4, <2>3, <2>4, <2>9 DEF Result, PoolTypeOK, history
<1>5. CASE Sweep
  <2>1. docs' \in [Files -> [src: Content, tree: Content \cup {Torn}, time: 0..MaxTime]]
    BY <1>5, PoolConstantsOK DEF Sweep, Swept, NoDoc, PoolTypeOK, Content
  <2>. QED
    BY <1>5, <2>1 DEF Sweep, PoolTypeOK, channels, Unset
<1>. QED
  BY <1>1, <1>2, <1>3, <1>4, <1>5 DEF Main

(* The workers.                                                              *)
LEMMA TypesWork ==
    ASSUME PoolTypeOK, NEW w \in Workers, Work(w) \/ Panic(w)
    PROVE  PoolTypeOK'
<1>. DEFINE Docs == [src: Content, tree: Content \cup {Torn}, time: 0..MaxTime]
<1>0. worker[w] \in WorkerState
  BY DEF PoolTypeOK
<1>1. CASE Take(w)
  <2>1. jobs' \in Seq(IndexJob)
    <3>1. jobs \in Seq(IndexJob) /\ (jobs' = jobs \/ (jobs # <<>> /\ jobs' = Tail(jobs)))
      BY <1>1 DEF Take, PoolTypeOK
    <3>. QED
      BY <3>1, TailOf
  <2>2. worker' \in [Workers -> WorkerState]
    <3>1. jobs # <<>> => Head(jobs) \in IndexJob
      BY TailOf DEF PoolTypeOK
    <3>2. \A job \in IndexJob : [at |-> "read", job |-> job] \in WorkerState
      BY DEF WorkerState
    <3>3. [at |-> "gone"] \in WorkerState
      BY DEF WorkerState
    <3>4. PICK x \in WorkerState : worker' = [worker EXCEPT ![w] = x]
      BY <1>1, <3>1, <3>2, <3>3 DEF Take
    <3>. QED
      BY <3>4 DEF PoolTypeOK
  <2>. QED
    BY <1>1, <2>1, <2>2 DEF Take, PoolTypeOK, history
<1>2. CASE Read(w)
  <2>1. PICK job : job = worker[w].job
    OBVIOUS
  <2>2. PICK f : f = job.file
    OBVIOUS
  <2>3. PICK next : next = ReadOutcome(job, disk[f].text)
    OBVIOUS
  <2>4. job \in IndexJob /\ f \in Files
    <3>1. worker[w] \in [at: {"read"}, job: IndexJob]
      BY <1>0, <1>2, StateAt DEF Read
    <3>. QED
      BY <2>1, <2>2, <3>1 DEF IndexJob
  <2>5. disk[f].text \in Content
    BY <2>4 DEF PoolTypeOK
  <2>6. next \in WorkerState
    BY <2>3, <2>4, <2>5, PoolConstantsOK
       DEF ReadOutcome, Sending, WorkerState, Sent, Content
  <2>7. next.at = "parse" => [next EXCEPT !.raced = TRUE] \in WorkerState
    BY <2>6 DEF WorkerState, Sent, Idle
  <2>8. ASSUME NEW v \in Workers, NEW g, ParsesInto(v, g)
        PROVE  [worker[v] EXCEPT !.raced = TRUE] \in WorkerState
    <3>1. worker[v] \in WorkerState /\ worker[v].at = "parse"
      BY <2>8 DEF ParsesInto, PoolTypeOK
    <3>2. worker[v] \in [at: {"parse"}, job: IndexJob, text: Texts, raced: BOOLEAN]
      BY <3>1 DEF WorkerState, Sent, Idle
    <3>. QED
      BY <3>2 DEF WorkerState
  <2>9. worker' \in [Workers -> WorkerState]
    <3>1. PICK rivals : /\ rivals \subseteq Workers \ {w}
                        /\ rivals # {} => next.at = "parse"
                        /\ \A v \in rivals : ParsesInto(v, f)
                        /\ worker' = [v \in Workers |->
                             CASE v = w -> IF rivals # {}
                                           THEN [next EXCEPT !.raced = TRUE]
                                           ELSE next
                               [] v \in rivals -> [worker[v] EXCEPT !.raced = TRUE]
                               [] OTHER -> worker[v]]
      BY <1>2, <2>1, <2>2, <2>3 DEF Read
    <3>2. \A v \in Workers : worker'[v] \in WorkerState
      BY <2>6, <2>7, <2>8, <3>1 DEF PoolTypeOK
    <3>. QED
      BY <3>1, <3>2
  <2>10. docs' \in [Files -> Docs]
    <3>1. \/ docs' = docs
          \/ docs' = [docs EXCEPT ![f].src = disk[f].text, ![f].tree = Torn]
      BY <1>2, <2>1, <2>2, <2>3 DEF Read
    <3>2. docs[f] \in Docs /\ docs \in [Files -> Docs]
      BY <2>4 DEF PoolTypeOK
    <3>3. PICK e : e = [docs EXCEPT ![f].src = disk[f].text]
      OBVIOUS
    <3>4. e \in [Files -> Docs] /\ e[f] \in Docs
      BY <2>4, <2>5, <3>2, <3>3
    <3>5. [e EXCEPT ![f].tree = Torn] \in [Files -> Docs]
      BY <2>4, <3>4
    <3>. QED
      BY <3>1, <3>2, <3>3, <3>5
  <2>. QED
    BY <1>2, <2>9, <2>10 DEF Read, PoolTypeOK, channels, history
<1>3. CASE Parse(w)
  <2>1. PICK x : x = worker[w]
    OBVIOUS
  <2>2. x \in [at: {"parse"}, job: IndexJob, text: Texts, raced: BOOLEAN]
    BY <1>0, <1>3, <2>1, StateAt DEF Parse
  <2>3. Sending(x.job, "parsed", x.text) \in WorkerState
    BY <2>2 DEF Sending, WorkerState, Sent, Content
  <2>4. worker' \in [Workers -> WorkerState]
    BY <1>3, <2>1, <2>3 DEF Parse, PoolTypeOK
  <2>5. docs' \in [Files -> Docs]
    <3>1. PICK tree \in Texts \cup {Torn} :
             docs' = docs \/ docs' = [docs EXCEPT ![x.job.file].tree = tree]
      BY <1>3, <2>1, <2>2 DEF Parse
    <3>2. x.job.file \in Files
      BY <2>2 DEF IndexJob
    <3>3. docs[x.job.file] \in Docs /\ docs \in [Files -> Docs]
      BY <3>2 DEF PoolTypeOK
    <3>4. [docs[x.job.file] EXCEPT !.tree = tree] \in Docs
      BY <3>3 DEF Content
    <3>5. [docs EXCEPT ![x.job.file].tree = tree]
             = [docs EXCEPT ![x.job.file] = [docs[x.job.file] EXCEPT !.tree = tree]]
      BY <3>2, <3>3
    <3>. QED
      BY <3>1, <3>2, <3>3, <3>4, <3>5
  <2>. QED
    BY <1>3, <2>4, <2>5 DEF Parse, PoolTypeOK, channels, history
<1>4. CASE Send(w)
  <2>1. worker[w] \in Sent
    BY <1>0, <1>4, StateAt DEF Send
  <2>2. results' \in Seq(Sent)
    BY <1>4, <2>1, AppendOf DEF Send, PoolTypeOK
  <2>3. worker' \in [Workers -> WorkerState]
    BY <1>4 DEF Send, PoolTypeOK, WorkerState
  <2>. QED
    BY <1>4, <2>2, <2>3 DEF Send, PoolTypeOK, history
<1>5. CASE Panic(w)
  <2>1. worker' \in [Workers -> WorkerState]
    BY <1>5 DEF Panic, PoolTypeOK, WorkerState
  <2>. QED
    BY <1>5, <2>1 DEF Panic, PoolTypeOK, channels
<1>. QED
  BY <1>1, <1>2, <1>3, <1>4, <1>5 DEF Work

(* The feeder, the editor and other programs.                                *)
LEMMA TypesOther ==
    ASSUME PoolTypeOK,
           \/ Feed \/ CloseResults
           \/ \E f \in Files : OpenFile(f) \/ CloseFile(f)
           \/ \E f \in Files, text \in Texts \cup {Nil} : WriteFile(f, text)
    PROVE  PoolTypeOK'
<1>1. CASE Feed
  <2>1. pending # <<>> => /\ Tail(pending) \in Seq(IndexJob)
                          /\ Head(pending) \in IndexJob
    BY TailOf DEF PoolTypeOK
  <2>2. \A e \in IndexJob : Append(jobs, e) \in Seq(IndexJob)
    BY AppendOf DEF PoolTypeOK
  <2>3. pending' \in Seq(IndexJob) /\ jobs' \in Seq(IndexJob) /\ fed' \in BOOLEAN
    BY <1>1, <2>1, <2>2 DEF Feed, PoolTypeOK
  <2>. QED
    BY <1>1, <2>3 DEF Feed, PoolTypeOK, history
<1>2. CASE CloseResults
  BY <1>2 DEF CloseResults, PoolTypeOK, history
<1>3. ASSUME NEW f \in Files, OpenFile(f) PROVE PoolTypeOK'
  BY <1>3 DEF OpenFile, PoolTypeOK, channels, history
<1>4. ASSUME NEW f \in Files, CloseFile(f) PROVE PoolTypeOK'
  <2>1. docs' \in [Files -> [src: Content, tree: Content \cup {Torn}, time: 0..MaxTime]]
    BY <1>4 DEF CloseFile, PoolTypeOK, Content
  <2>. QED
    BY <1>4, <2>1 DEF CloseFile, PoolTypeOK, channels, history
<1>5. ASSUME NEW f \in Files, NEW text \in Content, WriteFile(f, text)
      PROVE  PoolTypeOK'
  <2>1. disk' \in [Files -> [text: Content, time: 1..MaxTime]]
    <3>1. disk \in [Files -> [text: Content, time: 1..MaxTime]] /\ MaxTime \in Nat
      BY PoolConstantsOK DEF PoolTypeOK
    <3>2. disk[f].time \in 1..MaxTime /\ disk[f].time < MaxTime
      BY <1>5, <3>1 DEF WriteFile
    <3>3. disk[f].time + 1 \in 1..MaxTime
      BY <3>1, <3>2
    <3>. QED
      BY <1>5, <3>1, <3>3 DEF WriteFile
  <2>2. may' = [g \in Files |-> may'[g]]
    BY <1>5 DEF WriteFile, Written, PoolTypeOK
  <2>. QED
    BY <1>5, <2>1, <2>2 DEF WriteFile, PoolTypeOK, channels
<1>. QED
  BY <1>1, <1>2, <1>3, <1>4, <1>5 DEF Content

(* Every step keeps the types.                                               *)
LEMMA TypesStep == PoolTypeOK /\ [PoolNext]_vars => PoolTypeOK'
<1>1. PoolTypeOK /\ UNCHANGED vars => PoolTypeOK'
  BY DEF vars, PoolTypeOK
<1>. QED
  BY <1>1, TypesMain, TypesWork, TypesOther DEF PoolNext

-----------------------------------------------------------------------------
(* A worker that reads, parses, sends or panics does so in the drain phase,  *)
(* and no other worker moves.                                                *)
LEMMA OneWorkerMoves ==
    ASSUME PoolTypeOK, PhaseInv, NEW w \in Workers, Work(w) \/ Panic(w)
    PROVE  /\ phase = "drain"
           /\ \A v \in Workers \ {w} : worker'[v].at = worker[v].at
           /\ ~Stopped(w)
           /\ worker'[w].at = "gone" => fed /\ jobs = <<>> /\ UNCHANGED <<fed, jobs>>
           /\ worker'[w].at = "crashed" => may' = [f \in Files |-> may[f] \cup {Nil}]
           /\ phase' = phase /\ UNCHANGED <<walk, pending, fed, drained>>
           /\ jobs' = jobs \/ jobs # <<>>
           /\ may' = may \/ may' = [f \in Files |-> may[f] \cup {Nil}]
<1>0. /\ phase # "drain" => Stopped(w)
      /\ worker \in [Workers -> WorkerState]
  BY DEF PhaseInv, WorkersDone, PoolTypeOK
<1>1. CASE Take(w)
  BY <1>0, <1>1 DEF Take, Stopped, history
<1>2. CASE Read(w)
  <2>1. worker[w].at = "read" /\ UNCHANGED <<phase, walk, pending, fed, drained, jobs, may>>
    BY <1>2 DEF Read, channels, history
  <2>2. PICK next, rivals :
           /\ next = ReadOutcome(worker[w].job, disk[worker[w].job.file].text)
           /\ rivals \subseteq Workers \ {w}
           /\ rivals # {} => next.at = "parse"
           /\ worker' = [v \in Workers |->
                 CASE v = w -> IF rivals # {} THEN [next EXCEPT !.raced = TRUE]
                               ELSE next
                   [] v \in rivals -> [worker[v] EXCEPT !.raced = TRUE]
                   [] OTHER -> worker[v]]
    BY <1>2 DEF Read
  <2>3. next.at \in {"send", "parse"}
        /\ (next.at = "parse" => [next EXCEPT !.raced = TRUE].at = "parse")
    BY <2>2 DEF ReadOutcome, Sending
  <2>4. \A v \in Workers : [worker[v] EXCEPT !.raced = TRUE].at = worker[v].at
    <3>1. \A x \in WorkerState : [x EXCEPT !.raced = TRUE].at = x.at
      BY DEF WorkerState, Sent, Idle
    <3>. QED
      BY <1>0, <3>1
  <2>5. worker'[w].at \in {"send", "parse"}
    BY <2>2, <2>3
  <2>6. \A v \in Workers \ {w} : worker'[v].at = worker[v].at
    BY <2>2, <2>4
  <2>. QED
    BY <1>0, <2>1, <2>5, <2>6 DEF Stopped
<1>3. CASE Parse(w)
  BY <1>0, <1>3 DEF Parse, Stopped, Sending, channels, history
<1>4. CASE Send(w)
  BY <1>0, <1>4 DEF Send, Stopped, Idle, history
<1>5. CASE Panic(w)
  BY <1>0, <1>5 DEF Panic, Stopped, channels
<1>. QED
  BY <1>1, <1>2, <1>3, <1>4, <1>5 DEF Work

(* Goroutines start and stop in the phases they belong to.                   *)
LEMMA PhaseStep == PoolTypeOK /\ PhaseInv /\ [PoolNext]_vars => PhaseInv'
<1>. SUFFICES ASSUME PoolTypeOK, PhaseInv, [PoolNext]_vars PROVE PhaseInv'
  OBVIOUS
<1>1. ASSUME NEW w \in Workers, Work(w) \/ Panic(w) PROVE PhaseInv'
  <2>1. /\ phase = "drain"
        /\ \A v \in Workers \ {w} : worker'[v].at = worker[v].at
        /\ ~Stopped(w)
        /\ worker'[w].at = "gone" => fed /\ jobs = <<>> /\ UNCHANGED <<fed, jobs>>
        /\ worker'[w].at = "crashed" => may' = [f \in Files |-> may[f] \cup {Nil}]
        /\ phase' = phase /\ UNCHANGED <<walk, pending, fed, drained>>
        /\ jobs' = jobs \/ jobs # <<>>
        /\ may' = may \/ may' = [f \in Files |-> may[f] \cup {Nil}]
    BY <1>1, OneWorkerMoves
  <2>2. ~drained
    BY <2>1 DEF PhaseInv, WorkersDone
  <2>3. (\E v \in Workers : worker'[v].at = "gone") => fed' /\ jobs' = <<>>
    BY <2>1 DEF PhaseInv
  <2>4. (\E v \in Workers : worker'[v].at = "crashed") =>
            \A f \in Files : Nil \in may'[f]
    BY <2>1 DEF PhaseInv
  <2>. QED
    BY <2>1, <2>2, <2>3, <2>4 DEF PhaseInv
<1>2. CASE StartRefresh
  BY <1>2 DEF StartRefresh, PhaseInv, WorkersDone, Stopped
<1>3. CASE indexWorkspace
  BY <1>3 DEF indexWorkspace, PhaseInv, WorkersDone, Stopped
<1>4. CASE StartWorkers
  BY <1>4 DEF StartWorkers, PhaseInv, Idle
<1>5. CASE Result
  BY <1>5 DEF Result, PhaseInv, WorkersDone, Stopped, history
<1>6. CASE Sweep
  BY <1>6 DEF Sweep, PhaseInv, WorkersDone, Stopped, channels
<1>7. CASE Feed
  BY <1>7 DEF Feed, PhaseInv, WorkersDone, Stopped, history
<1>8. CASE CloseResults
  BY <1>8 DEF CloseResults, PhaseInv, WorkersDone, Stopped, history
<1>9. ASSUME NEW f \in Files, OpenFile(f) \/ CloseFile(f) PROVE PhaseInv'
  BY <1>9 DEF OpenFile, CloseFile, PhaseInv, WorkersDone, Stopped, channels
<1>10. ASSUME NEW f \in Files, NEW text \in Content, WriteFile(f, text)
       PROVE  PhaseInv'
  <2>1. \A g \in Files : may[g] \subseteq may'[g]
    BY <1>10 DEF WriteFile, Written, PoolTypeOK
  <2>. QED
    BY <1>10, <2>1 DEF WriteFile, PhaseInv, WorkersDone, Stopped, channels
<1>11. CASE UNCHANGED vars
  BY <1>11 DEF vars, PhaseInv, WorkersDone, Stopped
<1>. QED
  BY <1>1, <1>2, <1>3, <1>4, <1>5, <1>6, <1>7, <1>8, <1>9, <1>10, <1>11
     DEF PoolNext, Main, Content

-----------------------------------------------------------------------------
(* Time goes by for a file: its document stays, and the disk may be written  *)
(* and a worker may panic.                                                   *)
Later(v, v2) ==
    /\ v2.doc = v.doc /\ v2.old = v.old
    /\ v2.active = v.active /\ v2.open = v.open
    /\ v.may \subseteq v2.may /\ v2.may \subseteq Content
    /\ v.disk.time \in Nat /\ v2.disk.time \in Nat /\ v.doc.time \in Nat
    /\ \/ v2.disk = v.disk
       \/ /\ v2.disk.time > v.disk.time
          /\ v2.disk.text \in v2.may /\ Indexed(v2.disk.text) \in v2.may
          /\ v2.disk.text = Nil => v.old \in v2.may

(* What was promised of a file stays promised later in the refresh.          *)
LEMMA LaterKeeps ==
    ASSUME NEW v, NEW v2, Later(v, v2)
    PROVE  /\ Promised(v) => Promised(v2)
           /\ Unseen(v) => Unseen(v2)
           /\ Settled(v) => Settled(v2)
           /\ \A job : job.time \in Nat /\ Queued(v, job) => Queued(v2, job)
           /\ \A x : x.job.time \in Nat /\ Parsing(v, x) => Parsing(v2, x)
           /\ \A x : x.job.time \in Nat /\ Answered(v, x) => Answered(v2, x)
<1>1. DocOK(v.doc, v.disk) => DocOK(v2.doc, v2.disk)
  BY DEF Later, DocOK
<1>2. ASSUME NEW job, job.time \in Nat, Waiting(v, job) PROVE Waiting(v2, job)
  BY <1>2 DEF Later, Waiting
<1>3. ASSUME NEW job, job.time \in Nat, NEW text, Got(v, job, text)
      PROVE  Got(v2, job, text)
  <2>1. Waiting(v2, job) /\ text \in v2.may \ {Nil}
    BY <1>2, <1>3 DEF Got, Later
  <2>2. job.time <= v.disk.time
    BY <1>3 DEF Got, Waiting
  <2>3. job.time = v2.disk.time => v2.disk = v.disk
    BY <1>3, <2>2 DEF Later
  <2>. QED
    BY <1>3, <2>1, <2>3 DEF Got
<1>4. Kept(v) => Kept(v2)
  BY DEF Later, Kept
<1>5. \A job, tree, text : Into(v, job, tree, text) => Into(v2, job, tree, text)
  BY DEF Later, Into
<1>6. Promised(v) => Promised(v2)
  BY DEF Later, Promised
<1>7. Unseen(v) => Unseen(v2)
  BY <1>1 DEF Unseen, Later
<1>8. Settled(v) => Settled(v2)
  BY <1>1 DEF Settled, Later
<1>9. \A job : job.time \in Nat /\ Queued(v, job) => Queued(v2, job)
  BY <1>2, <1>4 DEF Queued, Later
<1>10. \A x : x.job.time \in Nat /\ Parsing(v, x) => Parsing(v2, x)
  BY <1>3, <1>5 DEF Parsing
<1>11. ASSUME NEW x, x.job.time \in Nat, Answered(v, x) PROVE Answered(v2, x)
  <2>1. CASE x.kind = "error" /\ Waiting(v, x.job) /\ Kept(v) /\ v.old \in v.may
    BY <1>2, <1>4, <1>11, <2>1 DEF Answered, Later
  <2>2. CASE /\ x.kind = "unchanged" /\ Got(v, x.job, x.text)
             /\ v.doc.tree = x.text /\ v.doc.src = x.text
    BY <1>3, <1>11, <2>2 DEF Answered, Later
  <2>3. CASE /\ x.kind = "parsed" /\ Got(v, x.job, x.text)
             /\ Into(v, x.job, x.text, x.text)
    BY <1>3, <1>5, <1>11, <2>3 DEF Answered
  <2>. QED
    BY <1>11, <2>1, <2>2, <2>3 DEF Answered
<1>. QED
  BY <1>6, <1>7, <1>8, <1>9, <1>10, <1>11

-----------------------------------------------------------------------------
(* What others do to the line leaves a file's own places alone.              *)
SameWalk(s, t, f) ==
    /\ InWalk(s, f) <=> InWalk(t, f)
    /\ OnceInWalk(s, f) => OnceInWalk(t, f)

SameJobs(s, t, f) ==
    /\ InJobs(s, f) <=> InJobs(t, f)
    /\ OnceInJobs(s, f) => OnceInJobs(t, f)
    /\ \A i \in DOMAIN t : t[i].file = f => \E j \in DOMAIN s : s[j] = t[i]

SameResults(s, t, f) ==
    /\ InResults(s, f) <=> InResults(t, f)
    /\ OnceInResults(s, f) => OnceInResults(t, f)
    /\ \A i \in DOMAIN t : t[i].job.file = f => \E j \in DOMAIN s : s[j] = t[i]

SameWorkers(x, y, f) ==
    \A w \in Workers : /\ Mine(x[w], f) <=> Mine(y[w], f)
                       /\ Mine(x[w], f) => y[w] = x[w]

SameLine(l, m, f) ==
    /\ SameWalk(l.walk, m.walk, f)
    /\ SameJobs(l.pending, m.pending, f)
    /\ SameJobs(l.jobs, m.jobs, f)
    /\ SameResults(l.results, m.results, f)
    /\ SameWorkers(l.worker, m.worker, f)

LineType(l) ==
    /\ l.walk \in Seq(Files)
    /\ l.pending \in Seq(IndexJob) /\ l.jobs \in Seq(IndexJob)
    /\ l.results \in Seq(Sent)
    /\ l.worker \in [Workers -> WorkerState]

(* Taking another file's job, result or path from a queue, or adding one,    *)
(* is the same for this file.                                                *)
LEMMA SameQueues ==
    /\ \A s, f : SameWalk(s, s, f) /\ SameJobs(s, s, f) /\ SameResults(s, s, f)
                 /\ SameWorkers(s, s, f)
    /\ \A f : \A s \in Seq(Files) :
          s # <<>> /\ Head(s) # f => SameWalk(s, Tail(s), f)
    /\ \A f : \A s \in Seq(IndexJob) :
          s # <<>> /\ Head(s).file # f => SameJobs(s, Tail(s), f)
    /\ \A f : \A s \in Seq(IndexJob) : \A e \in IndexJob :
          e.file # f => SameJobs(s, Append(s, e), f)
    /\ \A f : \A s \in Seq(Sent) :
          s # <<>> /\ Head(s).job.file # f => SameResults(s, Tail(s), f)
    /\ \A f : \A s \in Seq(Sent) : \A e \in Sent :
          e.job.file # f => SameResults(s, Append(s, e), f)
<1>1. \A s, f : SameWalk(s, s, f) /\ SameJobs(s, s, f) /\ SameResults(s, s, f)
                /\ SameWorkers(s, s, f)
  BY DEF SameWalk, SameJobs, SameResults, SameWorkers
<1>2. ASSUME NEW f, NEW s \in Seq(Files), s # <<>>, Head(s) # f
      PROVE  SameWalk(s, Tail(s), f)
  BY <1>2, WalkTail DEF SameWalk
<1>3. ASSUME NEW f, NEW s \in Seq(IndexJob), s # <<>>, Head(s).file # f
      PROVE  SameJobs(s, Tail(s), f)
  BY <1>3, JobsTail, TailOf DEF SameJobs
<1>4. ASSUME NEW f, NEW s \in Seq(IndexJob), NEW e \in IndexJob, e.file # f
      PROVE  SameJobs(s, Append(s, e), f)
  BY <1>4, JobsAppend, AppendOf DEF SameJobs
<1>5. ASSUME NEW f, NEW s \in Seq(Sent), s # <<>>, Head(s).job.file # f
      PROVE  SameResults(s, Tail(s), f)
  BY <1>5, ResultsTail, TailOf DEF SameResults
<1>6. ASSUME NEW f, NEW s \in Seq(Sent), NEW e \in Sent, e.job.file # f
      PROVE  SameResults(s, Append(s, e), f)
  BY <1>6, ResultsAppend, AppendOf DEF SameResults
<1>. QED
  BY <1>1, <1>2, <1>3, <1>4, <1>5, <1>6

(* A step on another file's job leaves this file's invariant alone.          *)
LEMMA SameFollows ==
    ASSUME NEW l, NEW m, NEW v, NEW v2, NEW f,
           LineType(l), LineType(m),
           Follows(l, v, f), Later(v, v2), SameLine(l, m, f)
    PROVE  Follows(m, v2, f)
<1>1. OneJob(m, f)
  <2>1. InQueue(m, f) <=> InQueue(l, f)
    BY DEF SameLine, SameJobs, InQueue
  <2>2. WithWorker(m, f) <=> WithWorker(l, f)
    BY DEF SameLine, SameWorkers, WithWorker
  <2>. QED
    BY <2>1, <2>2 DEF OneJob, Follows, SameLine, SameWalk, SameJobs, SameResults,
                      SameWorkers
<1>2. NoJob(m, f) => NoJob(l, f)
  BY DEF NoJob, InQueue, WithWorker, SameLine, SameWalk, SameJobs, SameResults,
         SameWorkers
<1>3. \A job \in IndexJob : job.time \in Nat
  BY PoolConstantsOK DEF IndexJob
<1>4. AllQueued(v2, m.pending, f) /\ AllQueued(v2, m.jobs, f)
  <2>1. ASSUME NEW s \in Seq(IndexJob), NEW t \in Seq(IndexJob),
               SameJobs(s, t, f), AllQueued(v, s, f)
        PROVE  AllQueued(v2, t, f)
    <3>1. SUFFICES ASSUME NEW i \in DOMAIN t, t[i].file = f
                   PROVE  Queued(v2, t[i])
      BY DEF AllQueued
    <3>2. PICK j \in DOMAIN s : s[j] = t[i]
      BY <2>1, <3>1 DEF SameJobs
    <3>3. Queued(v, t[i]) /\ t[i] \in IndexJob
      BY <2>1, <3>1, <3>2 DEF AllQueued
    <3>. QED
      BY <1>3, <3>3, LaterKeeps
  <2>. QED
    BY <2>1 DEF Follows, SameLine, LineType
<1>5. AllAnswered(v2, m.results, f)
  <2>1. SUFFICES ASSUME NEW i \in DOMAIN m.results, m.results[i].job.file = f
                 PROVE  Answered(v2, m.results[i])
    BY DEF AllAnswered
  <2>2. PICK j \in DOMAIN l.results : l.results[j] = m.results[i]
    BY <2>1 DEF SameLine, SameResults
  <2>3. Answered(v, m.results[i])
    BY <2>1, <2>2 DEF Follows, AllAnswered
  <2>4. m.results[i].job.time \in Nat
    <3>1. m.results[i] \in Sent
      BY <2>1 DEF LineType
    <3>. QED
      BY <1>3, <3>1 DEF Sent
  <2>. QED
    BY <2>3, <2>4, LaterKeeps
<1>6. ASSUME NEW w \in Workers, Mine(m.worker[w], f)
      PROVE  WorkerSays(v2, m.worker[w])
  <2>1. PICK x \in WorkerState : x = m.worker[w]
    BY DEF LineType
  <2>2. WorkerSays(v, x) /\ x.at \in {"read", "parse", "send"}
    BY <1>6, <2>1 DEF SameLine, SameWorkers, Follows, Mine
  <2>3. x.job.time \in Nat
    BY <1>3, <2>2, StateAt DEF Sent
  <2>. QED
    BY <2>1, <2>2, <2>3, LaterKeeps DEF WorkerSays
<1>7. Promised(v2) /\ (InWalk(m.walk, f) => Unseen(v2)) /\ (NoJob(m, f) => Settled(v2))
  BY <1>2, LaterKeeps DEF Follows, SameLine, SameWalk
<1>. QED
  BY <1>1, <1>4, <1>5, <1>6, <1>7 DEF Follows

-----------------------------------------------------------------------------
(* A file's job arrives at its next place, or is done.                       *)
LEMMA SettledFollows ==
    ASSUME NEW l, NEW v, NEW f, NoJob(l, f), Promised(v), Settled(v)
    PROVE  Follows(l, v, f)
<1>1. OneJob(l, f)
  BY DEF NoJob, OneJob, InQueue, WithWorker, InWalk, InJobs, InResults,
         OnceInWalk, OnceInJobs, OnceInResults
<1>. QED
  BY <1>1 DEF Follows, NoJob, InQueue, WithWorker, InWalk, InJobs, InResults,
              AllQueued, AllAnswered

(* The invariant of a file the walk has still to meet.                       *)
LEMMA UnseenFollows ==
    ASSUME NEW l, NEW v, NEW f, Promised(v), Unseen(v),
           InWalk(l.walk, f), OnceInWalk(l.walk, f),
           ~InQueue(l, f), ~InResults(l.results, f), ~WithWorker(l, f)
    PROVE  Follows(l, v, f)
<1>1. OneJob(l, f)
  BY DEF OneJob, InQueue, WithWorker, InJobs, InResults, OnceInJobs, OnceInResults
<1>. QED
  BY <1>1 DEF Follows, NoJob, InQueue, WithWorker, InJobs, InResults,
              AllQueued, AllAnswered

(* One more job at the end of a queue of others' jobs.                       *)
LEMMA QueuedLast ==
    ASSUME NEW s \in Seq(IndexJob), NEW job \in IndexJob, NEW v,
           ~InJobs(s, job.file), Queued(v, job)
    PROVE  /\ AllQueued(v, Append(s, job), job.file)
           /\ InJobs(Append(s, job), job.file)
           /\ OnceInJobs(Append(s, job), job.file)
<1>1. AllQueued(v, Append(s, job), job.file)
  BY AppendOf DEF AllQueued, InJobs
<1>2. OnceInJobs(s, job.file)
  BY DEF OnceInJobs, InJobs
<1>. QED
  BY <1>1, <1>2, JobsAppend

(* That of a file with a job in a queue.                                     *)
LEMMA QueuedFollows ==
    ASSUME NEW l, NEW s \in Seq(IndexJob), NEW job \in IndexJob, NEW v,
           \/ l.pending = Append(s, job) /\ ~InJobs(l.jobs, job.file)
           \/ l.jobs = Append(s, job) /\ ~InJobs(l.pending, job.file),
           ~InJobs(s, job.file),
           ~InWalk(l.walk, job.file), ~InResults(l.results, job.file),
           ~WithWorker(l, job.file), Promised(v), Queued(v, job)
    PROVE  Follows(l, v, job.file)
<1>. DEFINE f == job.file
<1>1. /\ AllQueued(v, Append(s, job), f)
      /\ InJobs(Append(s, job), f)
      /\ OnceInJobs(Append(s, job), f)
  BY QueuedLast
<1>. HIDE DEF f
<1>2. \A t : ~InJobs(t, f) => AllQueued(v, t, f) /\ OnceInJobs(t, f)
  BY DEF AllQueued, OnceInJobs, InJobs
<1>3. /\ AllQueued(v, l.pending, f) /\ AllQueued(v, l.jobs, f)
      /\ OnceInJobs(l.pending, f) /\ OnceInJobs(l.jobs, f)
      /\ InQueue(l, f)
      /\ ~(InJobs(l.pending, f) /\ InJobs(l.jobs, f))
  BY <1>1, <1>2 DEF InQueue, f
<1>4. OneJob(l, f)
  BY <1>3 DEF OneJob, WithWorker, InWalk, InResults, OnceInWalk, OnceInResults, f
<1>. QED
  BY <1>3, <1>4 DEF Follows, NoJob, WithWorker, InWalk, InResults, AllAnswered, f

(* That of a file a worker holds.                                            *)
LEMMA WorkerFollows ==
    ASSUME NEW l, NEW v, NEW f, NEW w \in Workers,
           Mine(l.worker[w], f), \A u \in Workers \ {w} : ~Mine(l.worker[u], f),
           ~InWalk(l.walk, f), ~InQueue(l, f), ~InResults(l.results, f),
           Promised(v), WorkerSays(v, l.worker[w])
    PROVE  Follows(l, v, f)
<1>1. OneJob(l, f)
  BY DEF OneJob, InQueue, InJobs, InWalk, InResults, OnceInWalk, OnceInJobs,
         OnceInResults
<1>2. AllQueued(v, l.pending, f) /\ AllQueued(v, l.jobs, f)
  BY DEF InQueue, InJobs, AllQueued
<1>3. AllAnswered(v, l.results, f)
  BY DEF AllAnswered, InResults
<1>. QED
  BY <1>1, <1>2, <1>3 DEF Follows, NoJob, WithWorker

(* That of a file with a result waiting.                                     *)
LEMMA AnsweredFollows ==
    ASSUME NEW l, NEW v, NEW s \in Seq(Sent), NEW x \in Sent,
           l.results = Append(s, x), ~InResults(s, x.job.file),
           ~InWalk(l.walk, x.job.file), ~InQueue(l, x.job.file),
           ~WithWorker(l, x.job.file), Promised(v), Answered(v, x)
    PROVE  Follows(l, v, x.job.file)
<1>. DEFINE f == x.job.file
<1>1. /\ InResults(l.results, f)
      /\ OnceInResults(l.results, f)
  <2>1. OnceInResults(s, f)
    BY DEF OnceInResults, InResults
  <2>. QED
    BY <2>1, ResultsAppend
<1>2. AllAnswered(v, l.results, f)
  BY AppendOf DEF AllAnswered, InResults
<1>. HIDE DEF f
<1>3. OneJob(l, f)
  BY <1>1 DEF OneJob, InQueue, WithWorker, InJobs, InWalk, OnceInWalk, OnceInJobs, f
<1>4. AllQueued(v, l.pending, f) /\ AllQueued(v, l.jobs, f)
  BY DEF InQueue, InJobs, AllQueued, f
<1>. QED
  BY <1>1, <1>2, <1>3, <1>4 DEF Follows, NoJob, WithWorker, InWalk, f

-----------------------------------------------------------------------------
(* The steps of a refresh, seen from one file.                               *)
LEMMA LineTypes == /\ PoolTypeOK => LineType(Line)
                   /\ PoolTypeOK' => LineType(Line)'
<1>1. <<>> \in Seq(IndexJob)
  OBVIOUS
<1>2. PoolTypeOK => LineType(Line)
  BY <1>1 DEF PoolTypeOK, LineType, Line
<1>3. PoolTypeOK' => LineType(Line)'
  BY <1>1 DEF PoolTypeOK, LineType, Line
<1>. QED
  BY <1>2, <1>3

(* A step that concerns other files' jobs only.                              *)
LEMMA OthersMove ==
    ASSUME PoolTypeOK, PoolTypeOK', NEW f \in Files,
           Follows(Line, View(f), f), SameLine(Line, Line', f),
           docs'[f] = docs[f], f \in active' <=> f \in active,
           open' = open, old' = old, disk' = disk,
           may'[f] \in {may[f], may[f] \cup {Nil}}
    PROVE  Follows(Line', View(f)', f)
<1>1. PICK l : l = Line
  OBVIOUS
<1>2. PICK m : m = Line'
  OBVIOUS
<1>3. PICK v : v = View(f)
  OBVIOUS
<1>4. PICK v2 : v2 = View(f)'
  OBVIOUS
<1>5. LineType(l) /\ LineType(m)
  BY <1>1, <1>2, LineTypes DEF LineType
<1>6. v.may \subseteq Content
  BY <1>3 DEF Follows, Promised
<1>7. /\ v2 = [v EXCEPT !.may = may'[f]]
      /\ v.may = may[f] /\ v.disk = disk[f] /\ v.doc = docs[f]
      /\ v2.may = may'[f] /\ v2.disk = disk[f] /\ v2.doc = docs[f]
      /\ v2.old = v.old /\ v2.active = v.active /\ v2.open = v.open
  BY <1>3, <1>4 DEF View
<1>8. disk[f].time \in Nat /\ docs[f].time \in Nat
  BY DEF PoolTypeOK
<1>9. Later(v, v2)
  BY <1>6, <1>7, <1>8 DEF Later, Content
<1>10. Follows(m, v2, f)
  BY <1>1, <1>2, <1>3, <1>5, <1>9, SameFollows
<1>. QED
  BY <1>2, <1>4, <1>10

(* The walk meets a file once: that is what Single says.                     *)
LEMMA WalkMeets == \A f \in Single : InWalk(Walk, f) /\ OnceInWalk(Walk, f)
<1>. SUFFICES ASSUME NEW f \in Single PROVE InWalk(Walk, f) /\ OnceInWalk(Walk, f)
  OBVIOUS
<1>. DEFINE S == {i \in DOMAIN Walk : Walk[i] = f}
<1>1. IsFiniteSet(S)
  <2>1. Walk \in Seq(Files) /\ DOMAIN Walk = 1..Len(Walk) /\ Len(Walk) \in Nat
    BY PoolConstantsOK
  <2>2. IsFiniteSet(1..Len(Walk))
    BY <2>1, FS_Interval
  <2>. QED
    BY <2>1, <2>2, FS_Subset
<1>2. Cardinality(S) = 1
  BY DEF Single
<1>3. \E i : S = {i}
  BY <1>1, <1>2, FS_Singleton
<1>. QED
  BY <1>3 DEF InWalk, OnceInWalk

(* The beginning of a refresh puts every file before the walk.               *)
LEMMA FileStart ==
    ASSUME PoolInv, StartRefresh, NEW f \in Single
    PROVE  FileInv(f)'
<1>0. f \in Files /\ PoolTypeOK /\ phase = "idle"
  BY DEF PoolInv, Single, StartRefresh
<1>1. DocOK(docs[f], disk[f])
  BY <1>0 DEF PoolInv, FileInv
<1>2. PICK m : m = Line'
  OBVIOUS
<1>3. PICK v : v = View(f)'
  OBVIOUS
<1>4. /\ m.walk = Walk /\ m.pending = <<>> /\ m.jobs = <<>> /\ m.results = <<>>
      /\ m.worker = worker
      /\ \A w \in Workers : Stopped(w)
  BY <1>0, <1>2 DEF StartRefresh, Line, PoolInv, PhaseInv, WorkersDone
<1>5. /\ v.doc = docs[f] /\ v.disk = disk[f] /\ v.old = docs[f].tree
      /\ v.may = {Indexed(disk[f].text)} /\ ~v.active
  BY <1>0, <1>3 DEF View, StartRefresh, Trees
<1>6. Promised(v) /\ Unseen(v)
  <2>1. Indexed(disk[f].text) \in Content
    BY <1>0 DEF PoolTypeOK, Indexed, Content
  <2>. QED
    BY <1>1, <1>5, <2>1 DEF Promised, Unseen, DocOK
<1>7. ~InQueue(m, f) /\ ~InResults(m.results, f) /\ ~WithWorker(m, f)
  BY <1>4 DEF InQueue, InJobs, InResults, WithWorker, Mine, Stopped
<1>8. Follows(m, v, f)
  BY <1>4, <1>6, <1>7, WalkMeets, UnseenFollows
<1>. QED
  BY <1>2, <1>3, <1>8 DEF FileInv, StartRefresh

(* The walk decides on its first file; it skips, marks or queues it.         *)
LEMMA FileWalked ==
    ASSUME PoolInv, PoolTypeOK', indexWorkspace, NEW f \in Single
    PROVE  Follows(Line', View(f)', f)
<1>0. /\ f \in Files /\ PoolTypeOK /\ phase = "walk" /\ phase' = "walk"
      /\ walk # <<>> /\ walk \in Seq(Files) /\ walk' = Tail(walk)
      /\ UNCHANGED <<disk, docs, open, worker, results, old>>
  BY DEF PoolInv, Single, indexWorkspace, PoolTypeOK
<1>1. Follows(Line, View(f), f)
  BY <1>0 DEF PoolInv, FileInv
<1>2. PICK g : g = Head(walk)
  OBVIOUS
<1>3. \/ /\ disk[g].text = Nil
         /\ \/ Skip /\ UNCHANGED may
            \/ g \notin open /\ Queue(g, 0) /\ may' = Written(g, Nil)
      \/ /\ disk[g].text # Nil
         /\ \/ g \in open /\ MarkActive(g)
            \/ g \notin open /\ disk[g].text = Huge /\ Skip
            \/ /\ g \notin open /\ disk[g].text # Huge
               /\ IF HasDoc(docs[g]) /\ docs[g].time = disk[g].time
                  THEN MarkActive(g) ELSE Queue(g, disk[g].time)
         /\ UNCHANGED may
  BY <1>2 DEF indexWorkspace
<1>4. g \in Files
  BY <1>0, <1>2, TailOf
<1>5. ASSUME NEW time \in 0..MaxTime, Queue(g, time)
      PROVE  \E job \in IndexJob :
                /\ pending' = Append(pending, job) /\ active' = active
                /\ job = [file |-> g, time |-> time, old |-> HasDoc(docs[g]),
                          src |-> docs[g].src]
  <2>1. [file |-> g, time |-> time, old |-> HasDoc(docs[g]), src |-> docs[g].src]
           \in IndexJob
    BY <1>0, <1>4 DEF PoolTypeOK, IndexJob, HasDoc, Content
  <2>. QED
    BY <1>5, <2>1 DEF Queue
<1>6. 0 \in 0..MaxTime /\ disk[g].time \in 0..MaxTime
  BY <1>0, <1>4, PoolConstantsOK DEF PoolTypeOK
<1>7. CASE f # g
  <2>1. SameWalk(walk, walk', f)
    BY <1>0, <1>2, <1>7, SameQueues
  <2>2. SameJobs(pending, pending', f) /\ (f \in active' <=> f \in active)
    <3>1. CASE Skip
      BY <3>1, SameQueues DEF Skip
    <3>2. CASE MarkActive(g)
      BY <1>7, <3>2, SameQueues DEF MarkActive
    <3>3. ASSUME NEW time \in 0..MaxTime, Queue(g, time)
          PROVE  SameJobs(pending, pending', f) /\ (f \in active' <=> f \in active)
      <4>1. PICK job \in IndexJob :
               pending' = Append(pending, job) /\ active' = active /\ job.file = g
        BY <1>5, <3>3
      <4>2. pending \in Seq(IndexJob)
        BY <1>0 DEF PoolTypeOK
      <4>. QED
        BY <1>7, <4>1, <4>2, SameQueues
    <3>. QED
      BY <1>3, <1>6, <3>1, <3>2, <3>3
  <2>3. SameLine(Line, Line', f)
    BY <1>0, <2>1, <2>2, SameQueues DEF SameLine, Line
  <2>4. may'[f] = may[f]
    BY <1>0, <1>3, <1>7 DEF Written, PoolTypeOK
  <2>. QED
    BY <1>0, <1>1, <2>2, <2>3, <2>4, OthersMove
<1>8. CASE f = g
  <2>1. PICK l : l = Line
    OBVIOUS
  <2>2. PICK m : m = Line'
    OBVIOUS
  <2>3. PICK v : v = View(f)
    OBVIOUS
  <2>4. PICK v2 : v2 = View(f)'
    OBVIOUS
  <2>5. /\ l.walk = walk /\ l.pending = pending /\ l.jobs = <<>>
        /\ l.results = results /\ l.worker = worker
        /\ m.walk = Tail(walk) /\ m.pending = pending' /\ m.jobs = <<>>
        /\ m.results = results /\ m.worker = worker
    BY <1>0, <2>1, <2>2 DEF Line
  <2>6. /\ OneJob(l, f) /\ Promised(v) /\ InWalk(walk, f)
    BY <1>0, <1>1, <1>2, <1>8, <2>1, <2>3, <2>5, WalkTail DEF Follows
  <2>7. Unseen(v)
    BY <1>1, <2>1, <2>3, <2>5, <2>6 DEF Follows
  <2>8. /\ ~InWalk(m.walk, f) /\ ~InJobs(pending, f) /\ ~InJobs(m.jobs, f)
        /\ ~InResults(m.results, f) /\ ~WithWorker(m, f)
    <3>1. OnceInWalk(walk, f)
      BY <2>5, <2>6 DEF OneJob
    <3>2. ~InWalk(m.walk, f)
      BY <1>0, <1>2, <1>8, <2>5, <3>1, WalkTail
    <3>3. ~InJobs(pending, f) /\ ~InResults(m.results, f) /\ ~WithWorker(m, f)
      BY <2>5, <2>6 DEF OneJob, InQueue, WithWorker
    <3>4. ~InJobs(m.jobs, f)
      BY <2>5 DEF InJobs
    <3>. QED
      BY <3>2, <3>3, <3>4
  <2>9. /\ v.doc = docs[f] /\ v.disk = disk[f] /\ v.old = old[f] /\ v.may = may[f]
        /\ v.active = (f \in active) /\ v.open = (f \in open)
        /\ v2.doc = docs[f] /\ v2.disk = disk[f] /\ v2.old = old[f]
        /\ v2.may = may'[f] /\ v2.active = (f \in active') /\ v2.open = (f \in open)
    BY <1>0, <2>3, <2>4 DEF View
  <2>10. /\ disk[f].time \in Nat /\ disk[f].time > 0 /\ docs[f].time \in Nat
         /\ disk[f].text \in Content
    BY <1>0 DEF PoolTypeOK
  <2>11. ASSUME pending' = pending, may' = may, Settled(v2)
         PROVE  Follows(m, v2, f)
    <3>1. NoJob(m, f)
      BY <2>5, <2>8, <2>11 DEF NoJob, InQueue
    <3>2. Promised(v2)
      BY <2>6, <2>9, <2>11 DEF Promised
    <3>. QED
      BY <2>11, <3>1, <3>2, SettledFollows
  <2>12. ASSUME NEW time \in 0..MaxTime, Queue(f, time), f \notin open,
                time <= disk[f].time,
                \/ disk[f].text = Nil /\ may' = Written(f, Nil)
                \/ /\ disk[f].text \notin {Nil, Huge} /\ may' = may
                   /\ ~(HasDoc(docs[f]) /\ docs[f].time = disk[f].time)
         PROVE  Follows(m, v2, f)
    <3>1. PICK job \in IndexJob :
             /\ pending' = Append(pending, job) /\ active' = active
             /\ job = [file |-> f, time |-> time, old |-> HasDoc(docs[f]),
                       src |-> docs[f].src]
      BY <1>5, <1>8, <2>12
    <3>2. v2.may \subseteq Content /\ v.may \subseteq v2.may
      <4>1. v.may \subseteq Content /\ v.old \in Content
        BY <2>6 DEF Promised
      <4>2. Indexed(Nil) = Nil /\ Nil \in Content
        BY PoolConstantsOK DEF Indexed, Content
      <4>3. may'[f] = may[f] \/ may'[f] = may[f] \cup {Nil} \cup {old[f]}
        BY <1>0, <2>12, <4>2 DEF Written, PoolTypeOK
      <4>4. v2.may = may'[f] /\ v.may = may[f] /\ v.old = old[f]
        BY <2>9 DEF View
      <4>. QED
        BY <4>1, <4>2, <4>3, <4>4
    <3>3. v2.disk.text \in v2.may /\ (v2.disk.text = Nil => v2.old \in v2.may)
      <4>1. CASE disk[f].text = Nil /\ may' = Written(f, Nil)
        BY <1>0, <2>9, <4>1 DEF Written, PoolTypeOK
      <4>2. CASE disk[f].text \notin {Nil, Huge} /\ may' = may
        BY <2>6, <2>9, <4>2 DEF Promised, Indexed
      <4>. QED
        BY <2>12, <4>1, <4>2
    <3>4. v2.doc.time < v2.disk.time
      BY <2>7, <2>9, <2>10, <2>12 DEF Unseen, DocOK, HasDoc
    <3>5. Promised(v2)
      BY <2>6, <2>9, <3>2 DEF Promised
    <3>6. Queued(v2, job)
      BY <2>7, <2>9, <2>12, <3>1, <3>3, <3>4
         DEF Queued, Waiting, Kept, Unseen, DocOK, HasDoc
    <3>. QED
      <4>1. pending \in Seq(IndexJob) /\ job.file = f
        BY <1>0, <3>1 DEF PoolTypeOK
      <4>2. m.pending = Append(pending, job)
        BY <2>5, <3>1
      <4>. QED
        BY <2>8, <3>5, <3>6, <4>1, <4>2, QueuedFollows
  <2>13. CASE Skip /\ may' = may /\ disk[f].text \in {Nil, Huge}
    <3>1. Nil \in v.may
      BY <2>6, <2>9, <2>13, PoolConstantsOK DEF Promised, Indexed
    <3>2. DocOK(v.doc, v.disk) /\ v.doc.tree = v.old
      BY <2>7 DEF Unseen
    <3>3. Settled(v2)
      BY <2>7, <2>9, <2>13, <3>1, <3>2 DEF Settled, Skip, Unseen
    <3>. QED
      BY <2>2, <2>4, <2>11, <2>13, <3>3 DEF Skip
  <2>14. CASE /\ MarkActive(f) /\ may' = may
              /\ \/ f \in open
                 \/ f \notin open /\ disk[f].text \notin {Nil, Huge} /\ HasDoc(docs[f])
                    /\ docs[f].time = disk[f].time
    <3>1. DocOK(v.doc, v.disk) /\ v.doc.tree = v.old
      BY <2>7 DEF Unseen
    <3>2. f \notin open => v.doc.tree \in v.may
      BY <2>6, <2>9, <2>14, <3>1 DEF DocOK, Promised, Indexed
    <3>3. Settled(v2)
      BY <2>9, <2>14, <3>1, <3>2 DEF Settled, MarkActive
    <3>. QED
      BY <2>2, <2>4, <2>11, <2>14, <3>3 DEF MarkActive
  <2>. QED
    BY <1>3, <1>6, <1>8, <2>2, <2>4, <2>10, <2>12, <2>13, <2>14, PoolConstantsOK
<1>. QED
  BY <1>7, <1>8

(* Workers start idle, over empty channels.                                  *)
LEMMA FileStarted ==
    ASSUME PoolInv, PoolTypeOK', StartWorkers, NEW f \in Single
    PROVE  Follows(Line', View(f)', f)
<1>1. f \in Files /\ PoolTypeOK /\ phase = "walk" /\ Follows(Line, View(f), f)
  BY DEF PoolInv, Single, StartWorkers, FileInv
<1>2. results = <<>> /\ \A w \in Workers : ~Mine(worker[w], f)
  BY <1>1 DEF PoolInv, PhaseInv, WorkersDone, Stopped, Mine
<1>3. /\ UNCHANGED <<disk, docs, open, active, old, may, walk, pending>>
      /\ jobs' = <<>> /\ results' = <<>> /\ phase' = "drain"
      /\ \A w \in Workers : ~Mine(worker'[w], f)
  BY DEF StartWorkers, history, Mine, Idle
<1>4. /\ Line.walk = Line'.walk /\ Line.pending = Line'.pending
      /\ Line.jobs = Line'.jobs /\ Line.results = Line'.results
      /\ Line.worker = worker /\ Line'.worker = worker'
  BY <1>1, <1>2, <1>3 DEF Line
<1>5. SameLine(Line, Line', f)
  <2>1. SameWorkers(worker, worker', f)
    BY <1>2, <1>3 DEF SameWorkers
  <2>. QED
    BY <1>4, <2>1, SameQueues DEF SameLine
<1>. QED
  BY <1>1, <1>3, <1>5, OthersMove

(* A job goes from pendingJobs to the channel.                               *)
LEMMA FileFed ==
    ASSUME PoolInv, PoolTypeOK', Feed, NEW f \in Single
    PROVE  Follows(Line', View(f)', f)
<1>1. /\ f \in Files /\ PoolTypeOK /\ phase = "drain" /\ Follows(Line, View(f), f)
      /\ pending \in Seq(IndexJob) /\ jobs \in Seq(IndexJob)
      /\ UNCHANGED <<disk, docs, open, active, phase, walk, worker, results, old, may>>
  BY DEF PoolInv, Single, Feed, FileInv, history, PoolTypeOK
<1>2. CASE UNCHANGED <<pending, jobs>>
  BY <1>1, <1>2, SameQueues, OthersMove DEF SameLine, Line
<1>3. CASE /\ pending # <<>>
           /\ jobs' = Append(jobs, Head(pending))
           /\ pending' = Tail(pending)
  <2>1. PICK job \in IndexJob : job = Head(pending)
    BY <1>1, <1>3, TailOf
  <2>2. CASE job.file # f
    <3>1. SameJobs(pending, pending', f) /\ SameJobs(jobs, jobs', f)
      BY <1>1, <1>3, <2>1, <2>2, SameQueues
    <3>2. SameLine(Line, Line', f)
      BY <1>1, <3>1, SameQueues DEF SameLine, Line
    <3>. QED
      BY <1>1, <3>2, OthersMove
  <2>3. CASE job.file = f
    <3>1. PICK l : l = Line
      OBVIOUS
    <3>2. PICK m : m = Line'
      OBVIOUS
    <3>3. PICK v : v = View(f)
      OBVIOUS
    <3>4. View(f)' = v
      BY <1>1, <3>3 DEF View
    <3>5. /\ l.walk = walk /\ l.pending = pending /\ l.jobs = jobs
          /\ l.results = results /\ l.worker = worker
          /\ m.walk = walk /\ m.pending = Tail(pending)
          /\ m.jobs = Append(jobs, job) /\ m.results = results /\ m.worker = worker
      BY <1>1, <1>3, <2>1, <3>1, <3>2 DEF Line
    <3>6. OneJob(l, f) /\ InJobs(pending, f) /\ OnceInJobs(pending, f)
      BY <1>1, <1>3, <2>1, <2>3, <3>1, <3>5, JobsTail DEF Follows, OneJob
    <3>7. ~InJobs(m.pending, f)
      BY <1>1, <1>3, <2>1, <2>3, <3>5, <3>6, JobsTail
    <3>8. /\ ~InWalk(m.walk, f) /\ ~InJobs(jobs, f)
          /\ ~InResults(m.results, f) /\ ~WithWorker(m, f)
      BY <3>5, <3>6 DEF OneJob, InQueue, WithWorker
    <3>9. Promised(v) /\ Queued(v, job)
      <4>1. Promised(v) /\ AllQueued(v, pending, f)
        BY <1>1, <3>1, <3>3, <3>5 DEF Follows
      <4>2. job = pending[1] /\ 1 \in DOMAIN pending
        BY <1>1, <1>3, <2>1, TailOf
      <4>. QED
        BY <2>3, <4>1, <4>2 DEF AllQueued
    <3>10. Follows(m, v, f)
      BY <1>1, <2>3, <3>5, <3>7, <3>8, <3>9, QueuedFollows
    <3>. QED
      BY <3>2, <3>4, <3>10
  <2>. QED
    BY <2>2, <2>3
<1>. QED
  BY <1>2, <1>3 DEF Feed

(* The channel of the results is closed, or nothing happens.                 *)
LEMMA FileClosed ==
    ASSUME PoolInv, PoolTypeOK', phase # "idle",
           CloseResults \/ UNCHANGED vars, NEW f \in Single
    PROVE  Follows(Line', View(f)', f)
<1>1. f \in Files /\ PoolTypeOK /\ Follows(Line, View(f), f)
  BY DEF PoolInv, Single, FileInv
<1>2. UNCHANGED <<disk, docs, open, active, phase, walk, pending, jobs, worker,
                  results, old, may>>
  BY DEF CloseResults, history, vars
<1>. QED
  BY <1>1, <1>2, SameQueues, OthersMove DEF SameLine, Line

(* A worker takes a job from the channel, or leaves.                         *)
LEMMA FileTaken ==
    ASSUME PoolInv, PoolTypeOK', NEW w \in Workers, Take(w), NEW f \in Single
    PROVE  Follows(Line', View(f)', f)
<1>1. /\ f \in Files /\ PoolTypeOK /\ phase = "drain" /\ Follows(Line, View(f), f)
      /\ jobs \in Seq(IndexJob) /\ worker \in [Workers -> WorkerState]
      /\ UNCHANGED <<disk, docs, open, active, phase, walk, pending, results, old, may>>
      /\ worker[w].at = "idle"
  BY DEF PoolInv, Single, Take, FileInv, history, PoolTypeOK
<1>2. ~Mine(worker[w], f)
  BY <1>1 DEF Mine
<1>3. CASE jobs = <<>>
  <2>1. SameWorkers(worker, worker', f) /\ jobs' = jobs
    BY <1>1, <1>2, <1>3 DEF Take, SameWorkers, Mine
  <2>. QED
    BY <1>1, <2>1, SameQueues, OthersMove DEF SameLine, Line
<1>4. CASE jobs # <<>>
  <2>1. PICK job \in IndexJob : job = Head(jobs)
    BY <1>1, <1>4, TailOf
  <2>2. /\ jobs' = Tail(jobs)
        /\ worker' = [worker EXCEPT ![w] = [at |-> "read", job |-> job]]
    BY <1>4, <2>1 DEF Take
  <2>3. CASE job.file # f
    <3>1. SameJobs(jobs, jobs', f)
      BY <1>1, <1>4, <2>1, <2>2, <2>3, SameQueues
    <3>2. SameWorkers(worker, worker', f)
      BY <1>1, <1>2, <2>2, <2>3 DEF SameWorkers, Mine
    <3>3. SameLine(Line, Line', f)
      BY <1>1, <3>1, <3>2, SameQueues DEF SameLine, Line
    <3>. QED
      BY <1>1, <3>3, OthersMove
  <2>4. CASE job.file = f
    <3>1. PICK l : l = Line
      OBVIOUS
    <3>2. PICK m : m = Line'
      OBVIOUS
    <3>3. PICK v : v = View(f)
      OBVIOUS
    <3>4. View(f)' = v
      BY <1>1, <3>3 DEF View
    <3>5. /\ l.walk = walk /\ l.pending = pending /\ l.jobs = jobs
          /\ l.results = results /\ l.worker = worker
          /\ m.walk = walk /\ m.pending = pending
          /\ m.jobs = Tail(jobs) /\ m.results = results /\ m.worker = worker'
      BY <1>1, <2>2, <3>1, <3>2 DEF Line
    <3>6. OneJob(l, f) /\ InJobs(jobs, f) /\ OnceInJobs(jobs, f)
      BY <1>1, <1>4, <2>1, <2>4, <3>1, <3>5, JobsTail DEF Follows, OneJob
    <3>7. ~InJobs(m.jobs, f)
      BY <1>1, <1>4, <2>1, <2>4, <3>5, <3>6, JobsTail
    <3>8. /\ ~InWalk(m.walk, f) /\ ~InJobs(m.pending, f)
          /\ ~InResults(m.results, f) /\ ~WithWorker(l, f)
      BY <3>5, <3>6 DEF OneJob, InQueue
    <3>9. Promised(v) /\ Queued(v, job)
      <4>1. Promised(v) /\ AllQueued(v, jobs, f)
        BY <1>1, <3>1, <3>3, <3>5 DEF Follows
      <4>2. job = jobs[1] /\ 1 \in DOMAIN jobs
        BY <1>1, <1>4, <2>1, TailOf
      <4>. QED
        BY <2>4, <4>1, <4>2 DEF AllQueued
    <3>10. /\ m.worker[w] = [at |-> "read", job |-> job]
           /\ \A u \in Workers \ {w} : m.worker[u] = worker[u]
      BY <1>1, <2>2, <3>5
    <3>11. /\ Mine(m.worker[w], f) /\ WorkerSays(v, m.worker[w])
           /\ \A u \in Workers \ {w} : ~Mine(m.worker[u], f)
      BY <2>4, <3>5, <3>8, <3>9, <3>10 DEF Mine, WorkerSays, WithWorker
    <3>12. Follows(m, v, f)
      BY <3>7, <3>8, <3>9, <3>11, WorkerFollows DEF InQueue
    <3>. QED
      BY <3>2, <3>4, <3>12
  <2>. QED
    BY <2>3, <2>4
<1>. QED
  BY <1>3, <1>4

(* A file whose job is with a worker has it nowhere else.                    *)
LEMMA WithOneWorker ==
    ASSUME NEW l, NEW v, NEW f, Follows(l, v, f), NEW w \in Workers,
           Mine(l.worker[w], f)
    PROVE  /\ ~InWalk(l.walk, f) /\ ~InQueue(l, f) /\ ~InResults(l.results, f)
           /\ \A u \in Workers \ {w} : ~Mine(l.worker[u], f)
           /\ Promised(v) /\ WorkerSays(v, l.worker[w])
  BY DEF Follows, OneJob, WithWorker

(* A worker sends its answer.                                                *)
LEMMA FileSent ==
    ASSUME PoolInv, PoolTypeOK', NEW w \in Workers, Send(w), NEW f \in Single
    PROVE  Follows(Line', View(f)', f)
<1>1. /\ f \in Files /\ PoolTypeOK /\ phase = "drain" /\ Follows(Line, View(f), f)
      /\ results \in Seq(Sent) /\ worker \in [Workers -> WorkerState]
      /\ UNCHANGED <<disk, docs, open, active, phase, walk, pending, jobs, old, may>>
      /\ worker[w].at = "send"
      /\ results' = Append(results, worker[w])
      /\ worker' = [worker EXCEPT ![w] = Idle]
  <2>1. phase = "drain"
    BY OneWorkerMoves DEF PoolInv, Work
  <2>. QED
    BY <2>1 DEF PoolInv, Single, Send, FileInv, history, PoolTypeOK
<1>2. PICK x \in Sent : x = worker[w]
  BY <1>1, StateAt
<1>3. CASE x.job.file # f
  <2>1. SameResults(results, results', f)
    BY <1>1, <1>2, <1>3, SameQueues
  <2>2. SameWorkers(worker, worker', f)
    BY <1>1, <1>2, <1>3 DEF SameWorkers, Mine, Idle
  <2>3. SameLine(Line, Line', f)
    BY <1>1, <2>1, <2>2, SameQueues DEF SameLine, Line
  <2>. QED
    BY <1>1, <2>3, OthersMove
<1>4. CASE x.job.file = f
  <2>1. PICK l : l = Line
    OBVIOUS
  <2>2. PICK m : m = Line'
    OBVIOUS
  <2>3. PICK v : v = View(f)
    OBVIOUS
  <2>4. View(f)' = v
    BY <1>1, <2>3 DEF View
  <2>5. /\ l.walk = walk /\ l.pending = pending /\ l.jobs = jobs
        /\ l.results = results /\ l.worker = worker
        /\ m.walk = walk /\ m.pending = pending /\ m.jobs = jobs
        /\ m.results = Append(results, x) /\ m.worker = worker'
    BY <1>1, <1>2, <2>1, <2>2 DEF Line
  <2>6. Follows(l, v, f) /\ Mine(l.worker[w], f)
    BY <1>1, <1>2, <1>4, <2>1, <2>3, <2>5 DEF Mine
  <2>7. /\ ~InWalk(l.walk, f) /\ ~InQueue(l, f) /\ ~InResults(l.results, f)
        /\ \A u \in Workers \ {w} : ~Mine(l.worker[u], f)
        /\ Promised(v) /\ WorkerSays(v, l.worker[w])
    BY <2>6, WithOneWorker
  <2>8. ~WithWorker(m, f)
    BY <1>1, <2>5, <2>7 DEF WithWorker, Mine, Idle
  <2>9. Answered(v, x)
    BY <1>1, <1>2, <2>5, <2>7 DEF WorkerSays
  <2>10. Follows(m, v, f)
    BY <1>1, <1>4, <2>5, <2>7, <2>8, <2>9, AnsweredFollows DEF InQueue
  <2>. QED
    BY <2>2, <2>4, <2>10
<1>. QED
  BY <1>3, <1>4

(* A worker panics: the job is lost, and with it the file if it is cleared.  *)
LEMMA FilePanicked ==
    ASSUME PoolInv, PoolTypeOK', NEW w \in Workers, Panic(w), NEW f \in Single
    PROVE  Follows(Line', View(f)', f)
<1>1. /\ f \in Files /\ PoolTypeOK /\ phase = "drain" /\ Follows(Line, View(f), f)
      /\ worker \in [Workers -> WorkerState]
      /\ UNCHANGED <<disk, docs, open, active, phase, walk, pending, jobs, results, old>>
      /\ worker[w].at = "parse"
      /\ may' = [g \in Files |-> may[g] \cup {Nil}]
      /\ worker' = [worker EXCEPT ![w] = [at |-> "crashed"]]
  <2>1. phase = "drain"
    BY OneWorkerMoves DEF PoolInv
  <2>. QED
    BY <2>1 DEF PoolInv, Single, Panic, FileInv, channels, PoolTypeOK
<1>2. CASE ~Mine(worker[w], f)
  <2>1. SameWorkers(worker, worker', f)
    BY <1>1, <1>2 DEF SameWorkers, Mine
  <2>2. SameLine(Line, Line', f)
    BY <1>1, <2>1, SameQueues DEF SameLine, Line
  <2>. QED
    BY <1>1, <2>2, OthersMove
<1>3. CASE Mine(worker[w], f)
  <2>1. PICK l : l = Line
    OBVIOUS
  <2>2. PICK m : m = Line'
    OBVIOUS
  <2>3. PICK v : v = View(f)
    OBVIOUS
  <2>4. PICK v2 : v2 = View(f)'
    OBVIOUS
  <2>5. /\ l.worker = worker /\ m.worker = worker'
        /\ m.walk = l.walk /\ m.pending = l.pending /\ m.jobs = l.jobs
        /\ m.results = l.results
    BY <1>1, <2>1, <2>2 DEF Line
  <2>6. /\ v2.doc = v.doc /\ v2.disk = v.disk /\ v2.old = v.old
        /\ v2.active = v.active /\ v2.open = v.open
        /\ v2.may = v.may \cup {Nil}
    BY <1>1, <2>3, <2>4 DEF View
  <2>7. Follows(l, v, f) /\ Mine(l.worker[w], f)
    BY <1>1, <1>3, <2>1, <2>3, <2>5
  <2>8. /\ ~InWalk(l.walk, f) /\ ~InQueue(l, f) /\ ~InResults(l.results, f)
        /\ \A u \in Workers \ {w} : ~Mine(l.worker[u], f)
        /\ Promised(v) /\ WorkerSays(v, l.worker[w])
    BY <2>7, WithOneWorker
  <2>9. NoJob(m, f)
    BY <1>1, <2>5, <2>8 DEF NoJob, InQueue, WithWorker, Mine
  <2>10. Parsing(v, l.worker[w])
    BY <1>1, <2>5, <2>8 DEF WorkerSays
  <2>11. Promised(v2) /\ Settled(v2)
    BY <2>6, <2>8, <2>10 DEF Promised, Settled, Parsing, Got, Waiting, Content
  <2>12. Follows(m, v2, f)
    BY <2>9, <2>11, SettledFollows
  <2>. QED
    BY <2>2, <2>4, <2>12
<1>. QED
  BY <1>2, <1>3

(* A worker reads the file and compares, and resets the tree it parses into. *)
LEMMA FileRead ==
    ASSUME PoolInv, PoolTypeOK', NEW w \in Workers, Read(w), NEW f \in Single
    PROVE  Follows(Line', View(f)', f)
<1>. DEFINE job == worker[w].job
            g == job.file
            text == disk[g].text
            next == ReadOutcome(job, text)
            resets == next.at = "parse" /\ job.old
            rivals == {v \in Workers \ {w} : resets /\ ParsesInto(v, g)}
<1>1. /\ f \in Files /\ PoolTypeOK /\ phase = "drain" /\ Follows(Line, View(f), f)
      /\ worker \in [Workers -> WorkerState]
      /\ UNCHANGED <<disk, open, active, phase, walk, pending, jobs, results, old, may>>
      /\ worker[w].at = "read"
      /\ docs' = IF resets THEN [docs EXCEPT ![g].src = text, ![g].tree = Torn] ELSE docs
      /\ worker' = [v \in Workers |->
                 CASE v = w -> IF rivals # {} THEN [next EXCEPT !.raced = TRUE]
                               ELSE next
                   [] v \in rivals -> [worker[v] EXCEPT !.raced = TRUE]
                   [] OTHER -> worker[v]]
  <2>1. phase = "drain"
    BY OneWorkerMoves DEF PoolInv, Work
  <2>. QED
    BY <2>1 DEF PoolInv, Single, Read, FileInv, channels, history, PoolTypeOK
<1>2. /\ job \in IndexJob /\ g \in Files /\ text \in Content
  <2>1. worker[w] \in [at: {"read"}, job: IndexJob]
    BY <1>1, StateAt
  <2>2. job \in IndexJob
    BY <2>1
  <2>3. g \in Files
    BY <2>2 DEF IndexJob
  <2>. QED
    BY <1>1, <2>2, <2>3 DEF PoolTypeOK
<1>3. /\ next.at \in {"send", "parse"} /\ next.job = job
      /\ next.at = "parse" => /\ [next EXCEPT !.raced = TRUE].job = job
  BY DEF ReadOutcome, Sending
<1>. HIDE DEF job, text, next, resets
<1>4. CASE g # f
  <2>1. ~Mine(worker[w], f) /\ ~Mine(worker'[w], f)
    <3>1. rivals # {} => next.at = "parse"
      BY DEF resets
    <3>2. worker'[w].job = job
      BY <1>1, <1>3, <3>1
    <3>. QED
      BY <1>4, <3>2 DEF Mine, job
  <2>2. ASSUME NEW u \in rivals PROVE ~Mine(worker[u], f) /\ ~Mine(worker'[u], f)
    <3>1. worker[u].job.file = g /\ worker[u].at = "parse" /\ u \in Workers \ {w}
      BY <2>2 DEF ParsesInto
    <3>2. worker[u] \in [at: {"parse"}, job: IndexJob, text: Texts, raced: BOOLEAN]
      BY <1>1, <3>1, StateAt
    <3>3. [worker[u] EXCEPT !.raced = TRUE].job = worker[u].job
      BY <3>2
    <3>4. worker'[u] = [worker[u] EXCEPT !.raced = TRUE]
      BY <1>1, <2>2, <3>1
    <3>. QED
      BY <1>4, <3>1, <3>3, <3>4 DEF Mine
  <2>3. \A u \in Workers : u = w \/ u \in rivals \/ worker'[u] = worker[u]
    BY <1>1
  <2>4. SameWorkers(worker, worker', f)
    BY <2>1, <2>2, <2>3 DEF SameWorkers
  <2>5. SameLine(Line, Line', f)
    BY <1>1, <2>4, SameQueues DEF SameLine, Line
  <2>6. docs'[f] = docs[f]
    <3>1. docs = [h \in Files |-> docs[h]]
      BY <1>1 DEF PoolTypeOK
    <3>2. docs' \in {docs, [docs EXCEPT ![g].src = text, ![g].tree = Torn]}
      BY <1>1
    <3>. HIDE DEF g
    <3>. QED
      BY <1>1, <1>4, <3>1, <3>2
  <2>. QED
    BY <1>1, <2>5, <2>6, OthersMove
<1>5. CASE g = f
  <2>1. PICK l : l = Line
    OBVIOUS
  <2>2. PICK m : m = Line'
    OBVIOUS
  <2>3. PICK v : v = View(f)
    OBVIOUS
  <2>4. PICK v2 : v2 = View(f)'
    OBVIOUS
  <2>5. /\ l.worker = worker /\ m.worker = worker'
        /\ m.walk = l.walk /\ m.pending = l.pending /\ m.jobs = l.jobs
        /\ m.results = l.results
    BY <1>1, <2>1, <2>2 DEF Line
  <2>6. /\ v2.disk = v.disk /\ v2.old = v.old
        /\ v2.active = v.active /\ v2.open = v.open
        /\ v2.may = v.may /\ v.disk = disk[f]
        /\ v.doc = docs[f] /\ v2.doc = docs'[f]
    BY <1>1, <2>3, <2>4 DEF View
  <2>7. Follows(l, v, f) /\ Mine(l.worker[w], f)
    BY <1>1, <1>5, <2>1, <2>3, <2>5 DEF Mine, job
  <2>8. /\ ~InWalk(l.walk, f) /\ ~InQueue(l, f) /\ ~InResults(l.results, f)
        /\ \A u \in Workers \ {w} : ~Mine(l.worker[u], f)
        /\ Promised(v) /\ WorkerSays(v, l.worker[w])
    BY <2>7, WithOneWorker
  <2>9. rivals = {}
    BY <1>5, <2>5, <2>8 DEF ParsesInto, Mine
  <2>10. /\ worker'[w] = next
         /\ \A u \in Workers \ {w} : worker'[u] = worker[u]
    BY <1>1, <2>9
  <2>11. Queued(v, job)
    BY <1>1, <2>5, <2>8 DEF WorkerSays, job
  <2>12. text = v.disk.text
    BY <1>5, <2>6 DEF text
  <2>13. Promised(v2)
    BY <2>6, <2>8 DEF Promised
  <2>14. WorkerSays(v2, next)
    <3>1. CASE text = Nil
      <4>1. next = Sending(job, "error", Nil)
        BY <3>1 DEF next, ReadOutcome
      <4>2. next.at = "send" /\ next.kind = "error" /\ next.job = job
        BY <4>1 DEF Sending
      <4>3. v2.doc = v.doc
        BY <1>1, <2>6, <4>2 DEF resets
      <4>4. Answered(v2, next)
        BY <2>6, <2>11, <2>12, <3>1, <4>2, <4>3
           DEF Answered, Queued, Waiting, Kept
      <4>. QED
        BY <4>2, <4>4 DEF WorkerSays
    <3>2. CASE text # Nil /\ job.src = text
      <4>1. next = Sending(job, "unchanged", text)
        BY <3>2 DEF next, ReadOutcome
      <4>2. /\ next.at = "send" /\ next.kind = "unchanged" /\ next.job = job
            /\ next.text = text
        BY <4>1 DEF Sending
      <4>3. v2.doc = v.doc
        BY <1>1, <2>6, <4>2 DEF resets
      <4>4. Answered(v2, next)
        BY <2>6, <2>11, <2>12, <3>2, <4>2, <4>3
           DEF Answered, Queued, Waiting, Kept, Got
      <4>. QED
        BY <4>2, <4>4 DEF WorkerSays
    <3>3. CASE text # Nil /\ job.src # text
      <4>1. next = [at |-> "parse", job |-> job, text |-> text, raced |-> FALSE]
        BY <3>3 DEF next, ReadOutcome
      <4>2. Got(v, job, text)
        BY <2>11, <2>12, <3>3 DEF Got, Queued, Waiting
      <4>3. docs[f] \in [src: Content, tree: Content \cup {Torn}, time: 0..MaxTime]
        BY <1>1 DEF PoolTypeOK
      <4>4. /\ v2.doc.time = v.doc.time
            /\ IF job.old THEN v2.doc.tree = Torn /\ v2.doc.src = text
               ELSE v2.doc = v.doc
        <5>1. CASE job.old
          <6>1. docs' = [docs EXCEPT ![f].src = text, ![f].tree = Torn]
            BY <1>1, <1>5, <4>1, <5>1 DEF resets
          <6>2. docs \in [Files -> [src: Content, tree: Content \cup {Torn},
                                    time: 0..MaxTime]]
            BY <1>1 DEF PoolTypeOK
          <6>. QED
            BY <1>1, <2>6, <4>3, <5>1, <6>1, <6>2
        <5>2. CASE ~job.old
          BY <1>1, <2>6, <5>2 DEF resets
        <5>. QED
          BY <5>1, <5>2
      <4>5. Into(v2, job, Torn, text)
        BY <1>2, <2>11, <4>4 DEF Into, Queued, IndexJob
      <4>6. Got(v2, job, text)
        BY <2>6, <4>2, <4>4 DEF Got, Waiting
      <4>. QED
        BY <4>1, <4>5, <4>6 DEF WorkerSays, Parsing
    <3>. QED
      BY <3>1, <3>2, <3>3
  <2>15. Mine(m.worker[w], f) /\ \A u \in Workers \ {w} : ~Mine(m.worker[u], f)
    BY <1>3, <1>5, <2>5, <2>8, <2>10 DEF Mine
  <2>16. Follows(m, v2, f)
    BY <2>5, <2>8, <2>10, <2>13, <2>14, <2>15, WorkerFollows DEF InQueue
  <2>. QED
    BY <2>2, <2>4, <2>16
<1>. QED
  BY <1>4, <1>5

(* A worker has parsed: the tree is whole, for nobody else had it.           *)
LEMMA FileParsed ==
    ASSUME PoolInv, PoolTypeOK', NEW w \in Workers, Parse(w), NEW f \in Single
    PROVE  Follows(Line', View(f)', f)
<1>1. /\ f \in Files /\ PoolTypeOK /\ phase = "drain" /\ Follows(Line, View(f), f)
      /\ worker \in [Workers -> WorkerState]
      /\ UNCHANGED <<disk, open, active, phase, walk, pending, jobs, results, old, may>>
      /\ worker[w].at = "parse"
  <2>1. phase = "drain"
    BY OneWorkerMoves DEF PoolInv, Work
  <2>. QED
    BY <2>1 DEF PoolInv, Single, Parse, FileInv, channels, history, PoolTypeOK
<1>2. PICK x : x = worker[w]
  OBVIOUS
<1>3. x \in [at: {"parse"}, job: IndexJob, text: Texts, raced: BOOLEAN]
  BY <1>1, <1>2, StateAt
<1>4. x.job.file \in Files /\ x.job.old \in BOOLEAN
  BY <1>3 DEF IndexJob
<1>5. /\ worker' = [worker EXCEPT ![w] = Sending(x.job, "parsed", x.text)]
      /\ IF x.job.old
         THEN \E tree \in {x.text} \cup (IF x.raced THEN {Torn} ELSE {}) :
                 docs' = [docs EXCEPT ![x.job.file].tree = tree]
         ELSE docs' = docs
  BY <1>2 DEF Parse
<1>6. CASE x.job.file # f
  <2>1. SameWorkers(worker, worker', f)
    BY <1>1, <1>2, <1>5, <1>6 DEF SameWorkers, Mine, Sending
  <2>2. SameLine(Line, Line', f)
    BY <1>1, <2>1, SameQueues DEF SameLine, Line
  <2>3. docs'[f] = docs[f]
    <3>1. docs = [h \in Files |-> docs[h]]
      BY <1>1 DEF PoolTypeOK
    <3>2. \E tree : docs' \in {docs, [docs EXCEPT ![x.job.file].tree = tree]}
      BY <1>5
    <3>. QED
      BY <1>1, <1>6, <3>1, <3>2
  <2>. QED
    BY <1>1, <2>2, <2>3, OthersMove
<1>7. CASE x.job.file = f
  <2>1. PICK l : l = Line
    OBVIOUS
  <2>2. PICK m : m = Line'
    OBVIOUS
  <2>3. PICK v : v = View(f)
    OBVIOUS
  <2>4. PICK v2 : v2 = View(f)'
    OBVIOUS
  <2>5. /\ l.worker = worker /\ m.worker = worker'
        /\ m.walk = l.walk /\ m.pending = l.pending /\ m.jobs = l.jobs
        /\ m.results = l.results
    BY <1>1, <2>1, <2>2 DEF Line
  <2>6. /\ v2.disk = v.disk /\ v2.old = v.old
        /\ v2.active = v.active /\ v2.open = v.open
        /\ v2.may = v.may /\ v.disk = disk[f]
        /\ v.doc = docs[f] /\ v2.doc = docs'[f]
    BY <1>1, <2>3, <2>4 DEF View
  <2>7. Follows(l, v, f) /\ Mine(l.worker[w], f)
    BY <1>1, <1>2, <1>7, <2>1, <2>3, <2>5 DEF Mine
  <2>8. /\ ~InWalk(l.walk, f) /\ ~InQueue(l, f) /\ ~InResults(l.results, f)
        /\ \A u \in Workers \ {w} : ~Mine(l.worker[u], f)
        /\ Promised(v) /\ WorkerSays(v, l.worker[w])
    BY <2>7, WithOneWorker
  <2>9. Parsing(v, x)
    BY <1>1, <1>2, <2>5, <2>8 DEF WorkerSays
  <2>10. PICK y : y = Sending(x.job, "parsed", x.text)
    OBVIOUS
  <2>11. /\ worker'[w] = y
         /\ \A u \in Workers \ {w} : worker'[u] = worker[u]
         /\ y.at = "send" /\ y.job = x.job /\ y.kind = "parsed" /\ y.text = x.text
    BY <1>1, <1>5, <2>10 DEF Sending
  <2>12. /\ v2.doc.time = v.doc.time
         /\ v2.doc.src = v.doc.src
         /\ v2.doc.tree = IF x.job.old THEN x.text ELSE v.doc.tree
    <3>1. docs[f] \in [src: Content, tree: Content \cup {Torn}, time: 0..MaxTime]
      BY <1>1 DEF PoolTypeOK
    <3>2. CASE x.job.old
      <4>1. docs' = [docs EXCEPT ![f].tree = x.text]
        BY <1>5, <1>7, <2>9, <3>2 DEF Parsing
      <4>2. docs \in [Files -> [src: Content, tree: Content \cup {Torn},
                                time: 0..MaxTime]]
        BY <1>1 DEF PoolTypeOK
      <4>. QED
        BY <1>1, <2>6, <3>1, <3>2, <4>1, <4>2
    <3>3. CASE ~x.job.old
      BY <1>5, <2>6, <3>3
    <3>. QED
      BY <3>2, <3>3
  <2>13. Promised(v2)
    BY <2>6, <2>8 DEF Promised
  <2>14. Answered(v2, y)
    <3>1. Got(v2, x.job, x.text)
      BY <2>6, <2>9, <2>12 DEF Parsing, Got, Waiting
    <3>2. Into(v2, x.job, x.text, x.text)
      BY <1>4, <2>9, <2>12 DEF Parsing, Into
    <3>. QED
      BY <2>11, <3>1, <3>2 DEF Answered
  <2>15. /\ Mine(m.worker[w], f) /\ WorkerSays(v2, m.worker[w])
         /\ \A u \in Workers \ {w} : ~Mine(m.worker[u], f)
    BY <1>7, <2>5, <2>8, <2>11, <2>14 DEF Mine, WorkerSays
  <2>16. Follows(m, v2, f)
    BY <2>5, <2>8, <2>13, <2>15, WorkerFollows DEF InQueue
  <2>. QED
    BY <2>2, <2>4, <2>16
<1>. QED
  BY <1>6, <1>7

(* The main goroutine takes a result: the document is one the refresh        *)
(* promised, and its time that of its text.                                  *)
LEMMA FileResult ==
    ASSUME PoolInv, PoolTypeOK', Result, NEW f \in Single
    PROVE  Follows(Line', View(f)', f)
<1>1. /\ f \in Files /\ PoolTypeOK /\ phase = "drain" /\ Follows(Line, View(f), f)
      /\ results \in Seq(Sent) /\ results # <<>> /\ results' = Tail(results)
      /\ UNCHANGED <<disk, open, phase, walk, pending, jobs, worker, old, may>>
  BY DEF PoolInv, Single, Result, FileInv, history, PoolTypeOK
<1>2. PICK x \in Sent : x = Head(results) /\ x = results[1] /\ 1 \in DOMAIN results
  BY <1>1, TailOf
<1>3. /\ active' = active \cup {x.job.file}
      /\ docs' = [docs EXCEPT ![x.job.file] = applyResult(docs[x.job.file], x)]
  BY <1>2 DEF Result
<1>4. x.job \in IndexJob /\ x.job.file \in Files /\ x.job.time \in Nat /\ x.job.old \in BOOLEAN
      /\ x.kind \in {"error", "unchanged", "parsed"} /\ x.text \in Content
  BY PoolConstantsOK DEF Sent, IndexJob
<1>5. CASE x.job.file # f
  <2>1. SameResults(results, results', f)
    BY <1>1, <1>2, <1>5, SameQueues
  <2>2. SameLine(Line, Line', f)
    BY <1>1, <2>1, SameQueues DEF SameLine, Line
  <2>3. docs'[f] = docs[f] /\ (f \in active' <=> f \in active)
    BY <1>1, <1>3, <1>4, <1>5
  <2>. QED
    BY <1>1, <2>2, <2>3, OthersMove
<1>6. CASE x.job.file = f
  <2>1. PICK l : l = Line
    OBVIOUS
  <2>2. PICK m : m = Line'
    OBVIOUS
  <2>3. PICK v : v = View(f)
    OBVIOUS
  <2>4. PICK v2 : v2 = View(f)'
    OBVIOUS
  <2>5. /\ l.results = results /\ m.results = Tail(results) /\ m.worker = l.worker
        /\ m.walk = l.walk /\ m.pending = l.pending /\ m.jobs = l.jobs
    BY <1>1, <2>1, <2>2 DEF Line
  <2>6. /\ v2.disk = v.disk /\ v2.old = v.old /\ v2.open = v.open
        /\ v2.active = TRUE
        /\ v2.may = v.may /\ v.disk = disk[f]
        /\ v.doc = docs[f] /\ v2.doc = applyResult(v.doc, x)
    <3>1. docs'[f] = applyResult(docs[f], x) /\ f \in active'
      BY <1>1, <1>3, <1>4, <1>6 DEF PoolTypeOK
    <3>. QED
      BY <1>1, <2>3, <2>4, <3>1 DEF View
  <2>7. /\ OneJob(l, f) /\ Promised(v) /\ Answered(v, x)
        /\ InResults(l.results, f) /\ OnceInResults(l.results, f)
    BY <1>1, <1>2, <1>6, <2>1, <2>3, <2>5 DEF Follows, AllAnswered, InResults, OneJob
  <2>8. NoJob(m, f)
    <3>1. ~InResults(m.results, f)
      BY <1>1, <1>2, <1>6, <2>5, <2>7, ResultsTail
    <3>. QED
      BY <2>5, <2>7, <3>1 DEF NoJob, OneJob, InQueue, WithWorker
  <2>9. v.doc.time \in Nat /\ v.disk.time \in Nat
    BY <1>1, <2>6 DEF PoolTypeOK
  <2>10. v.doc \in [src: Content, tree: Content \cup {Torn}, time: 0..MaxTime]
    BY <1>1, <2>6 DEF PoolTypeOK
  <2>11. Promised(v2)
    BY <2>6, <2>7 DEF Promised
  <2>12. ASSUME NEW d \in [src: Content, tree: Content \cup {Torn}, time: 0..MaxTime],
                d.tree = x.text, d.src = x.text, d.time < v.disk.time,
                Got(v, x.job, x.text), v2.doc = Stamp(d, x.job)
         PROVE  Settled(v2)
    <3>1. /\ x.text # Nil /\ x.text \in v.may /\ ~v.open
          /\ x.job.time <= v.disk.time
          /\ x.job.time = v.disk.time => x.text = v.disk.text
      BY <2>12 DEF Got, Waiting
    <3>2. /\ v2.doc.tree = x.text /\ v2.doc.src = x.text
          /\ v2.doc.time = IF x.job.time # 0 THEN x.job.time ELSE d.time
      BY <1>4, <2>12, <3>1 DEF Stamp, HasDoc
    <3>3. DocOK(v2.doc, v2.disk)
      <4>1. d.time \in Nat
        BY PoolConstantsOK
      <4>. QED
        BY <1>4, <2>6, <2>9, <2>12, <3>1, <3>2, <4>1 DEF DocOK
    <3>. QED
      BY <2>6, <3>1, <3>2, <3>3 DEF Settled
  <2>13. CASE x.kind = "error" /\ Waiting(v, x.job) /\ Kept(v) /\ v.old \in v.may
    <3>1. v2.doc = v.doc
      BY <2>6, <2>13 DEF applyResult
    <3>2. DocOK(v2.doc, v2.disk)
      <4>1. /\ v.doc.tree \in Content /\ v.doc.src \in {Nil, v.doc.tree}
            /\ v.doc.time < v.disk.time
        BY <2>7, <2>13 DEF Waiting, Kept, Promised
      <4>2. DocOK(v.doc, v.disk)
        BY <2>9, <4>1 DEF DocOK
      <4>. QED
        BY <2>6, <3>1, <4>2
    <3>. QED
      BY <2>6, <2>8, <2>11, <2>13, <3>1, <3>2, <2>2, <2>4, SettledFollows
         DEF Settled, Kept, Waiting
  <2>14. CASE /\ x.kind = "unchanged" /\ Got(v, x.job, x.text)
              /\ v.doc.tree = x.text /\ v.doc.src = x.text
    <3>1. v2.doc = Stamp(v.doc, x.job)
      BY <2>6, <2>14 DEF applyResult
    <3>2. Settled(v2)
      BY <2>10, <2>12, <2>14, <3>1 DEF Got, Waiting
    <3>. QED
      BY <2>2, <2>4, <2>8, <2>11, <3>2, SettledFollows
  <2>15. CASE /\ x.kind = "parsed" /\ Got(v, x.job, x.text)
              /\ Into(v, x.job, x.text, x.text)
    <3>1. Settled(v2)
      <4>1. CASE x.job.old
        <5>1. v2.doc = Stamp(v.doc, x.job)
          BY <2>6, <2>15, <4>1 DEF applyResult
        <5>. QED
          BY <2>10, <2>12, <2>15, <4>1, <5>1 DEF Got, Waiting, Into
      <4>2. CASE ~x.job.old
        <5>1. PICK d : d = [src |-> x.text, tree |-> x.text, time |-> 0]
          OBVIOUS
        <5>2. v2.doc = Stamp(d, x.job)
          BY <2>6, <2>15, <4>2, <5>1 DEF applyResult
        <5>3. /\ d \in [src: Content, tree: Content \cup {Torn}, time: 0..MaxTime]
              /\ d.tree = x.text /\ d.src = x.text /\ d.time < v.disk.time
          BY <1>4, <2>9, <2>15, <5>1, PoolConstantsOK DEF Got, Waiting
        <5>. QED
          BY <2>12, <2>15, <5>2, <5>3
      <4>. QED
        BY <1>4, <4>1, <4>2
    <3>. QED
      BY <2>2, <2>4, <2>8, <2>11, <3>1, SettledFollows
  <2>. QED
    BY <2>7, <2>13, <2>14, <2>15 DEF Answered
<1>. QED
  BY <1>5, <1>6

(* Another program writes a file: what it writes is promised, and no older   *)
(* time is the disk's any more.                                              *)
LEMMA FileWritten ==
    ASSUME PoolInv, PoolTypeOK', NEW f \in Single, NEW g \in Files,
           NEW text \in Content, WriteFile(g, text)
    PROVE  FileInv(f)'
<1>1. /\ f \in Files /\ PoolTypeOK /\ FileInv(f)
      /\ disk' = [disk EXCEPT ![g] = [text |-> text, time |-> disk[g].time + 1]]
      /\ may' = Written(g, text)
      /\ UNCHANGED <<docs, open, active, phase, walk, pending, jobs, results,
                     worker, old>>
  BY DEF PoolInv, Single, WriteFile, channels
<1>2. /\ disk \in [Files -> [text: Content, time: 1..MaxTime]]
      /\ may = [h \in Files |-> may[h]]
      /\ disk[f].time \in Nat /\ docs[f].time \in Nat /\ docs[f].tree \in Content \cup {Torn}
  BY <1>1 DEF PoolTypeOK
<1>3. CASE phase = "idle"
  <2>1. DocOK(docs[f], disk[f])
    BY <1>1, <1>3 DEF FileInv
  <2>2. disk'[f] = disk[f] \/ disk'[f].time = disk[f].time + 1
    BY <1>1, <1>2
  <2>3. DocOK(docs[f], disk'[f])
    BY <1>2, <2>1, <2>2 DEF DocOK
  <2>. QED
    BY <1>1, <1>3, <2>3 DEF FileInv
<1>4. CASE phase # "idle"
  <2>1. PICK l : l = Line
    OBVIOUS
  <2>2. PICK v : v = View(f)
    OBVIOUS
  <2>3. PICK v2 : v2 = View(f)'
    OBVIOUS
  <2>4. l = Line'
    BY <1>1, <2>1 DEF Line
  <2>5. Follows(l, v, f) /\ LineType(l)
    BY <1>1, <1>4, <2>1, <2>2, LineTypes DEF FileInv
  <2>6. /\ v2.doc = v.doc /\ v2.old = v.old /\ v2.active = v.active
        /\ v2.open = v.open /\ v.doc = docs[f] /\ v.disk = disk[f]
        /\ v.may = may[f] /\ v.old = old[f]
        /\ v2.disk = disk'[f] /\ v2.may = may'[f]
    BY <1>1, <2>2, <2>3 DEF View
  <2>7. v.may \subseteq Content /\ v.old \in Content
    BY <2>5 DEF Follows, Promised
  <2>8. Later(v, v2)
    <3>1. CASE f = g
      <4>1. v2.may = v.may \cup {text, Indexed(text)} \cup
                     (IF text = Nil THEN {v.old} ELSE {})
        BY <1>1, <1>2, <1>4, <2>6, <3>1 DEF Written
      <4>2. v2.disk = [text |-> text, time |-> disk[f].time + 1]
        BY <1>1, <1>2, <2>6, <3>1
      <4>3. Indexed(text) \in Content
        BY DEF Indexed, Content
      <4>4. v.may \subseteq v2.may /\ v2.may \subseteq Content
        BY <2>7, <4>1, <4>3
      <4>5. v2.disk.time = v.disk.time + 1 /\ v2.disk.text = text
        BY <2>6, <4>2
      <4>6. /\ text \in v2.may /\ Indexed(text) \in v2.may
            /\ text = Nil => v.old \in v2.may
        BY <4>1
      <4>7. v.disk.time \in Nat /\ v2.disk.time \in Nat /\ v2.disk.time > v.disk.time
            /\ v.doc.time \in Nat
        BY <1>2, <2>6, <4>5
      <4>. QED
        BY <2>6, <4>4, <4>5, <4>6, <4>7 DEF Later
    <3>2. CASE f # g
      <4>1. v2.may = v.may /\ v2.disk = v.disk
        BY <1>1, <1>2, <1>4, <2>6, <3>2 DEF Written
      <4>. QED
        BY <1>2, <2>6, <2>7, <4>1 DEF Later
    <3>. QED
      BY <3>1, <3>2
  <2>9. SameLine(l, l, f)
    BY SameQueues DEF SameLine
  <2>10. Follows(l, v2, f)
    BY <2>5, <2>8, <2>9, SameFollows
  <2>. QED
    BY <1>1, <1>4, <2>3, <2>4, <2>10 DEF FileInv
<1>. QED
  BY <1>3, <1>4

(* The editor: a close evicts sources.                                       *)
LEMMA FileEdited ==
    ASSUME PoolInv, NEW f \in Single, NEW g \in Files, OpenFile(g) \/ CloseFile(g)
    PROVE  FileInv(f)'
<1>1. f \in Files /\ PoolTypeOK /\ phase = "idle" /\ phase' = "idle" /\ disk' = disk
  BY DEF PoolInv, Single, OpenFile, CloseFile
<1>2. DocOK(docs[f], disk[f])
  BY <1>1 DEF PoolInv, FileInv
<1>3. docs'[f] \in {docs[f], [docs[f] EXCEPT !.src = Nil]}
  BY <1>1 DEF OpenFile, CloseFile
<1>4. docs[f] \in [src: Content, tree: Content \cup {Torn}, time: 0..MaxTime]
  BY <1>1 DEF PoolTypeOK
<1>5. DocOK(docs'[f], disk[f])
  BY <1>2, <1>3, <1>4 DEF DocOK
<1>. QED
  BY <1>1, <1>5 DEF FileInv

(* The sweep leaves an open document as it was and a closed one as promised. *)
LEMMA FileSwept ==
    ASSUME PoolInv, Sweep, NEW f \in Single
    PROVE  /\ DocOK(Swept[f], disk[f])
           /\ f \in open => Swept[f].tree = old[f]
           /\ f \notin open => Swept[f].tree \in may[f]
<1>1. /\ f \in Files /\ PoolTypeOK /\ phase = "drain" /\ Follows(Line, View(f), f)
      /\ results = <<>> /\ drained
  BY DEF PoolInv, Single, Sweep, FileInv
<1>2. /\ walk = <<>>
      /\ fed => pending = <<>>
      /\ (\E w \in Workers : worker[w].at = "gone") => fed /\ jobs = <<>>
      /\ \A w \in Workers : worker[w].at \in {"gone", "crashed"}
      /\ (\E w \in Workers : worker[w].at = "crashed") => \A g \in Files : Nil \in may[g]
  BY <1>1 DEF PoolInv, PhaseInv, WorkersDone, Stopped
<1>3. PICK l : l = Line
  OBVIOUS
<1>4. PICK v : v = View(f)
  OBVIOUS
<1>5. /\ l.walk = <<>> /\ l.pending = pending /\ l.jobs = jobs /\ l.results = <<>>
      /\ l.worker = worker
  BY <1>1, <1>2, <1>3 DEF Line
<1>6. /\ v.doc = docs[f] /\ v.disk = disk[f] /\ v.may = may[f] /\ v.old = old[f]
      /\ v.active = (f \in active) /\ v.open = (f \in open)
  BY <1>4 DEF View
<1>7. Follows(l, v, f)
  BY <1>1, <1>3, <1>4
<1>8. disk[f].time \in Nat /\ disk[f].time > 0 /\ disk[f].text \in Content
  BY <1>1 DEF PoolTypeOK
<1>9. ~InWalk(l.walk, f) /\ ~InResults(l.results, f) /\ ~WithWorker(l, f)
  BY <1>2, <1>5 DEF InWalk, InResults, WithWorker, Mine
<1>10. DocOK(NoDoc, disk[f]) /\ NoDoc.tree = Nil
  BY <1>8 DEF DocOK, NoDoc, Content
<1>11. CASE InQueue(l, f)
  <2>1. pending # <<>> \/ jobs # <<>>
    BY <1>5, <1>11 DEF InQueue, InJobs
  <2>2. Nil \in may[f]
    BY <1>1, <1>2, <2>1, PoolConstantsOK
  <2>3. PICK job : Waiting(v, job)
    <3>1. ASSUME NEW s, InJobs(s, f), AllQueued(v, s, f) PROVE \E job : Waiting(v, job)
      BY <3>1 DEF InJobs, AllQueued, Queued
    <3>. QED
      BY <1>7, <1>11, <3>1 DEF InQueue, Follows
  <2>4. f \notin active \cup open
    BY <1>6, <2>3 DEF Waiting
  <2>5. Swept[f] = NoDoc
    BY <1>1, <2>4 DEF Swept
  <2>. QED
    BY <1>10, <2>2, <2>4, <2>5
<1>12. CASE ~InQueue(l, f)
  <2>1. Settled(v)
    BY <1>7, <1>9, <1>12 DEF Follows, NoJob
  <2>2. CASE f \in active \cup open
    <3>1. Swept[f] = docs[f]
      BY <1>1, <2>2 DEF Swept
    <3>. QED
      BY <1>6, <2>1, <2>2, <3>1 DEF Settled
  <2>3. CASE f \notin active \cup open
    <3>1. Swept[f] = NoDoc
      BY <1>1, <2>3 DEF Swept
    <3>. QED
      BY <1>6, <1>10, <2>1, <2>3, <3>1 DEF Settled
  <2>. QED
    BY <2>2, <2>3
<1>. QED
  BY <1>11, <1>12

-----------------------------------------------------------------------------
(* PoolInv is inductive.                                                     *)
LEMMA PoolInitInv == PoolInit => PoolInv
<1>. SUFFICES ASSUME PoolInit PROVE PoolInv
  OBVIOUS
<1>1. PhaseInv
  BY DEF PoolInit, PhaseInv, WorkersDone, Stopped
<1>2. ASSUME NEW f \in Single PROVE FileInv(f)
  <2>1. f \in Files /\ phase = "idle" /\ docs[f] = NoDoc /\ disk[f].time = 1
    BY DEF PoolInit, Single
  <2>. QED
    BY <2>1 DEF FileInv, DocOK, NoDoc, Content
<1>. QED
  BY <1>1, <1>2, TypesInit DEF PoolInv

(* Every step keeps the invariant.                                           *)
LEMMA PoolStepInv == PoolInv /\ [PoolNext]_vars => PoolInv'
<1>. SUFFICES ASSUME PoolInv, [PoolNext]_vars PROVE PoolInv'
  OBVIOUS
<1>1. PoolTypeOK' /\ PhaseInv'
  BY TypesStep, PhaseStep DEF PoolInv
<1>2. ASSUME NEW f \in Single PROVE FileInv(f)'
  <2>0. ASSUME phase' # "idle", Follows(Line', View(f)', f) PROVE FileInv(f)'
    BY <2>0 DEF FileInv
  <2>1. CASE StartRefresh
    BY <2>1, FileStart
  <2>2. CASE indexWorkspace
    <3>1. phase' # "idle"
      BY <2>2 DEF indexWorkspace
    <3>. QED
      BY <1>1, <2>0, <2>2, <3>1, FileWalked
  <2>3. CASE StartWorkers
    <3>1. phase' # "idle"
      BY <2>3 DEF StartWorkers
    <3>. QED
      BY <1>1, <2>0, <2>3, <3>1, FileStarted
  <2>4. CASE Result
    <3>1. phase' # "idle"
      BY <2>4 DEF Result
    <3>. QED
      BY <1>1, <2>0, <2>4, <3>1, FileResult
  <2>5. CASE Sweep
    <3>1. DocOK(docs'[f], disk'[f]) /\ phase' = "idle"
      BY <2>5, FileSwept DEF Sweep
    <3>. QED
      BY <3>1 DEF FileInv
  <2>6. CASE Feed
    <3>1. phase' # "idle"
      BY <2>6 DEF Feed
    <3>. QED
      BY <1>1, <2>0, <2>6, <3>1, FileFed
  <2>7. CASE CloseResults
    <3>1. phase # "idle" /\ phase' # "idle"
      BY <2>7 DEF CloseResults
    <3>. QED
      BY <1>1, <2>0, <2>7, <3>1, FileClosed
  <2>8. ASSUME NEW w \in Workers, Work(w) \/ Panic(w) PROVE FileInv(f)'
    <3>1. phase' # "idle"
      BY <2>8, OneWorkerMoves DEF PoolInv
    <3>. QED
      BY <1>1, <2>0, <2>8, <3>1, FileTaken, FileRead, FileParsed, FileSent,
         FilePanicked DEF Work
  <2>9. ASSUME NEW g \in Files, OpenFile(g) \/ CloseFile(g) PROVE FileInv(f)'
    BY <2>9, FileEdited
  <2>10. ASSUME NEW g \in Files, NEW text \in Content, WriteFile(g, text)
         PROVE  FileInv(f)'
    BY <1>1, <2>10, FileWritten
  <2>11. CASE UNCHANGED vars
    <3>1. CASE phase = "idle"
      <4>1. FileInv(f) /\ UNCHANGED <<docs, disk, phase>>
        BY <2>11 DEF PoolInv, vars
      <4>. QED
        BY <3>1, <4>1 DEF FileInv
    <3>2. CASE phase # "idle"
      <4>1. phase' # "idle"
        BY <2>11, <3>2 DEF vars
      <4>. QED
        BY <1>1, <2>0, <2>11, <3>2, <4>1, FileClosed
    <3>. QED
      BY <3>1, <3>2
  <2>. QED
    BY <2>1, <2>2, <2>3, <2>4, <2>5, <2>6, <2>7, <2>8, <2>9, <2>10, <2>11
       DEF PoolNext, Main, Content
<1>. QED
  BY <1>1, <1>2 DEF PoolInv

(* The recorded time belongs to the bytes that were parsed, for any number   *)
(* of files, workers and writes: a document that would be skipped as         *)
(* unmodified is current, source and tree.                                   *)
THEOREM SkipIsSafeHolds == PoolSpec => []SkipIsSafe
<1>1. PoolInv => SkipIsSafe
  BY DEF PoolInv, FileInv, DocOK, SkipIsSafe
<1>. QED
  BY <1>1, PoolInitInv, PoolStepInv, PTL DEF PoolSpec

-----------------------------------------------------------------------------
(* Every step of the refresh, its writers and its panics is a step of        *)
(* Reindex or leaves it be.  The mapping, written out.                       *)
DiskOf == [f \in Single |-> disk[f].text]
IndexOf == [f \in Single |-> IF phase = "idle" THEN Trees[f] ELSE old[f]]
MayOf == [f \in Single |-> may[f]]
OpenOf == open \cap Single

(* The initial states are initial states of the promise.                     *)
LEMMA PromiseInit == PoolInit => Promise!Init
  BY DEF PoolInit, Promise!Init, Promise!None, NoDoc, Single, Unset, Trees, Content

(* A step of the pool that none of the mapped variables sees.                *)
LEMMA PromiseStutter ==
    ASSUME PoolInv, phase # "idle", phase' # "idle",
           UNCHANGED <<disk, open, old>>,
           \A f \in Single : may'[f] = may[f]
    PROVE  UNCHANGED Promise!vars
  BY DEF Promise!vars, Single

(* What is written to a file the walk meets once is written to the abstract  *)
(* disk; the promise grows by as much.                                       *)
LEMMA PromiseWrite ==
    ASSUME PoolInv, NEW g \in Files, NEW text \in Content,
           may' = Written(g, text),
           \A f \in Files : disk'[f].text = IF f = g THEN text ELSE disk[f].text,
           UNCHANGED <<docs, open, phase, old>>
    PROVE  [Promise!Next]_(Promise!vars)
<1>1. \A f \in Single : f \in Files
  BY DEF Single
<1>2. may = [f \in Files |-> may[f]] /\ disk \in [Files -> [text: Content, time: 1..MaxTime]]
  BY DEF PoolInv, PoolTypeOK
<1>3. DiskOf' = [f \in Single |-> IF f = g THEN text ELSE disk[f].text]
  BY <1>1 DEF DiskOf
<1>4. IndexOf' = IndexOf /\ OpenOf' = OpenOf
  BY DEF IndexOf, OpenOf, Trees
<1>5. CASE g \in Single
  <2>1. DiskOf' = [DiskOf EXCEPT ![g] = text]
    BY <1>3, <1>5 DEF DiskOf
  <2>2. MayOf' = IF phase # "idle"
                 THEN [MayOf EXCEPT ![g] = @ \cup {text, Promise!Indexed(text)} \cup
                                    (IF text = Nil THEN {IndexOf[g]} ELSE {})]
                 ELSE MayOf
    <3>1. CASE phase = "idle"
      BY <3>1 DEF Written, MayOf
    <3>2. CASE phase # "idle"
      <4>1. IndexOf[g] = old[g] /\ Promise!Indexed(text) = Indexed(text)
        BY <1>5, <3>2 DEF IndexOf, Promise!Indexed, Indexed
      <4>2. MayOf' = [f \in Single |->
               IF f = g THEN may[g] \cup {text, Indexed(text)} \cup
                             (IF text = Nil THEN {old[g]} ELSE {})
               ELSE may[f]]
        BY <1>1, <1>2, <3>2 DEF Written, MayOf
      <4>. QED
        BY <1>5, <3>2, <4>1, <4>2 DEF MayOf
    <3>. QED
      BY <3>1, <3>2
  <2>3. Promise!Write(g, text)
    BY <1>4, <2>1, <2>2 DEF Promise!Write, DiskOf, IndexOf, MayOf, OpenOf
  <2>. QED
    BY <1>5, <2>3 DEF Promise!Next, Content
<1>6. CASE g \notin Single
  <2>1. DiskOf' = DiskOf
    BY <1>3, <1>6 DEF DiskOf
  <2>2. MayOf' = MayOf
    <3>1. \A f \in Single : may'[f] = may[f]
      BY <1>1, <1>2, <1>6 DEF Written
    <3>. QED
      BY <3>1 DEF MayOf
  <2>3. UNCHANGED Promise!vars
    BY <1>4, <2>1, <2>2 DEF Promise!vars, DiskOf, IndexOf, MayOf, OpenOf
  <2>. QED
    BY <2>3
<1>. QED
  BY <1>5, <1>6

(* Every step is a step of the promise or none.                              *)
LEMMA PromiseStep ==
    PoolInv /\ [PoolNext]_vars => [Promise!Next]_(Promise!vars)
<1>. SUFFICES ASSUME PoolInv, [PoolNext]_vars PROVE [Promise!Next]_(Promise!vars)
  OBVIOUS
<1>0. \A f \in Single : f \in Files
  BY DEF Single
<1>1. CASE StartRefresh
  <2>1. /\ phase = "idle" /\ phase' = "walk" /\ old' = Trees
        /\ may' = [f \in Files |-> {Indexed(disk[f].text)}]
        /\ UNCHANGED <<disk, docs, open>>
    BY <1>1 DEF StartRefresh
  <2>2. IndexOf' = IndexOf
    BY <2>1 DEF IndexOf
  <2>3. MayOf' = [f \in Single |-> {Promise!Indexed(DiskOf[f])}]
    BY <1>0, <2>1 DEF MayOf, DiskOf, Promise!Indexed, Indexed
  <2>4. Promise!Begin
    BY <2>1, <2>2, <2>3 DEF Promise!Begin, IndexOf, MayOf, DiskOf
  <2>. QED
    BY <2>4 DEF Promise!Next
<1>2. CASE indexWorkspace
  <2>1. /\ phase = "walk" /\ walk # <<>> /\ UNCHANGED <<disk, docs, open, phase, old>>
        /\ \/ UNCHANGED may
           \/ may' = Written(Head(walk), Nil) /\ disk[Head(walk)].text = Nil
    BY <1>2 DEF indexWorkspace
  <2>2. CASE UNCHANGED may
    BY <2>1, <2>2, PromiseStutter
  <2>3. CASE may' = Written(Head(walk), Nil) /\ disk[Head(walk)].text = Nil
    <3>1. PICK g \in Files : g = Head(walk)
      BY <2>1, TailOf DEF PoolInv, PoolTypeOK
    <3>. QED
      BY <2>1, <2>3, <3>1, PromiseWrite DEF Content
  <2>. QED
    BY <2>1, <2>2, <2>3
<1>3. CASE StartWorkers \/ Result \/ Feed \/ CloseResults
  <2>1. phase # "idle" /\ phase' # "idle" /\ UNCHANGED <<disk, open, old, may>>
    BY <1>3 DEF StartWorkers, Result, Feed, CloseResults, history
  <2>. QED
    BY <2>1, PromiseStutter
<1>4. ASSUME NEW w \in Workers, Work(w) PROVE UNCHANGED Promise!vars
  <2>1. phase = "drain" /\ phase' = phase
    BY <1>4, OneWorkerMoves DEF PoolInv
  <2>2. UNCHANGED <<disk, open, old, may>>
    BY <1>4 DEF Work, Take, Read, Parse, Send, history
  <2>. QED
    BY <2>1, <2>2, PromiseStutter
<1>5. ASSUME NEW w \in Workers, Panic(w) PROVE Promise!Next
  <2>1. /\ phase = "drain" /\ phase' = phase /\ UNCHANGED <<disk, open, old>>
        /\ may' = [f \in Files |-> may[f] \cup {Nil}]
    BY <1>5, OneWorkerMoves DEF PoolInv, Panic
  <2>2. MayOf' = [f \in Single |-> MayOf[f] \cup {Nil}]
    BY <1>0, <2>1 DEF MayOf
  <2>3. Promise!Panic
    BY <2>1, <2>2 DEF Promise!Panic, MayOf
  <2>. QED
    BY <2>3 DEF Promise!Next
<1>6. CASE Sweep
  <2>1. /\ phase = "drain" /\ phase' = "idle" /\ docs' = Swept
        /\ may' = Unset /\ UNCHANGED <<disk, open>>
    BY <1>6 DEF Sweep
  <2>2. \A f \in Single : /\ Swept[f].tree \in Content
                          /\ f \in open => Swept[f].tree = old[f]
                          /\ f \notin open => Swept[f].tree \in may[f]
    BY <1>6, FileSwept DEF DocOK
  <2>3. IndexOf' = [f \in Single |-> Swept[f].tree]
    BY <1>0, <2>1 DEF IndexOf, Trees
  <2>4. /\ IndexOf' \in [Single -> Content]
        /\ \A f \in Single : IF f \in OpenOf THEN IndexOf'[f] = IndexOf[f]
                             ELSE IndexOf'[f] \in MayOf[f]
    BY <2>1, <2>2, <2>3 DEF IndexOf, OpenOf, MayOf
  <2>5. MayOf' = Promise!None
    BY <1>0, <2>1 DEF MayOf, Unset, Promise!None
  <2>6. Promise!Finish
    BY <2>1, <2>4, <2>5 DEF Promise!Finish, IndexOf, OpenOf, MayOf, Content
  <2>. QED
    BY <2>6 DEF Promise!Next
<1>7. ASSUME NEW g \in Files, OpenFile(g) \/ CloseFile(g) PROVE Promise!Next
  <2>1. /\ phase = "idle" /\ phase' = "idle" /\ UNCHANGED <<disk, may, old>>
        /\ \A f \in Files : docs'[f] \in {docs[f], [docs[f] EXCEPT !.src = Nil]}
    BY <1>7 DEF OpenFile, CloseFile, history
  <2>2. \A f \in Files : docs'[f].tree = docs[f].tree
    <3>1. docs \in [Files -> [src: Content, tree: Content \cup {Torn}, time: 0..MaxTime]]
      BY DEF PoolInv, PoolTypeOK
    <3>. QED
      BY <2>1, <3>1
  <2>3. IndexOf' = IndexOf
    BY <1>0, <2>1, <2>2 DEF IndexOf, Trees
  <2>4. Promise!Edit
    BY <2>1, <2>3 DEF Promise!Edit, IndexOf
  <2>. QED
    BY <2>4 DEF Promise!Next
<1>8. ASSUME NEW g \in Files, NEW text \in Content, WriteFile(g, text)
      PROVE  [Promise!Next]_(Promise!vars)
  <2>1. /\ may' = Written(g, text) /\ UNCHANGED <<docs, open, phase, old>>
        /\ disk' = [disk EXCEPT ![g] = [text |-> text, time |-> disk[g].time + 1]]
    BY <1>8 DEF WriteFile
  <2>2. \A f \in Files : disk'[f].text = IF f = g THEN text ELSE disk[f].text
    BY <2>1 DEF PoolInv, PoolTypeOK
  <2>. QED
    BY <2>1, <2>2, PromiseWrite
<1>9. CASE UNCHANGED vars
  BY <1>9 DEF vars, Promise!vars, Trees
<1>. QED
  BY <1>1, <1>2, <1>3, <1>4, <1>5, <1>6, <1>7, <1>8, <1>9 DEF PoolNext, Main, Content

(* The refresh implements Reindex, for any walk, number of workers, channel  *)
(* capacities, writes and panics.                                            *)
THEOREM PoolImplementsReindex == PoolSpec => ImplementsReindex
  BY PromiseInit, PoolInitInv, PoolStepInv, PromiseStep, PTL
     DEF PoolSpec, ImplementsReindex, Promise!Spec

-----------------------------------------------------------------------------
(* The end of a refresh: its two halves that need no fairness.               *)

(* The goroutines of a refresh whose next step waits for nobody.             *)
MainCanRun == phase = "walk" \/ (phase = "drain" /\ (results # <<>> \/ drained))
FeedCanRun == phase = "drain" /\ ~fed /\ (pending = <<>> \/ Len(jobs) < JobsCap)
CloserCanRun == phase = "drain" /\ ~drained /\ WorkersDone
WorkerCanRun(w) ==
    \/ phase = "drain" /\ worker[w].at = "idle" /\ (jobs # <<>> \/ fed)
    \/ worker[w].at \in {"read", "parse"}
    \/ worker[w].at = "send" /\ Len(results) < ResultsCap
RefreshNeverStuck ==
    phase # "idle" =>
        MainCanRun \/ FeedCanRun \/ CloserCanRun \/ \E w \in Workers : WorkerCanRun(w)

(* What a refresh has before it: the entries left to walk, the jobs, the     *)
(* results, the steps of the workers and the channels to be closed.          *)
Count(x, places) == Cardinality({w \in Workers : x[w].at \in places})
StepsOf(x) ==
    Count(x, {"idle", "send", "parse", "read"}) + 2 * Count(x, {"send", "parse", "read"})
        + Count(x, {"parse", "read"}) + Count(x, {"read"})
Drain(p, j, x, r, isFed, isDrained) ==
    6 * Len(p) + 5 * Len(j) + StepsOf(x) + Len(r)
        + (IF isFed THEN 0 ELSE 1) + (IF isDrained THEN 0 ELSE 1) + 1
Ahead ==
    CASE phase = "idle" -> 0
      [] phase = "walk" -> 7 * Len(walk) + 6 * Len(pending) + Cardinality(Workers) + 4
      [] phase = "drain" -> Drain(pending, jobs, worker, results, fed, drained)

(* All but the disk and what it promises.                                    *)
Unmoved == UNCHANGED <<docs, open, active, phase, walk, worker, channels>>

(* Every step of a refresh brings it nearer its end, but for another         *)
(* program's write to the disk, which takes it no further from it.           *)
RefreshShrinks ==
    [][phase # "idle" =>
          \/ Ahead' < Ahead
          \/ Ahead' = Ahead /\ Unmoved]_vars


(* A refresh is never stuck: an empty open channel has its feeder, a full    *)
(* one its reader, and when all workers have stopped the closer can run.     *)
LEMMA NeverStuck == PoolTypeOK /\ PhaseInv => RefreshNeverStuck
<1>. SUFFICES ASSUME PoolTypeOK, PhaseInv, phase # "idle",
                     ~MainCanRun, ~FeedCanRun, ~CloserCanRun, \A w \in Workers : ~WorkerCanRun(w)
              PROVE  FALSE
  BY DEF RefreshNeverStuck
<1>1. phase = "drain" /\ results = <<>> /\ ~drained
  BY DEF PoolTypeOK, MainCanRun
<1>2. PICK w \in Workers : ~Stopped(w)
  BY <1>1 DEF CloserCanRun, WorkersDone
<1>3. worker[w].at \in {"read", "parse", "send", "idle"}
  <2>1. worker[w] \in WorkerState
    BY DEF PoolTypeOK
  <2>. QED
    BY <1>2, <2>1, StateAt DEF Stopped
<1>4. Len(results) < ResultsCap
  BY <1>1, PoolConstantsOK
<1>5. worker[w].at = "idle" /\ jobs = <<>> /\ ~fed
  BY <1>1, <1>3, <1>4 DEF WorkerCanRun
<1>6. Len(jobs) < JobsCap
  BY <1>5, PoolConstantsOK
<1>. QED
  BY <1>1, <1>5, <1>6 DEF FeedCanRun

(* The workers at some places, one of them having moved.                     *)
Moved(x, y, w, P) ==
    /\ Count(x, P) \in Nat /\ Count(y, P) \in Nat
    /\ (x[w].at \in P <=> y[w].at \in P) => Count(y, P) = Count(x, P)
    /\ x[w].at \in P /\ y[w].at \notin P => Count(x, P) = Count(y, P) + 1
    /\ x[w].at \notin P /\ y[w].at \in P => Count(y, P) = Count(x, P) + 1

(* A count changes by one at most when one worker moves.                     *)
LEMMA CountMoves ==
    ASSUME NEW x, NEW y, NEW w \in Workers, \A v \in Workers \ {w} : y[v].at = x[v].at
    PROVE  \A P : Moved(x, y, w, P)
<1>. SUFFICES ASSUME NEW P PROVE Moved(x, y, w, P)
  OBVIOUS
<1>1. PICK X : X = {v \in Workers : x[v].at \in P}
  OBVIOUS
<1>2. PICK Y : Y = {v \in Workers : y[v].at \in P}
  OBVIOUS
<1>3. Count(x, P) = Cardinality(X) /\ Count(y, P) = Cardinality(Y)
  BY <1>1, <1>2 DEF Count
<1>4. IsFiniteSet(X) /\ IsFiniteSet(Y) /\ Cardinality(X) \in Nat /\ Cardinality(Y) \in Nat
  <2>1. X \in SUBSET Workers /\ Y \in SUBSET Workers /\ IsFiniteSet(Workers)
    BY <1>1, <1>2, PoolConstantsOK
  <2>2. IsFiniteSet(X) /\ IsFiniteSet(Y)
    BY <2>1, FS_Subset
  <2>. QED
    BY <2>2, FS_CardinalityType
<1>5. (x[w].at \in P <=> y[w].at \in P) => X = Y
  BY <1>1, <1>2
<1>6. ASSUME x[w].at \in P, y[w].at \notin P PROVE Cardinality(X) = Cardinality(Y) + 1
  <2>1. X = Y \cup {w} /\ w \notin Y
    BY <1>1, <1>2, <1>6
  <2>. QED
    BY <1>4, <2>1, FS_AddElement
<1>7. ASSUME x[w].at \notin P, y[w].at \in P PROVE Cardinality(Y) = Cardinality(X) + 1
  <2>1. Y = X \cup {w} /\ w \notin X
    BY <1>1, <1>2, <1>7
  <2>. QED
    BY <1>4, <2>1, FS_AddElement
<1>. QED
  BY <1>3, <1>4, <1>5, <1>6, <1>7 DEF Moved

(* The steps a worker at a place has before it.                              *)
StepsAt(place) ==
    CASE place = "idle" -> 1 [] place = "send" -> 3 [] place = "parse" -> 4
      [] place = "read" -> 5 [] OTHER -> 0

(* So what the workers have before them changes by that of one worker.       *)
LEMMA StepsMove ==
    ASSUME NEW x, NEW y, NEW w \in Workers, \A v \in Workers \ {w} : y[v].at = x[v].at
    PROVE  /\ StepsOf(x) \in Nat /\ StepsOf(y) \in Nat
           /\ StepsOf(y) + StepsAt(x[w].at) = StepsOf(x) + StepsAt(y[w].at)
<1>. DEFINE P1 == {"idle", "send", "parse", "read"}
            P2 == {"send", "parse", "read"}
            P3 == {"parse", "read"}
            P4 == {"read"}
<1>1. PICK a, b : a = x[w].at /\ b = y[w].at
  OBVIOUS
<1>. DEFINE Up(P) == IF a \in P THEN 1 ELSE 0
            Down(P) == IF b \in P THEN 1 ELSE 0
<1>2. \A P : /\ Count(x, P) \in Nat /\ Count(y, P) \in Nat
             /\ Count(y, P) + Up(P) = Count(x, P) + Down(P)
  <2>. SUFFICES ASSUME NEW P
                PROVE  /\ Count(x, P) \in Nat /\ Count(y, P) \in Nat
                       /\ Count(y, P) + Up(P) = Count(x, P) + Down(P)
    OBVIOUS
  <2>1. Moved(x, y, w, P)
    BY CountMoves
  <2>. QED
    BY <1>1, <2>1 DEF Moved
<1>3. PICK m1, m2, m3, m4, n1, n2, n3, n4 :
        /\ m1 = Count(x, P1) /\ m2 = Count(x, P2) /\ m3 = Count(x, P3) /\ m4 = Count(x, P4)
        /\ n1 = Count(y, P1) /\ n2 = Count(y, P2) /\ n3 = Count(y, P3) /\ n4 = Count(y, P4)
  OBVIOUS
<1>n. /\ m1 \in Nat /\ m2 \in Nat /\ m3 \in Nat /\ m4 \in Nat
      /\ n1 \in Nat /\ n2 \in Nat /\ n3 \in Nat /\ n4 \in Nat
  BY <1>2, <1>3
<1>4. StepsOf(x) = m1 + 2 * m2 + m3 + m4 /\ StepsOf(y) = n1 + 2 * n2 + n3 + n4
  BY <1>3 DEF StepsOf
<1>5. StepsAt(a) = Up(P1) + 2 * Up(P2) + Up(P3) + Up(P4)
  BY DEF StepsAt
<1>6. StepsAt(b) = Down(P1) + 2 * Down(P2) + Down(P3) + Down(P4)
  BY DEF StepsAt
<1>7. \A P : Up(P) \in {0, 1} /\ Down(P) \in {0, 1}
  OBVIOUS
<1>8. PICK u1, u2, u3, u4, d1, d2, d3, d4 \in {0, 1} :
        /\ u1 = Up(P1) /\ u2 = Up(P2) /\ u3 = Up(P3) /\ u4 = Up(P4)
        /\ d1 = Down(P1) /\ d2 = Down(P2) /\ d3 = Down(P3) /\ d4 = Down(P4)
  BY <1>7
<1>9. n1 + u1 = m1 + d1 /\ n2 + u2 = m2 + d2 /\ n3 + u3 = m3 + d3 /\ n4 + u4 = m4 + d4
  <2>. HIDE DEF Up, Down, P1, P2, P3, P4
  <2>1. /\ n1 + Up(P1) = m1 + Down(P1) /\ n2 + Up(P2) = m2 + Down(P2)
        /\ n3 + Up(P3) = m3 + Down(P3) /\ n4 + Up(P4) = m4 + Down(P4)
    BY <1>2, <1>3
  <2>. QED
    BY <1>8, <2>1
<1>10. StepsAt(a) = u1 + 2 * u2 + u3 + u4 /\ StepsAt(b) = d1 + 2 * d2 + d3 + d4
  BY <1>5, <1>6, <1>8
<1>. HIDE DEF Up, Down, P1, P2, P3, P4
<1>. QED
  BY <1>1, <1>n, <1>4, <1>9, <1>10


(* What is ahead in each phase, with lengths apart.                          *)
LEMMA AheadIs ==
    ASSUME PoolTypeOK
    PROVE  /\ Len(walk) \in Nat /\ Len(pending) \in Nat /\ Len(jobs) \in Nat /\ Len(results) \in Nat
           /\ Cardinality(Workers) \in Nat /\ StepsOf(worker) \in Nat
           /\ phase = "idle" => Ahead = 0
           /\ phase = "walk" =>
                 Ahead = 7 * Len(walk) + 6 * Len(pending) + Cardinality(Workers) + 4
           /\ phase = "drain" =>
                 Ahead = Drain(pending, jobs, worker, results, fed, drained)
<1>1. Len(walk) \in Nat /\ Len(pending) \in Nat /\ Len(jobs) \in Nat /\ Len(results) \in Nat
  BY DEF PoolTypeOK
<1>2. Cardinality(Workers) \in Nat
  BY PoolConstantsOK, FS_CardinalityType
<1>3. StepsOf(worker) \in Nat
  <2>1. PICK w \in Workers : TRUE
    BY PoolConstantsOK
  <2>. QED
    BY StepsMove
<1>. QED
  BY <1>1, <1>2, <1>3 DEF Ahead

(* One entry less.                                                           *)
LEMMA Shorter ==
    ASSUME NEW S, NEW s \in Seq(S), s # <<>>
    PROVE  Len(s) \in Nat /\ Len(s) > 0 /\ Len(Tail(s)) = Len(s) - 1
  OBVIOUS

(* One entry more.                                                           *)
LEMMA Longer ==
    ASSUME NEW S, NEW s \in Seq(S), NEW e
    PROVE  Len(s) \in Nat /\ Len(Append(s, e)) = Len(s) + 1
  OBVIOUS

(* A step of a worker.                                                       *)
LEMMA WorkShrinks ==
    ASSUME PoolTypeOK, PoolTypeOK', PhaseInv, NEW w \in Workers, Work(w) \/ Panic(w)
    PROVE  Ahead' < Ahead
<1>1. /\ phase = "drain" /\ phase' = "drain" /\ UNCHANGED <<pending, fed, drained>>
      /\ \A v \in Workers \ {w} : worker'[v].at = worker[v].at
  BY OneWorkerMoves
<1>2. PICK a, b : a = worker[w].at /\ b = worker'[w].at
  OBVIOUS
<1>3. PICK p, j, r, s, j2, r2, s2 :
        /\ p = Len(pending) /\ j = Len(jobs) /\ r = Len(results) /\ s = StepsOf(worker)
        /\ j2 = Len(jobs') /\ r2 = Len(results') /\ s2 = StepsOf(worker')
  OBVIOUS
<1>4. PICK e : e = (IF fed THEN 0 ELSE 1) + (IF drained THEN 0 ELSE 1) + 1
  OBVIOUS
<1>5. /\ p \in Nat /\ j \in Nat /\ r \in Nat /\ s \in Nat /\ j2 \in Nat /\ r2 \in Nat
      /\ e \in Nat
  <2>1. /\ Len(pending) \in Nat /\ Len(jobs) \in Nat /\ Len(results) \in Nat
        /\ Len(jobs') \in Nat /\ Len(results') \in Nat
    BY DEF PoolTypeOK
  <2>2. StepsOf(worker) \in Nat
    BY AheadIs
  <2>. QED
    BY <1>3, <1>4, <2>1, <2>2
<1>6. Ahead = 6 * p + 5 * j + s + r + e /\ Ahead' = 6 * p + 5 * j2 + s2 + r2 + e
  <2>1. /\ Ahead = Drain(pending, jobs, worker, results, fed, drained)
        /\ Ahead' = Drain(pending', jobs', worker', results', fed', drained')
    BY <1>1 DEF Ahead
  <2>2. s2 \in Nat
    BY <1>1, <1>3, StepsMove
  <2>3. Ahead = 6 * p + 5 * j + s + r + (IF fed THEN 0 ELSE 1) + (IF drained THEN 0 ELSE 1) + 1
    BY <1>3, <2>1 DEF Drain
  <2>4. Ahead' = 6 * p + 5 * j2 + s2 + r2 + (IF fed THEN 0 ELSE 1) + (IF drained THEN 0 ELSE 1) + 1
    BY <1>1, <1>3, <2>1 DEF Drain
  <2>. QED
    BY <1>4, <1>5, <2>2, <2>3, <2>4
<1>7. s2 + StepsAt(a) = s + StepsAt(b) /\ s2 \in Nat
  BY <1>1, <1>2, <1>3, StepsMove
<1>n. s2 \in Nat
  BY <1>7
<1>h. PICK h, h2 : h = Ahead /\ h2 = Ahead'
  OBVIOUS
<1>. SUFFICES h2 < h
  BY <1>h
<1>m. h = 6 * p + 5 * j + s + r + e /\ h2 = 6 * p + 5 * j2 + s2 + r2 + e
  BY <1>6, <1>h
<1>8. CASE Take(w)
  <2>1. a = "idle"
    BY <1>2, <1>8 DEF Take
  <2>2. r2 = r
    BY <1>3, <1>8 DEF Take
  <2>3. CASE jobs # <<>>
    <3>1. b = "read" /\ jobs' = Tail(jobs)
      BY <1>2, <1>8, <2>3 DEF Take, PoolTypeOK
    <3>2. j2 = j - 1
      BY <1>3, <2>3, <3>1, Shorter DEF PoolTypeOK
    <3>3. s2 + 1 = s + 5
      BY <1>7, <2>1, <3>1 DEF StepsAt
    <3>. QED
      BY <1>5, <1>m, <1>n, <2>2, <3>2, <3>3
  <2>4. CASE jobs = <<>>
    <3>1. b = "gone" /\ jobs' = jobs
      BY <1>2, <1>8, <2>4 DEF Take, PoolTypeOK
    <3>2. s2 + 1 = s + 0
      BY <1>7, <2>1, <3>1 DEF StepsAt
    <3>3. j2 = j
      BY <1>3, <3>1
    <3>. QED
      BY <1>5, <1>m, <1>n, <2>2, <3>2, <3>3
  <2>. QED
    BY <2>3, <2>4
<1>9. CASE Read(w)
  <2>1. a = "read" /\ j2 = j /\ r2 = r
    BY <1>2, <1>3, <1>9 DEF Read, channels
  <2>2. PICK next, rivals :
           /\ next = ReadOutcome(worker[w].job, disk[worker[w].job.file].text)
           /\ rivals \subseteq Workers \ {w} /\ (rivals # {} => next.at = "parse")
           /\ worker' = [v \in Workers |->
                 CASE v = w -> IF rivals # {} THEN [next EXCEPT !.raced = TRUE]
                               ELSE next
                   [] v \in rivals -> [worker[v] EXCEPT !.raced = TRUE]
                   [] OTHER -> worker[v]]
    BY <1>9 DEF Read
  <2>3. /\ next.at \in {"send", "parse"}
        /\ (next.at = "parse" => [next EXCEPT !.raced = TRUE].at = "parse")
    BY <2>2 DEF ReadOutcome, Sending
  <2>4. b \in {"send", "parse"}
    BY <1>2, <2>2, <2>3
  <2>5. s2 + 5 = s + StepsAt(b) /\ StepsAt(b) \in {3, 4}
    BY <1>7, <2>1, <2>4 DEF StepsAt
  <2>. QED
    BY <1>5, <1>m, <1>n, <2>1, <2>5
<1>10. CASE Parse(w)
  <2>1. a = "parse" /\ j2 = j /\ r2 = r
    BY <1>2, <1>3, <1>10 DEF Parse, channels
  <2>2. b = "send"
    BY <1>2, <1>10 DEF Parse, Sending, PoolTypeOK
  <2>3. s2 + 4 = s + 3
    BY <1>7, <2>1, <2>2 DEF StepsAt
  <2>. QED
    BY <1>5, <1>m, <1>n, <2>1, <2>3
<1>11. CASE Send(w)
  <2>1. a = "send" /\ j2 = j /\ results' = Append(results, worker[w])
    BY <1>2, <1>3, <1>11 DEF Send
  <2>2. b = "idle"
    BY <1>2, <1>11 DEF Send, Idle, PoolTypeOK
  <2>3. s2 + 3 = s + 1
    BY <1>7, <2>1, <2>2 DEF StepsAt
  <2>4. r2 = r + 1
    BY <1>3, <2>1, Longer DEF PoolTypeOK
  <2>. QED
    BY <1>5, <1>m, <1>n, <2>1, <2>3, <2>4
<1>12. CASE Panic(w)
  <2>1. a = "parse" /\ j2 = j /\ r2 = r
    BY <1>2, <1>3, <1>12 DEF Panic, channels
  <2>2. b = "crashed"
    BY <1>2, <1>12 DEF Panic, PoolTypeOK
  <2>3. s2 + 4 = s + 0
    BY <1>7, <2>1, <2>2 DEF StepsAt
  <2>. QED
    BY <1>5, <1>m, <1>n, <2>1, <2>3
<1>. QED
  BY <1>8, <1>9, <1>10, <1>11, <1>12 DEF Work


(* The entries of the walk, the channels and the sweep.                      *)
LEMMA MainShrinks ==
    ASSUME PoolTypeOK, PoolTypeOK', indexWorkspace \/ StartWorkers \/ Result \/ Sweep
    PROVE  Ahead' < Ahead
<1>h. PICK h, h2 : h = Ahead /\ h2 = Ahead'
  OBVIOUS
<1>. SUFFICES h2 < h
  BY <1>h
<1>1. PICK n, p, r, c : n = Len(walk) /\ p = Len(pending) /\ r = Len(results) /\ c = Cardinality(Workers)
  OBVIOUS
<1>2. n \in Nat /\ p \in Nat /\ r \in Nat /\ c \in Nat
  BY <1>1, AheadIs
<1>3. CASE indexWorkspace
  <2>1. phase = "walk" /\ phase' = "walk" /\ walk # <<>> /\ walk' = Tail(walk)
    BY <1>3 DEF indexWorkspace
  <2>2. Len(walk') = n - 1
    BY <1>1, <2>1, Shorter DEF PoolTypeOK
  <2>3. pending' = pending \/ \E e : pending' = Append(pending, e)
    BY <1>3 DEF indexWorkspace, Skip, MarkActive, Queue
  <2>4. PICK q \in Nat : q = Len(pending') /\ q <= p + 1
    <3>1. CASE pending' = pending
      BY <1>1, <1>2, <3>1
    <3>2. CASE \E e : pending' = Append(pending, e)
      <4>1. PICK e : pending' = Append(pending, e)
        BY <3>2
      <4>2. Len(pending') = p + 1
        BY <1>1, <4>1, Longer DEF PoolTypeOK
      <4>. QED
        BY <1>2, <4>2
    <3>. QED
      BY <2>3, <3>1, <3>2
  <2>5. h = 7 * n + 6 * p + c + 4
    BY <1>h, <1>1, <2>1 DEF Ahead
  <2>6. h2 = 7 * (n - 1) + 6 * q + c + 4
    BY <1>h, <1>1, <2>1, <2>2, <2>4 DEF Ahead
  <2>. QED
    BY <1>2, <2>4, <2>5, <2>6
<1>4. CASE StartWorkers
  <2>1. /\ phase = "walk" /\ phase' = "drain" /\ walk = <<>> /\ pending' = pending
        /\ jobs' = <<>> /\ results' = <<>> /\ fed' = FALSE /\ drained' = FALSE
        /\ worker' = [w \in Workers |-> Idle]
    BY <1>4 DEF StartWorkers
  <2>2. StepsOf(worker') = c
    <3>. PICK x : x = worker'
      OBVIOUS
    <3>1. \A v \in Workers : x[v].at = "idle"
      BY <2>1 DEF Idle
    <3>2. Cardinality({}) = 0
      BY FS_EmptySet
    <3>3. Count(x, {"idle", "send", "parse", "read"}) = c
      <4>1. {v \in Workers : x[v].at \in {"idle", "send", "parse", "read"}} = Workers
        BY <3>1
      <4>. QED
        BY <1>1, <4>1 DEF Count
    <3>4. Count(x, {"send", "parse", "read"}) = 0
      <4>1. {v \in Workers : x[v].at \in {"send", "parse", "read"}} = {}
        BY <3>1
      <4>. QED
        BY <3>2, <4>1 DEF Count
    <3>5. Count(x, {"parse", "read"}) = 0
      <4>1. {v \in Workers : x[v].at \in {"parse", "read"}} = {}
        BY <3>1
      <4>. QED
        BY <3>2, <4>1 DEF Count
    <3>6. Count(x, {"read"}) = 0
      <4>1. {v \in Workers : x[v].at \in {"read"}} = {}
        BY <3>1
      <4>. QED
        BY <3>2, <4>1 DEF Count
    <3>7. StepsOf(x) = c
      BY <1>2, <3>3, <3>4, <3>5, <3>6 DEF StepsOf
    <3>. QED
      BY <3>7
  <2>3. h = 7 * n + 6 * p + c + 4
    BY <1>h, <1>1, <2>1 DEF Ahead
  <2>4. h2 = Drain(pending', jobs', worker', results', fed', drained')
    BY <1>h, <2>1 DEF Ahead
  <2>5. Len(jobs') = 0 /\ Len(results') = 0
    BY <2>1
  <2>6. h2 = 6 * p + 5 * 0 + c + 0 + 1 + 1 + 1
    BY <1>1, <2>1, <2>2, <2>4, <2>5 DEF Drain
  <2>. QED
    BY <1>2, <2>3, <2>6
<1>5. CASE Result
  <2>1. /\ phase = "drain" /\ phase' = "drain" /\ results # <<>> /\ results' = Tail(results)
        /\ UNCHANGED <<pending, jobs, worker, fed, drained>>
    BY <1>5 DEF Result
  <2>2. Len(results') = r - 1
    BY <1>1, <2>1, Shorter DEF PoolTypeOK
  <2>3. PICK e : e = 6 * Len(pending) + 5 * Len(jobs) + StepsOf(worker)
    OBVIOUS
  <2>4. PICK g : g = (IF fed THEN 0 ELSE 1) + (IF drained THEN 0 ELSE 1) + 1
    OBVIOUS
  <2>5. e \in Nat /\ g \in Nat
    BY <2>3, <2>4, AheadIs
  <2>6. h = Drain(pending, jobs, worker, results, fed, drained)
    BY <1>h, <2>1 DEF Ahead
  <2>7. h2 = Drain(pending, jobs, worker, results', fed, drained)
    BY <1>h, <2>1 DEF Ahead
  <2>8. h = e + r + (IF fed THEN 0 ELSE 1) + (IF drained THEN 0 ELSE 1) + 1
    BY <1>1, <2>3, <2>6 DEF Drain
  <2>9. h2 = e + (r - 1) + (IF fed THEN 0 ELSE 1) + (IF drained THEN 0 ELSE 1) + 1
    BY <2>2, <2>3, <2>7 DEF Drain
  <2>. QED
    BY <1>2, <2>5, <2>8, <2>9
<1>6. CASE Sweep
  <2>1. phase = "drain" /\ phase' = "idle"
    BY <1>6 DEF Sweep
  <2>2. h2 = 0
    BY <1>h, <2>1 DEF Ahead
  <2>3. h = Drain(pending, jobs, worker, results, fed, drained)
    BY <1>h, <2>1 DEF Ahead
  <2>4. /\ Len(pending) \in Nat /\ Len(jobs) \in Nat /\ Len(results) \in Nat /\ StepsOf(worker) \in Nat
    BY AheadIs
  <2>5. h > 0
    BY <2>3, <2>4 DEF Drain
  <2>. QED
    BY <2>2, <2>5
<1>. QED
  BY <1>3, <1>4, <1>5, <1>6

(* The feeder and the goroutine that closes the results.                     *)
LEMMA ChannelsShrink ==
    ASSUME PoolTypeOK, PoolTypeOK', Feed \/ CloseResults
    PROVE  Ahead' < Ahead
<1>h. PICK h, h2 : h = Ahead /\ h2 = Ahead'
  OBVIOUS
<1>. SUFFICES h2 < h
  BY <1>h
<1>1. PICK p, j, e : p = Len(pending) /\ j = Len(jobs) /\ e = StepsOf(worker) + Len(results)
  OBVIOUS
<1>2. p \in Nat /\ j \in Nat /\ e \in Nat /\ StepsOf(worker) \in Nat /\ Len(results) \in Nat
  BY <1>1, AheadIs
<1>3. phase = "drain" /\ phase' = "drain" /\ UNCHANGED <<worker, results>>
  BY DEF Feed, CloseResults
<1>4. /\ h = Drain(pending, jobs, worker, results, fed, drained)
      /\ h2 = Drain(pending', jobs', worker, results, fed', drained')
  BY <1>h, <1>3 DEF Ahead
<1>5. PICK g, k, g2, k2 :
        /\ g = (IF fed THEN 0 ELSE 1) /\ k = (IF drained THEN 0 ELSE 1)
        /\ g2 = (IF fed' THEN 0 ELSE 1) /\ k2 = (IF drained' THEN 0 ELSE 1)
  OBVIOUS
<1>m. g \in Nat /\ k \in Nat /\ g2 \in Nat /\ k2 \in Nat
  BY <1>5
<1>n. PICK p2, j2 : p2 = Len(pending') /\ j2 = Len(jobs')
  OBVIOUS
<1>o. /\ h = 6 * p + 5 * j + e + g + k + 1
      /\ h2 = 6 * p2 + 5 * j2 + e + g2 + k2 + 1
  <2>1. p2 \in Nat /\ j2 \in Nat
    BY <1>n DEF PoolTypeOK
  <2>2. h = 6 * p + 5 * j + StepsOf(worker) + Len(results) + g + k + 1
    BY <1>1, <1>4, <1>5 DEF Drain
  <2>3. h2 = 6 * p2 + 5 * j2 + StepsOf(worker) + Len(results) + g2 + k2 + 1
    BY <1>n, <1>4, <1>5 DEF Drain
  <2>4. PICK u, v : u = StepsOf(worker) /\ v = Len(results)
    OBVIOUS
  <2>5. u \in Nat /\ v \in Nat /\ e = u + v
    BY <1>1, <1>2, <2>4
  <2>6. h = 6 * p + 5 * j + u + v + g + k + 1
    BY <2>2, <2>4
  <2>7. h2 = 6 * p2 + 5 * j2 + u + v + g2 + k2 + 1
    BY <2>3, <2>4
  <2>8. h = 6 * p + 5 * j + e + g + k + 1
    BY <1>2, <1>m, <2>5, <2>6
  <2>9. h2 = 6 * p2 + 5 * j2 + e + g2 + k2 + 1
    BY <1>2, <1>m, <2>1, <2>5, <2>7
  <2>. QED
    BY <2>8, <2>9
<1>6. CASE Feed /\ pending # <<>>
  <2>1. UNCHANGED <<fed, drained>> /\ pending' = Tail(pending) /\ jobs' = Append(jobs, Head(pending))
    BY <1>6 DEF Feed
  <2>2. p2 = p - 1
    BY <1>1, <1>6, <1>n, <2>1, Shorter DEF PoolTypeOK
  <2>3. j2 = j + 1
    BY <1>1, <1>n, <2>1, Longer DEF PoolTypeOK
  <2>4. g2 = g /\ k2 = k
    BY <1>5, <2>1
  <2>. QED
    BY <1>2, <1>m, <1>o, <2>2, <2>3, <2>4
<1>7. CASE Feed /\ pending = <<>>
  <2>1. ~fed /\ fed' /\ UNCHANGED <<pending, jobs, drained>>
    BY <1>7 DEF Feed
  <2>2. p2 = p /\ j2 = j
    BY <1>1, <1>n, <2>1
  <2>3. g = 1 /\ g2 = 0 /\ k2 = k
    BY <1>5, <2>1
  <2>. QED
    BY <1>2, <1>m, <1>o, <2>2, <2>3
<1>8. CASE CloseResults
  <2>1. ~drained /\ drained' /\ UNCHANGED <<pending, jobs, fed>>
    BY <1>8 DEF CloseResults
  <2>2. p2 = p /\ j2 = j
    BY <1>1, <1>n, <2>1
  <2>3. g2 = g /\ k = 1 /\ k2 = 0
    BY <1>5, <2>1
  <2>. QED
    BY <1>2, <1>m, <1>o, <2>2, <2>3
<1>. QED
  BY <1>6, <1>7, <1>8

(* Every step of a refresh but a write.                                      *)
LEMMA StepShrinks ==
    ASSUME PoolTypeOK, PoolTypeOK', PhaseInv, PoolNext, phase # "idle"
    PROVE  Ahead' < Ahead \/ (Ahead' = Ahead /\ Unmoved)
<1>1. CASE Main
  <2>1. ~StartRefresh
    BY DEF StartRefresh
  <2>. QED
    BY <1>1, <2>1, MainShrinks DEF Main
<1>2. CASE Feed \/ CloseResults
  BY <1>2, ChannelsShrink
<1>3. CASE \E w \in Workers : Work(w) \/ Panic(w)
  BY <1>3, WorkShrinks
<1>4. CASE \E f \in Files : OpenFile(f) \/ CloseFile(f)
  BY <1>4 DEF OpenFile, CloseFile
<1>5. CASE \E f \in Files, text \in Texts \cup {Nil} : WriteFile(f, text)
  <2>1. Unmoved
    BY <1>5 DEF WriteFile, Unmoved
  <2>2. Ahead' = Ahead
    BY <2>1 DEF Unmoved, channels, Ahead
  <2>. QED
    BY <2>1, <2>2
<1>. QED
  BY <1>1, <1>2, <1>3, <1>4, <1>5 DEF PoolNext

(* No order of blocking sends and receives, no panic and no capacity leaves  *)
(* a refresh without a goroutine that can go on (StartWorkers, Feed, Take,   *)
(* Send, CloseResults, Result).                                              *)
THEOREM RefreshNeverStuckHolds == PoolSpec => []RefreshNeverStuck
<1>1. PoolInv => RefreshNeverStuck
  BY NeverStuck DEF PoolInv
<1>. QED
  BY <1>1, PoolInitInv, PoolStepInv, PTL DEF PoolSpec

(* A refresh has finitely many steps: each takes it nearer its end, and a    *)
(* write of another program takes it no further away.                        *)
THEOREM RefreshShrinksHolds == PoolSpec => RefreshShrinks
<1>1. PoolInv /\ PoolInv' /\ [PoolNext]_vars =>
        [phase # "idle" => Ahead' < Ahead \/ (Ahead' = Ahead /\ Unmoved)]_vars
  BY StepShrinks DEF PoolInv
<1>. QED
  BY <1>1, PoolInitInv, PoolStepInv, PTL DEF PoolSpec, RefreshShrinks
=============================================================================
