------------------------------ MODULE IndexPool ------------------------------
(***************************************************************************)
(* refreshWorkspace (lsp/workspace.go) opened up: the walk that stats the  *)
(* files and queues jobs, the goroutine that feeds them to the workers,    *)
(* the workers that read and parse, the result loop and the final sweep.   *)
(* Workspace takes the same refresh as one step; here other programs write *)
(* the disk between any two of its steps and a worker may panic.           *)
(*                                                                         *)
(* A worker parses into the tree of the existing document, in place: the   *)
(* document the server holds is Torn from tree.Reset to the end of Parse.  *)
(***************************************************************************)
EXTENDS Naturals, Sequences, FiniteSets

CONSTANTS
    Files,      \* URIs of Lua files
    Walk,       \* the files the walks over all roots meet, in order; a file
                \* under two of the roots is met twice
    Workers,    \* one per GOMAXPROCS
    Texts,      \* contents of a file
    Huge,       \* a content beyond MaxFileSize
    Nil,        \* no content: a missing file, a nil source
    Torn,       \* a tree that is being parsed, or was parsed by two workers
    JobsCap,    \* capacity of the jobs channel
    ResultsCap, \* capacity of the results channel
    MaxTime     \* bound: the disk is written until one of its times is this

ASSUME PoolConstantsOK ==
    /\ Walk \in Seq(Files)
    /\ Huge \in Texts
    /\ Nil \notin Texts /\ Torn \notin Texts /\ Nil # Torn
    /\ JobsCap \in Nat \ {0} /\ ResultsCap \in Nat \ {0}
    /\ Workers # {} /\ IsFiniteSet(Workers)
    /\ MaxTime \in Nat \ {0}

VARIABLES
    disk,     \* [text, time] of each file; a write always gives a new time
    docs,     \* Server.Documents: [src, tree, time], tree = Nil for none
    open,     \* Server.OpenFiles
    active,   \* Server.activeURIs
    phase,    \* the main goroutine: "walk", "drain", "idle"
    walk,     \* what is left of Walk
    pending,  \* pendingJobs not sent yet
    jobs,     \* the jobs channel
    fed,      \* the jobs channel is closed
    worker,   \* each worker's step, with its job and the bytes it read
    results,  \* the results channel
    drained,  \* the results channel is closed
    old,      \* history: what was indexed when the refresh began
    may       \* history: how each file may be indexed when it ends

vars == <<disk, docs, open, active, phase, walk, pending, jobs, fed, worker,
          results, drained, old, may>>
history == <<old, may>>
channels == <<pending, jobs, fed, results, drained>>

NoDoc == [src |-> Nil, tree |-> Nil, time |-> 0]
HasDoc(d) == d.tree # Nil

IndexJob == [file: Files, time: 0..MaxTime, old: BOOLEAN, src: Texts \cup {Nil}]
Idle == [at |-> "idle"]
Unset == [f \in Files |-> {}]
Indexed(text) == IF text = Huge THEN Nil ELSE text
Trees == [f \in Files |-> docs[f].tree]
Stopped(w) == worker[w].at \in {"gone", "crashed"}

PoolInit ==
    /\ disk \in [Files -> [text: Texts \cup {Nil}, time: {1}]]
    /\ docs = [f \in Files |-> NoDoc]
    /\ open = {}
    /\ active = {}
    /\ phase = "idle"
    /\ walk = <<>> /\ pending = <<>> /\ jobs = <<>> /\ results = <<>>
    /\ fed = TRUE /\ drained = TRUE
    /\ worker = [w \in Workers |-> [at |-> "gone"]]
    /\ old = Unset /\ may = Unset

-----------------------------------------------------------------------------
(* The walk, on the main goroutine.                                         *)

StartRefresh ==
    /\ phase = "idle"
    /\ phase' = "walk" /\ walk' = Walk
    /\ active' = {}
    /\ old' = Trees /\ may' = [f \in Files |-> {Indexed(disk[f].text)}]
    /\ pending' = <<>>
    /\ UNCHANGED <<disk, docs, open, jobs, fed, worker, results, drained>>

\* What a write adds to the ways a file may be indexed.
Written(f, text) ==
    IF phase = "idle" THEN may
    ELSE [may EXCEPT ![f] = @ \cup {text, Indexed(text)} \cup
                            (IF text = Nil THEN {old[f]} ELSE {})]

(* One directory entry.  A missing file is not listed, unless it goes      *)
(* between the listing and its stat: then its job has no time.              *)
Skip == UNCHANGED <<active, pending>>

MarkActive(f) == active' = active \cup {f} /\ UNCHANGED pending

Queue(f, time) ==
    /\ pending' = Append(pending, [file |-> f, time |-> time,
                            old |-> HasDoc(docs[f]), src |-> docs[f].src])
    /\ UNCHANGED active

indexWorkspace ==
    /\ phase = "walk" /\ walk # <<>>
    /\ walk' = Tail(walk)
    /\ LET f == Head(walk)
           unmodified == HasDoc(docs[f]) /\ docs[f].time = disk[f].time
       IN  \/ /\ disk[f].text = Nil
              /\ \/ Skip /\ UNCHANGED may
                 \/ f \notin open /\ Queue(f, 0) /\ may' = Written(f, Nil)
           \/ /\ disk[f].text # Nil
              /\ \/ f \in open /\ MarkActive(f)
                 \/ f \notin open /\ disk[f].text = Huge /\ Skip
                 \/ f \notin open /\ disk[f].text # Huge
                    /\ IF unmodified THEN MarkActive(f)
                       ELSE Queue(f, disk[f].time)
              /\ UNCHANGED may
    /\ UNCHANGED <<disk, docs, open, phase, jobs, fed, worker, results, drained, old>>

(* The channels are made and the workers started.                           *)
StartWorkers ==
    /\ phase = "walk" /\ walk = <<>>
    /\ phase' = "drain"
    /\ jobs' = <<>> /\ results' = <<>>
    /\ fed' = FALSE /\ drained' = FALSE
    /\ worker' = [w \in Workers |-> Idle]
    /\ UNCHANGED <<disk, docs, open, active, walk, pending, history>>

-----------------------------------------------------------------------------
(* The feeder: sends while there is room, then closes the channel.          *)
Feed ==
    /\ phase = "drain" /\ ~fed
    /\ \/ /\ pending # <<>> /\ Len(jobs) < JobsCap
          /\ jobs' = Append(jobs, Head(pending))
          /\ pending' = Tail(pending)
          /\ UNCHANGED fed
       \/ /\ pending = <<>>
          /\ fed' = TRUE
          /\ UNCHANGED <<pending, jobs>>
    /\ UNCHANGED <<disk, docs, open, active, phase, walk, worker, results,
                   drained, history>>

-----------------------------------------------------------------------------
(* The workers.                                                             *)
Take(w) ==
    /\ phase = "drain" /\ worker[w].at = "idle"
    /\ IF jobs # <<>>
       THEN /\ worker' = [worker EXCEPT ![w] = [at |-> "read", job |-> Head(jobs)]]
            /\ jobs' = Tail(jobs)
       ELSE /\ fed
            /\ worker' = [worker EXCEPT ![w] = [at |-> "gone"]]
            /\ UNCHANGED jobs
    /\ UNCHANGED <<disk, docs, open, active, phase, walk, pending, fed,
                   results, drained, history>>

Sending(job, kind, text) ==
    [at |-> "send", job |-> job, kind |-> kind, text |-> text]

ReadOutcome(job, text) ==
    CASE text = Nil -> Sending(job, "error", Nil)
      [] text # Nil /\ job.src = text -> Sending(job, "unchanged", text)
      [] OTHER -> [at |-> "parse", job |-> job, text |-> text, raced |-> FALSE]

ParsesInto(w, f) ==
    worker[w].at = "parse" /\ worker[w].job.old /\ worker[w].job.file = f

(* os.ReadFile, the comparison with ExistingSource, and tree.Reset.  Two    *)
(* workers in one tree at a time race.                                      *)
Read(w) ==
    /\ worker[w].at = "read"
    /\ LET job == worker[w].job
           f == job.file
           next == ReadOutcome(job, disk[f].text)
           resets == next.at = "parse" /\ job.old
           rivals == {v \in Workers \ {w} : resets /\ ParsesInto(v, f)}
       IN  /\ worker' = [v \in Workers |->
                 CASE v = w -> IF rivals # {} THEN [next EXCEPT !.raced = TRUE]
                               ELSE next
                   [] v \in rivals -> [worker[v] EXCEPT !.raced = TRUE]
                   [] OTHER -> worker[v]]
           /\ docs' = IF resets
                      THEN [docs EXCEPT ![f].src = disk[f].text, ![f].tree = Torn]
                      ELSE docs
    /\ UNCHANGED <<disk, open, active, phase, walk, channels, history>>

Parse(w) ==
    /\ worker[w].at = "parse"
    /\ LET job == worker[w].job
       IN  /\ worker' = [worker EXCEPT ![w] =
                            Sending(job, "parsed", worker[w].text)]
           /\ IF job.old
              THEN \E tree \in {worker[w].text} \cup
                               (IF worker[w].raced THEN {Torn} ELSE {}) :
                      docs' = [docs EXCEPT ![job.file].tree = tree]
              ELSE UNCHANGED docs
    /\ UNCHANGED <<disk, open, active, phase, walk, channels, history>>

\* Mutant: the worker recovers and tries its job again.
Panic_Retries(w) ==
    /\ worker[w].at = "parse"
    /\ worker' = [worker EXCEPT ![w] = [at |-> "read", job |-> worker[w].job]]
    /\ may' = [f \in Files |-> may[f] \cup {Nil}]
    /\ UNCHANGED <<disk, docs, open, active, phase, walk, channels, old>>

(* A parser panic: the deferred recover ends the worker, its job is lost.   *)
Panic(w) ==
    /\ worker[w].at = "parse"
    /\ worker' = [worker EXCEPT ![w] = [at |-> "crashed"]]
    /\ may' = [f \in Files |-> may[f] \cup {Nil}]
    /\ UNCHANGED <<disk, docs, open, active, phase, walk, channels, old>>

Send(w) ==
    /\ worker[w].at = "send"
    /\ Len(results) < ResultsCap
    /\ results' = Append(results, worker[w])
    /\ worker' = [worker EXCEPT ![w] = Idle]
    /\ UNCHANGED <<disk, docs, open, active, phase, walk, pending, jobs, fed,
                   drained, history>>

WorkersDone == \A w \in Workers : Stopped(w)

CloseResults ==
    /\ phase = "drain" /\ ~drained
    /\ WorkersDone
    /\ drained' = TRUE
    /\ UNCHANGED <<disk, docs, open, active, phase, walk, pending, jobs, fed,
                   worker, results, history>>

-----------------------------------------------------------------------------
(* The result loop and the sweep, on the main goroutine.                    *)

\* Mutant: the time the file has now, not the one the walk saw.
Stamp_Now(d, job) == IF HasDoc(d) THEN [d EXCEPT !.time = disk[job.file].time] ELSE d

Stamp(d, job) ==
    IF job.time # 0 /\ HasDoc(d) THEN [d EXCEPT !.time = job.time] ELSE d

applyResult(d, res) ==
    CASE res.kind = "error" -> d
      [] res.kind = "unchanged" -> Stamp(d, res.job)
      [] res.kind = "parsed" ->
            Stamp(IF res.job.old THEN d
                  ELSE [src |-> res.text, tree |-> res.text, time |-> 0],
                  res.job)

Result ==
    /\ phase = "drain" /\ results # <<>>
    /\ LET res == Head(results)
           f == res.job.file
       IN  /\ active' = active \cup {f}
           /\ docs' = [docs EXCEPT ![f] = applyResult(docs[f], res)]
    /\ results' = Tail(results)
    /\ UNCHANGED <<disk, open, phase, walk, pending, jobs, fed, worker,
                   drained, history>>

\* Mutant: nothing is cleared.
Swept_Nothing == docs

Swept == [f \in Files |-> IF f \in active \cup open THEN docs[f] ELSE NoDoc]

Sweep ==
    /\ phase = "drain" /\ results = <<>> /\ drained
    /\ docs' = Swept
    /\ phase' = "idle"
    /\ old' = Unset /\ may' = Unset
    /\ UNCHANGED <<disk, open, active, walk, channels, worker>>

-----------------------------------------------------------------------------
(* Between refreshes the editor opens and closes documents; a close evicts  *)
(* the sources of closed documents.  The disk changes at any time.          *)
OpenFile(f) ==
    /\ phase = "idle" /\ HasDoc(docs[f]) /\ f \notin open
    /\ open' = open \cup {f}
    /\ UNCHANGED <<disk, docs, active, phase, walk, channels, worker, history>>

CloseFile(f) ==
    /\ phase = "idle" /\ f \in open
    /\ open' = open \ {f}
    /\ docs' = [g \in Files |-> IF g \in open' THEN docs[g]
                                ELSE [docs[g] EXCEPT !.src = Nil]]
    /\ UNCHANGED <<disk, active, phase, walk, channels, worker, history>>

WriteFile(f, text) ==
    /\ \A g \in Files : disk[g].time < MaxTime
    /\ text # disk[f].text
    /\ disk' = [disk EXCEPT ![f] = [text |-> text, time |-> disk[f].time + 1]]
    /\ may' = Written(f, text)
    /\ UNCHANGED <<docs, open, active, phase, walk, channels, worker, old>>

Main == StartRefresh \/ indexWorkspace \/ StartWorkers \/ Result \/ Sweep
Work(w) == Take(w) \/ Read(w) \/ Parse(w) \/ Send(w)

PoolNext ==
    \/ Main \/ Feed \/ CloseResults
    \/ \E w \in Workers : Work(w) \/ Panic(w)
    \/ \E f \in Files : OpenFile(f) \/ CloseFile(f)
    \/ \E f \in Files, text \in Texts \cup {Nil} : WriteFile(f, text)

(* The Go scheduler runs every goroutine that can proceed.                  *)
PoolFairness ==
    /\ WF_vars(indexWorkspace \/ StartWorkers \/ Result \/ Sweep)
    /\ WF_vars(Feed) /\ WF_vars(CloseResults)
    /\ \A w \in Workers : WF_vars(Work(w))

PoolSpec == PoolInit /\ [][PoolNext]_vars /\ PoolFairness

-----------------------------------------------------------------------------
(* The files that the walk meets once.  The two jobs of a file that lies    *)
(* under two roots share one tree, and may leave it torn.                   *)
Single == {f \in Files : Cardinality({i \in DOMAIN Walk : Walk[i] = f}) = 1}

(* The recorded time belongs to the bytes that were parsed, although the    *)
(* file is read long after it was looked at: between refreshes, a closed    *)
(* document that the next refresh would skip as unmodified is current.      *)
SkipIsSafe ==
    phase = "idle" => \A f \in Single :
        HasDoc(docs[f]) /\ docs[f].time = disk[f].time
            => docs[f].tree = disk[f].text /\ docs[f].src \in {Nil, docs[f].tree}

(* The refresh, its writers and its panics implement what Reindex says of   *)
(* them: a whole tree of a text the file had meanwhile, no document lost    *)
(* but to a panic, and none kept of a file that was gone or oversized all   *)
(* along.  Without a write or a panic that is the one result Workspace      *)
(* takes a refresh to have.                                                 *)
Promise == INSTANCE Reindex WITH
    Files <- Single,
    disk  <- [f \in Single |-> disk[f].text],
    index <- [f \in Single |-> IF phase = "idle" THEN Trees[f] ELSE old[f]],
    open  <- open \cap Single,
    busy  <- phase # "idle",
    may   <- [f \in Single |-> may[f]]
ImplementsReindex == Promise!Spec

(* A refresh ends, also when every worker has panicked and the feeder is    *)
(* left blocked on a full channel.                                          *)
RefreshEnds == (phase = "walk") ~> (phase = "idle")
=============================================================================
