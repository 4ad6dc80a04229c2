------------------------------ MODULE Archive ------------------------------
(* WAL archiving and point-in-time restore (archive.go, sink.go, restore.go,  *)
(* the incremental backup of backup.go, wal/segment.go, pager/archive.go).    *)
(*                                                                            *)
(* A commit is the set of pages it wrote, in the order of the log; a page's   *)
(* content is the position of the commit that wrote it last, and a commit's   *)
(* time is its position.  Under the pager's lock a commit is captured without *)
(* its version; the change hook adds the version later, after the commit lock *)
(* is gone, to whatever commit is the last durable one by then.  The flush    *)
(* loop and a caller of Flush write batches of captures to the sink, with the *)
(* archiver's lock released during the Put.                                   *)
EXTENDS Integers, SequencesExt, FiniteSetsExt

CONSTANTS
    ArchPages,    \* pages
    MaxBatch,     \* commits one segment holds at most
    Flushers,     \* who flushes: "loop", and "user" when Flush is called
    ArchScenes    \* bounds of what is run: the pages that each commit writes, in
                  \*   the order of the log, who flushes, whether the process may
                  \*   die, archivers started, and Puts that fail

VARIABLES
    alog,   \* the commits: [pages, ver], ver 0 for one that fires no change hook
    hooks,  \* positions of the commits whose change hook has yet to run
    arch,   \* the archiver: [state, pending, lastVer, seq]
    fl,     \* flusher -> [at, n, seg]
    sink,   \* the segments in the sink: [base, end, seq, commits]
    ag      \* history: [start, fails, starts, odd], and the bounds in run

avars == <<alog, hooks, arch, fl, sink, ag>>

ASSUME ArchiveAssumption ==
    /\ MaxBatch \in Nat \ {0} /\ "loop" \in Flushers
    /\ \A r \in ArchScenes : /\ r.written \in Seq(SUBSET ArchPages) /\ r.flushers \subseteq Flushers
                             /\ r.crash \in BOOLEAN /\ {r.starts, r.fails} \subseteq Nat

NoSegment == [base |-> 0, end |-> 0, seq |-> 0, commits |-> <<>>]
FlushIdle == [at |-> "idle", n |-> 0, seg |-> NoSegment]
NoArchiver == [state |-> "off", pending |-> <<>>, lastVer |-> 0, seq |-> 0]

version(k) == Cardinality({i \in 1 .. k : alog[i].ver # 0})
dataCommits == version(Len(alog))
stateAt(k) == [p \in ArchPages |-> Max({0} \cup {i \in 1 .. k : p \in alog[i].pages})]

ArchInit ==
    /\ alog = <<>> /\ hooks = {} /\ arch = NoArchiver /\ sink = {}
    /\ fl = [f \in Flushers |-> FlushIdle]
    /\ \E r \in ArchScenes : ag = [start |-> 0, fails |-> 0, starts |-> 0, odd |-> {}, run |-> r]

odd_with(S) == [ag EXCEPT !.odd = @ \cup S]
\* A hook of one of these commits still to run comes too late to find its commit.
late(S) == IF S \cap hooks = {} THEN ag ELSE odd_with({"late"})
captured == {c.pos : c \in ToSet(arch.pending)}

\* A new archiver, on an empty sink or on one an earlier archiver wrote to.
ArchiveWAL(reuse) ==
    /\ arch.state = "off" /\ ag.starts < ag.run.starts
    /\ arch' = [NoArchiver EXCEPT !.state = "on"]
    /\ sink' = IF reuse THEN sink ELSE {}
    /\ ag' = [ag EXCEPT !.start = Len(alog), !.starts = @ + 1,
                        !.odd = IF reuse /\ sink # {} THEN {"reused"} ELSE {}]
    /\ UNCHANGED <<alog, hooks, fl>>

\* Commit under the pager's lock, and observeCommit.  Only a data commit has a hook.
CommitLogged(data) ==
    LET k == Len(alog) + 1
    IN /\ k <= Len(ag.run.written)
       /\ alog' = Append(alog, [pages |-> ag.run.written[k], ver |-> IF data THEN dataCommits + 1 ELSE 0])
       /\ hooks' = IF data THEN hooks \cup {k} ELSE hooks
       /\ arch' = IF arch.state = "on" THEN [arch EXCEPT !.pending = Append(@, [pos |-> k, ver |-> 0])] ELSE arch
       /\ ag' = IF arch.state = "on" THEN late(1 .. Len(alog)) ELSE ag
       /\ UNCHANGED <<fl, sink>>

\* The hook: observeVersion(DurableLSN(), version) on the archiver it finds, if any.
\* It is in time when its commit is still the last one and no segment is built of it.
observeVersion(k) ==
    LET durable == Len(alog)
        pos == {i \in DOMAIN arch.pending : arch.pending[i].pos = durable}
    IN /\ k \in hooks /\ hooks' = hooks \ {k}
       /\ arch' = IF arch.state # "on" THEN arch
                  ELSE [arch EXCEPT !.pending = [i \in DOMAIN @ |-> IF i \in pos THEN [@[i] EXCEPT !.ver = alog[k].ver]
                                                                    ELSE @[i]]]
       /\ UNCHANGED <<alog, fl, sink, ag>>
-----------------------------------------------------------------------------
\* The versions of a batch, the last known one carried over commits without one.
carry(batch, last) ==
    [i \in DOMAIN batch |->
        LET known == {j \in 1 .. i : batch[j].ver # 0}
        IN IF known = {} THEN last ELSE batch[Max(known)].ver]

buildSegment(batch) ==
    LET v == carry(batch, arch.lastVer)
    IN [base |-> arch.lastVer, end |-> Last(v), seq |-> arch.seq,
        commits |-> [i \in DOMAIN batch |-> [pos |-> batch[i].pos, ver |-> v[i]]]]

FlushStart_full(f) ==
    /\ f \in ag.run.flushers /\ fl[f].at = "idle"
    /\ arch.state \in (IF f = "loop" THEN {"on", "stopping"} ELSE {"on"})
    /\ Len(arch.pending) >= MaxBatch
    /\ fl' = [fl EXCEPT ![f].at = "build"]
    /\ UNCHANGED <<alog, hooks, arch, sink, ag>>
\* A tick, a call of Flush, or the last flush of a loop told to stop.
FlushStart(f) ==
    /\ f \in ag.run.flushers /\ fl[f].at = "idle"
    /\ arch.state \in (IF f = "loop" THEN {"on", "stopping"} ELSE {"on"})
    /\ arch.pending # <<>>
    /\ fl' = [fl EXCEPT ![f].at = "build"]
    /\ UNCHANGED <<alog, hooks, arch, sink, ag>>

FlushBuild(f) ==
    /\ fl[f].at = "build"
    /\ IF arch.pending = <<>>
       THEN fl' = [fl EXCEPT ![f] = FlushIdle] /\ UNCHANGED <<arch, ag>>
       ELSE LET n == IF Len(arch.pending) > MaxBatch THEN MaxBatch ELSE Len(arch.pending)
                seg == buildSegment(SubSeq(arch.pending, 1, n))
            IN /\ fl' = [fl EXCEPT ![f] = [at |-> "put", n |-> n, seg |-> seg]]
               /\ arch' = [arch EXCEPT !.lastVer = seg.end, !.seq = @ + 1]
               /\ ag' = IF \E g \in Flushers : fl[g].at # "idle" /\ g # f THEN odd_with({"overlap"})
                         ELSE late({c.pos : c \in ToSet(seg.commits)})
    /\ UNCHANGED <<alog, hooks, sink>>

\* The sink takes the segment, whole, over one of the same name.
Put(f) ==
    /\ fl[f].at = "put"
    /\ LET s == fl[f].seg
       IN sink' = {t \in sink : <<t.base, t.end, t.seq>> # <<s.base, s.end, s.seq>>} \cup {s}
    /\ fl' = [fl EXCEPT ![f].at = "drop"]
    /\ UNCHANGED <<alog, hooks, arch, ag>>

\* The batch stays pending.  A commit without a version that is flushed again is
\* given the version the failed attempt ended with; the last flush of a stopped
\* archiver gives up what is pending.
PutFails(f) ==
    /\ fl[f].at = "put" /\ ag.fails < ag.run.fails
    /\ fl' = [fl EXCEPT ![f] = FlushIdle]
    /\ arch' = IF f = "loop" /\ arch.state = "stopping" THEN [arch EXCEPT !.state = "stopped"] ELSE arch
    /\ ag' = [ag EXCEPT !.fails = @ + 1,
                        !.odd = @ \cup {w \in {"retried"} : \E c \in ToSet(fl[f].seg.commits) : alog[c.pos].ver = 0}
                                  \cup {w \in {"abandoned"} : arch'.state = "stopped"}]
    /\ UNCHANGED <<alog, hooks, sink>>

\* The flushed commits leave pending; while there are more the flusher goes on.
\* Dropping more than there are panics (two flushers of one batch).
FlushDrop(f) ==
    /\ fl[f].at = "drop" /\ fl[f].n <= Len(arch.pending)
    /\ arch' = [arch EXCEPT !.pending = SubSeq(@, fl[f].n + 1, Len(@))]
    /\ fl' = [fl EXCEPT ![f] = [FlushIdle EXCEPT !.at = IF Len(arch.pending) > fl[f].n THEN "build" ELSE "idle"]]
    /\ UNCHANGED <<alog, hooks, sink, ag>>

\* Everything in memory is gone: a panic, a crash, or a database closed and reopened.
Lost ==
    /\ arch' = NoArchiver /\ hooks' = {} /\ fl' = [f \in Flushers |-> FlushIdle]
    /\ ag' = odd_with({"crashed"}) /\ UNCHANGED <<alog, sink>>
FlushPanics(f) == fl[f].at = "drop" /\ fl[f].n > Len(arch.pending) /\ Lost
ArchCrashes == ag.run.crash /\ arch.state # "off" /\ Lost

\* Stop detaches the observer; the loop's last flush follows, and Stop returns.
StopArchiver ==
    /\ arch.state = "on" /\ fl["loop"].at = "idle"
    /\ arch' = [arch EXCEPT !.state = "stopping"]
    /\ ag' = late(captured)
    /\ UNCHANGED <<alog, hooks, fl, sink>>
StopReturns ==
    /\ \A f \in Flushers : fl[f].at = "idle"
    /\ arch.state = "stopped" \/ (arch.state = "stopping" /\ arch.pending = <<>>)
    /\ arch' = NoArchiver
    /\ UNCHANGED <<alog, hooks, fl, sink, ag>>

\* The bounded run is over.
ArchOver ==
    /\ Len(alog) = Len(ag.run.written) /\ hooks = {} /\ arch.state \in {"on", "off"} /\ arch.pending = <<>>
    /\ UNCHANGED avars

ArchNext ==
    \/ \E reuse \in BOOLEAN : ArchiveWAL(reuse)
    \/ \E data \in BOOLEAN : CommitLogged(data)
    \/ \E k \in hooks : observeVersion(k)
    \/ \E f \in Flushers : FlushStart(f) \/ FlushBuild(f) \/ Put(f) \/ PutFails(f) \/ FlushDrop(f) \/ FlushPanics(f)
    \/ StopArchiver \/ StopReturns \/ ArchCrashes \/ ArchOver

\* The loop's ticker fires for ever, and a flusher is a goroutine that runs on.
ArchFairness ==
    /\ WF_avars(FlushStart("loop"))
    /\ \A f \in Flushers : WF_avars(FlushBuild(f)) /\ WF_avars(Put(f)) /\ WF_avars(FlushDrop(f)) /\ WF_avars(FlushPanics(f))

ArchSpec == ArchInit /\ [][ArchNext]_avars /\ ArchFairness
-----------------------------------------------------------------------------
\* restore.go.  Segments are read in the order of their names.

nameBefore(s, t) ==
    \/ s.base < t.base
    \/ s.base = t.base /\ (s.end < t.end \/ (s.end = t.end /\ s.seq < t.seq))
segmentsInOrder == SetToSortSeq(sink, nameBefore)
archived == LET segs == segmentsInOrder IN FlattenSeq([i \in DOMAIN segs |-> segs[i].commits])

\* How many commits are applied before one is past the target; 0 is no target, and
\* a commit without a version takes the one before.
reach_strict(commits, version_, time) ==
    LET v == carry(commits, 0)
        past == {i \in DOMAIN commits : (version_ > 0 /\ v[i] >= version_) \/ (time > 0 /\ commits[i].pos > time)}
    IN IF past = {} THEN Len(commits) ELSE Min(past) - 1
reach(commits, version_, time) ==
    LET v == carry(commits, 0)
        past == {i \in DOMAIN commits : (version_ > 0 /\ v[i] > version_) \/ (time > 0 /\ commits[i].pos > time)}
    IN IF past = {} THEN Len(commits) ELSE Min(past) - 1

applyCommits(image, commits, version_, time) ==
    FoldLeft(LAMBDA img, c : [p \in ArchPages |-> IF p \in alog[c.pos].pages THEN c.pos ELSE img[p]],
             image, SubSeq(commits, 1, reach(commits, version_, time)))

incrementalBackup(commits, since) == SelectSeq(commits, LAMBDA c : c.ver > since)

lastOf(commits) == IF commits = <<>> THEN ag.start ELSE Last(commits).pos
-----------------------------------------------------------------------------
\* Every commit captured since the archiver started is in the sink, once and in
\* the order of the log, or still pending behind those: no crash of a Put, retry,
\* batch limit, restart or stop loses one, repeats one or lets one overtake
\* another (observeCommit, flush, segmentsInOrder).  Exempt: Flush called while the
\* loop is flushing, a sink used before, and hooks that come late.
ArchiveIsLog ==
    ag.odd \subseteq {"crashed", "abandoned", "retried"} =>
        LET all == archived
            waiting == SelectSeq(arch.pending, LAMBDA c : c.pos > lastOf(all))
        IN /\ \A i \in DOMAIN all : all[i].pos = ag.start + i
           /\ \A i \in DOMAIN waiting : waiting[i].pos = lastOf(all) + i

\* A base taken at any moment since the archiver started, with the archive replayed
\* over it up to a version, is the database exactly as it was when that version was
\* the last; replayed up to a time, as it was at that time.  Replaying commits the
\* base already has does no harm (RestoreBase, ApplyWAL, applyCommits).  Exempt:
\* what ArchiveIsLog exempts, and a Put that failed on a commit without a version.
RestoreIsExact ==
    ag.odd \subseteq {"crashed", "abandoned"} =>
        LET all == archived
            last == lastOf(all)
        IN \A b \in ag.start .. last :
              /\ \A v \in Max({1, version(b)}) .. dataCommits :
                    applyCommits(stateAt(b), all, v, 0) = stateAt(Max({i \in ag.start .. last : version(i) <= v}))
              /\ \A t \in Max({1, b}) .. last : applyCommits(stateAt(b), all, 0, t) = stateAt(t)

\* A base and the incremental backup since its version are the database as of the
\* last archived commit.  Exempt: what RestoreIsExact exempts, and a commit without
\* a version right after the base, which the delta leaves out (incrementalBackup,
\* ApplyDelta).
DeltaIsExact ==
    ag.odd \subseteq {"crashed", "abandoned"} =>
        LET all == archived
            last == lastOf(all)
        IN \A b \in ag.start .. last :
              version(b) > 0 /\ (b < last => alog[b + 1].ver # 0)
                 => applyCommits(stateAt(b), incrementalBackup(all, version(b)), 0, 0) = stateAt(last)

\* What has been captured leaves memory, however Puts fail in between (run, flush:
\* "the next tick retries"), also when a caller of Flush takes the same batch as
\* the loop, hooks come late or the sink was used before.  Exempt: the process
\* dies first, or the last Put of a stopped archiver fails.  That it leaves for
\* the sink is ArchiveIsLog.
CapturedAreArchived ==
    (arch.pending # <<>>) ~> (ag.odd \cap {"crashed", "abandoned"} # {} \/ arch.pending = <<>>)

\* The archive is the commit log without a gap, and restoring from it, whole or
\* by increments, to a version or a time, gives that state exactly, with the
\* exemptions that each of the three names.
ArchiveRestores == ArchiveIsLog /\ RestoreIsExact /\ DeltaIsExact
=============================================================================
