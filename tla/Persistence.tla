---------------------------- MODULE Persistence ----------------------------
(* How redis-2.6 keeps its dataset on disk: the append only file with its   *)
(* fsync policies and background rewrites (aof.c, bio.c), the snapshots     *)
(* (rdb.c), the cron that starts and reaps the children that write them     *)
(* (redis.c), and what a restart finds.                                     *)
(*                                                                          *)
(* A dataset is the sequence of the writes that made it, each with its      *)
(* database; the file is a sequence of commands, a prefix of which is on    *)
(* the disk; a rewritten file starts with one command that stands for all   *)
(* those the child wrote.  A FLUSHALL is one more write.                    *)
EXTENDS Integers, Sequences, SequencesExt, FiniteSets, FiniteSetsExt

CONSTANT Shapes    \* the configurations considered, see ShapesAssumption

(* What the environment may do: kill the process, cut the power, make a     *)
(* child or a fork fail, fail the rename of a rewritten file, hand the      *)
(* other child to wait3(), and send a request before the last is answered.  *)
Mishaps == {"kill", "power", "child", "fork", "rename", "wait3", "pipeline"}

ASSUME ShapesAssumption ==
    \A h \in Shapes :
        /\ h.dbs \subseteq Nat /\ 0 \in h.dbs
        /\ h.appendonly \in BOOLEAN                       \* at start
        /\ h.fsync \in {"always", "everysec", "no"}
        /\ h.noFsyncOnRewrite \in BOOLEAN
        /\ h.changes \in Nat                              \* the save point, 0 for none
        /\ h.percentage \in Nat                           \* of automatic rewrites, 0 for none
        /\ h.mishaps \subseteq Mishaps
        /\ h.left \in [{"writes", "flushes", "saves", "rewrites", "configs",
                        "shutdowns", "mishaps"} -> Nat]

VARIABLES
    shape,
    left,       \* what remains of the budgets of shape
    data,       \* the dataset
    acked,      \* the dataset when a client that waits for its replies was last sent one
    told,       \* the dataset when any client was
    dirty,      \* server.dirty
    before,     \* server.dirty_before_bgsave
    status,     \* server.lastbgsave_status
    dump,       \* dump.rdb
    saver,      \* the child of a BGSAVE: at most one record
    orphans,    \* the snapshots of children whose server was killed
    overwritten,\* dump.rdb was last renamed by one of these
    state,      \* server.aof_state
    opened,     \* server.aof_fd # -1
    buf,        \* server.aof_buf
    selected,   \* server.aof_selected_db
    postponed,  \* server.aof_flush_postponed_start # 0
    file,       \* the append only file
    size,       \* server.aof_current_size
    base,       \* server.aof_rewrite_base_size
    jobs,       \* the fsync jobs of bio.c: whether each is for the current file
    rewriter,   \* the child of a rewrite: at most one record
    rwbuf,      \* server.aof_rewrite_buf_blocks
    scheduled,  \* server.aof_rewrite_scheduled
    restart     \* how many restarts there were, and the kind of the last one

rdbvars == <<dirty, before, status, dump, saver, orphans, overwritten>>
replies == <<acked, told>>
logvars == <<buf, postponed, file, size, jobs>>
rewritevars == <<rewriter, rwbuf, scheduled>>
vars == <<shape, left, data, replies, rdbvars, state, opened, selected, base, logvars,
          rewritevars, restart>>

NoDb == -1

Command(op, n, all) == [op |-> op, n |-> n, all |-> all]
Select(db) == Command("select", db, <<>>)

Step(st, cmd) ==
    CASE cmd.op = "select" -> [st EXCEPT !.db = cmd.n]
      [] cmd.op = "write" -> [st EXCEPT !.data = Append(@, <<st.db, cmd.n>>)]
      [] cmd.op = "dataset" -> [data |-> st.data \o cmd.all, db |-> cmd.n]

(* Loading a file runs its commands one by one in a fake client, which      *)
(* starts with database 0.                                                  *)
FakeClient(cmds) ==
    LET st[i \in 0 .. Len(cmds)] ==
            IF i = 0 THEN [data |-> <<>>, db |-> 0] ELSE Step(st[i - 1], cmds[i])
    IN  st[Len(cmds)]

loadAppendOnlyFile(cmds) == FakeClient(cmds).data

(* The commands the child writes for a dataset, one database after another. *)
rewriteAppendOnlyFile(snapshot) ==
    IF snapshot = <<>> THEN <<>>
    ELSE <<Command("dataset", Max({w[1] : w \in ToSet(snapshot)}), snapshot)>>

Child(snapshot) == <<[status |-> "running", snapshot |-> snapshot]>>

Ended(child) == child # <<>> /\ child[1].status # "running"

TypeOK ==
    /\ shape \in Shapes
    /\ dirty \in Nat /\ before \in Nat /\ size \in Nat /\ base \in Nat
    /\ \A d \in {data, acked, told, dump} \cup orphans : d \in Seq(Nat \X Nat)
    /\ status \in {"ok", "err"}
    /\ state \in {"off", "wait_rewrite", "on"}
    /\ state # "off" => opened
    /\ state # "on" => buf = <<>>
    /\ rewriter = <<>> => rwbuf = <<>>
    /\ selected \in shape.dbs \cup {NoDb}
    /\ postponed \in BOOLEAN /\ scheduled \in BOOLEAN /\ overwritten \in BOOLEAN
    /\ file.synced \in 0 .. Len(file.cmds)
    /\ jobs \in Seq(BOOLEAN)
    /\ \A child \in {saver, rewriter} : Len(child) <= 1

Init ==
    /\ shape \in Shapes
    /\ left = shape.left
    /\ data = <<>> /\ acked = <<>> /\ told = <<>> /\ dump = <<>>
    /\ dirty = 0 /\ before = 0 /\ status = "ok" /\ saver = <<>>
    /\ orphans = {} /\ overwritten = FALSE
    /\ state = IF shape.appendonly THEN "on" ELSE "off"
    /\ opened = shape.appendonly
    /\ buf = <<>> /\ selected = NoDb /\ postponed = FALSE
    /\ file = [cmds |-> <<>>, synced |-> 0]
    /\ size = 0 /\ base = 0 /\ jobs = <<>>
    /\ rewriter = <<>> /\ rwbuf = <<>> /\ scheduled = FALSE
    /\ restart = [n |-> 0, kind |-> "none"]

Spend(budget) ==
    /\ left[budget] > 0
    /\ left' = [left EXCEPT ![budget] = @ - 1]

Mishap(m) == m \in shape.mishaps /\ Spend("mishaps")

----------------------------------------------------------------------------
(* Writes and the append only file                                          *)

(* The command goes to the buffer of the file when the file is on, and to   *)
(* the differences of a running rewrite, after a SELECT when its database   *)
(* is not the last one that was fed.                                        *)
feedAppendOnlyFile(db, cmd) ==
    LET cmds == (IF db # selected THEN <<Select(db)>> ELSE <<>>) \o <<cmd>>
    IN  IF state = "off" THEN UNCHANGED <<selected, buf, rwbuf>>
        ELSE /\ selected' = db
             /\ buf' = IF state = "on" THEN buf \o cmds ELSE buf
             /\ rwbuf' = IF rewriter # <<>> THEN rwbuf \o cmds ELSE rwbuf

(* Writes are refused after a failed save, when the server has save points. *)
WritesRefused == shape.changes > 0 /\ status = "err"

Write ==
    /\ ~WritesRefused
    /\ Spend("writes")
    /\ \E db \in shape.dbs :
          /\ data' = Append(data, <<db, left.writes>>)
          /\ feedAppendOnlyFile(db, Command("write", left.writes, <<>>))
    /\ dirty' = dirty + 1
    /\ UNCHANGED <<shape, replies, before, status, dump, saver, orphans, overwritten, state, opened,
                   postponed, file, size, base, jobs, rewriter, scheduled, restart>>

(* A dump that is complete takes the place of dump.rdb.                     *)
rdbSave(snapshot) == dump' = snapshot /\ overwritten' = FALSE /\ status' = "ok"

(* FLUSHALL kills a child that is still saving and, if there are save       *)
(* points, saves: that clears an error, but not the count of changes.       *)
flushall ==
    /\ ~WritesRefused
    /\ Spend("flushes")
    /\ \E db \in shape.dbs :
          /\ data' = Append(data, <<db, 0>>)
          /\ feedAppendOnlyFile(db, Command("write", 0, <<>>))
    /\ dirty' = dirty + 1
    /\ saver' = [i \in DOMAIN saver |->
                    IF saver[i].status = "running" THEN [saver[i] EXCEPT !.status = "whitelisted"]
                    ELSE saver[i]]
    /\ IF shape.changes > 0 THEN rdbSave(data') ELSE UNCHANGED <<dump, overwritten, status>>
    /\ UNCHANGED <<shape, replies, before, orphans, state, opened, postponed, file, size, base,
                   jobs, rewriter, scheduled, restart>>

Appended(synced) == [cmds |-> file.cmds \o buf, synced |-> synced]
SyncSuspended == shape.noFsyncOnRewrite /\ (rewriter # <<>> \/ saver # <<>>)

(* A mutant: no write is followed by a fsync of its own.                    *)
FlushUnsynced ==
    LET busy == shape.fsync = "everysec" /\ jobs # <<>>
    IN  \/ /\ buf = <<>>
           /\ UNCHANGED logvars
        \/ /\ buf # <<>> /\ busy
           /\ postponed' = TRUE
           /\ UNCHANGED <<buf, file, size, jobs>>
        \/ /\ buf # <<>> /\ (busy => postponed)
           /\ postponed' = FALSE
           /\ buf' = <<>>
           /\ size' = size + Len(buf)
           /\ file' = Appended(file.synced)
           /\ UNCHANGED jobs

(* The buffer is written in one go; under everysec the write is put off     *)
(* while a background fsync runs, for two seconds at most, and a new fsync  *)
(* is asked for when the second has changed since the last one.             *)
flushAppendOnlyFile ==
    LET busy == shape.fsync = "everysec" /\ jobs # <<>>
    IN  \/ /\ buf = <<>>
           /\ UNCHANGED logvars
        \/ /\ buf # <<>> /\ busy
           /\ postponed' = TRUE
           /\ UNCHANGED <<buf, file, size, jobs>>
        \/ /\ buf # <<>> /\ (busy => postponed)
           /\ postponed' = FALSE
           /\ buf' = <<>>
           /\ size' = size + Len(buf)
           /\ file' = Appended(IF shape.fsync = "always" /\ ~SyncSuspended
                               THEN Len(file.cmds) + Len(buf) ELSE file.synced)
           /\ \E newSecond \in BOOLEAN :
                 /\ newSecond => shape.fsync = "everysec" /\ ~SyncSuspended
                 /\ jobs' = IF newSecond /\ ~busy THEN Append(jobs, TRUE) ELSE jobs

(* Before it sleeps the event loop flushes the buffer; the sockets are      *)
(* written after that.                                                      *)
beforeSleep ==
    /\ buf # <<>> \/ acked # data
    /\ flushAppendOnlyFile
    /\ acked' = data /\ told' = data
    /\ UNCHANGED <<shape, left, data, rdbvars, state, opened, selected, base, rewritevars, restart>>

(* A socket with replies left to write is written in the iteration that     *)
(* reads the next request from it, before the event loop sleeps.            *)
aeProcessEvents ==
    /\ "pipeline" \in shape.mishaps
    /\ told # data
    /\ told' = data
    /\ UNCHANGED <<shape, left, data, acked, rdbvars, state, opened, selected, base, logvars,
                   rewritevars, restart>>

(* serverCron() tries again what was put off.                               *)
FlushPostponed ==
    /\ postponed
    /\ flushAppendOnlyFile
    /\ UNCHANGED <<shape, left, data, replies, rdbvars, state, opened, selected, base, rewritevars,
                   restart>>

(* The thread of bio.c has done its first job.                              *)
bioProcessBackgroundJobs ==
    /\ jobs # <<>>
    /\ jobs' = Tail(jobs)
    /\ file' = [file EXCEPT !.synced = IF Head(jobs) THEN Len(file.cmds) ELSE @]
    /\ UNCHANGED <<shape, left, data, replies, rdbvars, state, opened, buf, selected, postponed,
                   size, base, rewritevars, restart>>

----------------------------------------------------------------------------
(* Background rewrites                                                      *)

(* A mutant: the differences go on in the database last selected.           *)
RewriteInSameDb ==
    /\ rewriter' = Child(data)
    /\ scheduled' = FALSE
    /\ UNCHANGED <<rwbuf, selected>>

(* The parent forks; the differences will start with a SELECT.              *)
rewriteAppendOnlyFileBackground ==
    /\ rewriter' = Child(data)
    /\ scheduled' = FALSE
    /\ selected' = NoDb
    /\ UNCHANGED rwbuf

bgrewriteaofCommand ==
    /\ rewriter = <<>>
    /\ Spend("rewrites")
    /\ IF saver # <<>> THEN scheduled' = TRUE /\ UNCHANGED <<rewriter, rwbuf, selected>>
       ELSE rewriteAppendOnlyFileBackground
    /\ UNCHANGED <<shape, data, replies, rdbvars, state, opened, base, logvars, restart>>

(* The cron starts a rewrite that was scheduled or that the growth of the   *)
(* file asks for, whatever the state of the file.                           *)
CronRewrite ==
    /\ rewriter = <<>> /\ saver = <<>>
    /\ \/ scheduled
       \/ /\ shape.percentage > 0 /\ size > 0
          /\ size * 100 >= (100 + shape.percentage) * (IF base = 0 THEN 1 ELSE base)
    /\ rewriteAppendOnlyFileBackground
    /\ UNCHANGED <<shape, left, data, replies, rdbvars, state, opened, base, logvars, restart>>

RewriterEnds ==
    /\ rewriter # <<>> /\ rewriter[1].status = "running"
    /\ \/ rewriter' = [rewriter EXCEPT ![1].status = "done"] /\ UNCHANGED left
       \/ rewriter' = [rewriter EXCEPT ![1].status = "failed"] /\ Mishap("child")
    /\ UNCHANGED <<shape, data, replies, rdbvars, state, opened, selected, base, logvars, rwbuf,
                   scheduled, restart>>

(* A mutant: what the buffer holds is written again to the new file.        *)
SwitchKeepsBuffer ==
    LET cmds == rewriteAppendOnlyFile(rewriter[1].snapshot) \o rwbuf
    IN  /\ file' = [cmds |-> cmds, synced |-> 0]
        /\ state' = IF state = "wait_rewrite" THEN "on" ELSE state
        /\ jobs' = [i \in DOMAIN jobs |-> FALSE]
        /\ selected' = NoDb
        /\ size' = Len(cmds) /\ base' = Len(cmds)
        /\ UNCHANGED buf

(* The differences are appended to the child's file, which takes the place  *)
(* of the old one; what the buffer holds is in it already.                  *)
SwitchFile ==
    LET written == rewriteAppendOnlyFile(rewriter[1].snapshot)
        cmds == written \o rwbuf
        stale == [i \in DOMAIN jobs |-> FALSE]
    IN  /\ file' = [cmds |-> cmds,
                    synced |-> IF opened /\ shape.fsync = "always" THEN Len(cmds) ELSE Len(written)]
        /\ state' = IF state = "wait_rewrite" THEN "on" ELSE state
        /\ IF opened
           THEN /\ jobs' = IF shape.fsync = "everysec" THEN Append(stale, TRUE) ELSE stale
                /\ selected' = NoDb
                /\ size' = Len(cmds) /\ base' = Len(cmds)
                /\ buf' = <<>>
           ELSE jobs' = stale /\ UNCHANGED <<selected, size, base, buf>>

(* A mutant: a failed rewrite is not scheduled again.                       *)
DoneWithoutRetry ==
    /\ Ended(rewriter)
    /\ \/ /\ rewriter[1].status = "done"
          /\ SwitchFile
          /\ UNCHANGED left
       \/ /\ \/ rewriter[1].status = "failed" /\ UNCHANGED left
             \/ rewriter[1].status = "done" /\ Mishap("rename")
          /\ UNCHANGED <<file, state, jobs, selected, size, base, buf>>
    /\ rwbuf' = <<>>
    /\ rewriter' = <<>>
    /\ UNCHANGED <<scheduled, shape, data, replies, rdbvars, opened, postponed, restart>>

(* After a failure the rewrite is scheduled again if the file is waiting    *)
(* for it to be turned on.                                                  *)
backgroundRewriteDoneHandler ==
    /\ Ended(rewriter)
    /\ \/ /\ rewriter[1].status = "done"
          /\ SwitchFile
          /\ UNCHANGED left
       \/ /\ \/ rewriter[1].status = "failed" /\ UNCHANGED left
             \/ rewriter[1].status = "done" /\ Mishap("rename")
          /\ UNCHANGED <<file, state, jobs, selected, size, base, buf>>
    /\ rwbuf' = <<>>
    /\ rewriter' = <<>>
    /\ scheduled' = (scheduled \/ state' = "wait_rewrite")
    /\ UNCHANGED <<shape, data, replies, rdbvars, opened, postponed, restart>>

----------------------------------------------------------------------------
(* CONFIG SET appendonly                                                    *)

(* Everything is written and synced, and a rewrite is killed and reaped; if *)
(* the saving child has ended too, wait3() may take that one instead.       *)
stopAppendOnly ==
    /\ state # "off"
    /\ Spend("configs")
    /\ state' = "off" /\ opened' = FALSE /\ selected' = NoDb
    /\ file' = Appended(Len(file.cmds) + Len(buf))
    /\ size' = size + Len(buf)
    /\ buf' = <<>>
    /\ postponed' = (postponed /\ buf = <<>>)
    /\ jobs' = [i \in DOMAIN jobs |-> FALSE]
    /\ rewriter' = <<>> /\ rwbuf' = <<>>
    /\ saver' = IF rewriter # <<>> /\ Ended(saver) /\ "wait3" \in shape.mishaps
                THEN [saver EXCEPT ![1].status = "reaped"] ELSE saver
    /\ UNCHANGED <<shape, data, replies, dirty, before, status, dump, orphans, overwritten, base,
                   scheduled, restart>>

(* The file is opened and a rewrite started; if there is one already, or    *)
(* the fork fails, the descriptor is closed but keeps its number.           *)
startAppendOnly ==
    /\ state = "off"
    /\ Spend("configs")
    /\ opened' = TRUE
    /\ \/ /\ rewriter = <<>>
          /\ rewriteAppendOnlyFileBackground
          /\ state' = "wait_rewrite"
       \/ /\ rewriter # <<>> \/ "fork" \in shape.mishaps
          /\ UNCHANGED <<state, rewriter, rwbuf, scheduled, selected>>
    /\ UNCHANGED <<shape, data, replies, rdbvars, base, logvars, restart>>

----------------------------------------------------------------------------
(* Snapshots                                                                *)

rdbSaveBackground ==
    /\ before' = dirty
    /\ saver' = Child(data)
    /\ UNCHANGED <<dirty, status, dump, orphans, overwritten>>

ForkFails ==
    /\ Mishap("fork")
    /\ before' = dirty
    /\ status' = "err"
    /\ UNCHANGED <<dirty, dump, saver, orphans, overwritten>>

saveCommand ==
    /\ saver = <<>>
    /\ Spend("saves")
    /\ rdbSave(data)
    /\ dirty' = 0
    /\ UNCHANGED <<shape, data, replies, before, saver, orphans, state, opened, selected, base,
                   logvars, rewritevars, restart>>

bgsaveCommand ==
    /\ saver = <<>> /\ rewriter = <<>>
    /\ Spend("saves")
    /\ rdbSaveBackground
    /\ UNCHANGED <<shape, data, replies, state, opened, selected, base, logvars, rewritevars,
                   restart>>

(* A mutant: there is no second try after an error.                         *)
CronSaveOnce ==
    /\ saver = <<>> /\ rewriter = <<>> /\ status = "ok"
    /\ shape.changes > 0 /\ dirty >= shape.changes
    /\ \/ rdbSaveBackground /\ UNCHANGED left
       \/ ForkFails
    /\ UNCHANGED <<shape, data, replies, state, opened, selected, base, logvars, rewritevars,
                   restart>>

(* A save point is reached: after an error the cron waits before it tries   *)
(* again.                                                                   *)
CronSave ==
    /\ saver = <<>> /\ rewriter = <<>>
    /\ shape.changes > 0 /\ dirty >= shape.changes
    /\ \/ rdbSaveBackground /\ UNCHANGED left
       \/ ForkFails
    /\ UNCHANGED <<shape, data, replies, state, opened, selected, base, logvars, rewritevars,
                   restart>>

SaverEnds ==
    /\ saver # <<>> /\ saver[1].status = "running"
    /\ \/ /\ saver' = [saver EXCEPT ![1].status = "done"]
          /\ dump' = saver[1].snapshot /\ overwritten' = FALSE
          /\ UNCHANGED left
       \/ /\ saver' = [saver EXCEPT ![1].status = "failed"]
          /\ Mishap("child")
          /\ UNCHANGED <<dump, overwritten>>
    /\ UNCHANGED <<shape, data, replies, dirty, before, status, orphans, state, opened, selected,
                   base, logvars, rewritevars, restart>>

(* A mutant: a successful save clears the count of changes.                 *)
DoneClearsDirty ==
    /\ Ended(saver) /\ saver[1].status # "reaped"
    /\ saver' = <<>>
    /\ dirty' = IF saver[1].status = "done" THEN 0 ELSE dirty
    /\ status' = IF saver[1].status = "failed" THEN "err" ELSE "ok"
    /\ UNCHANGED <<shape, left, data, replies, before, dump, orphans, overwritten, state, opened,
                   selected, base, logvars, rewritevars, restart>>

(* The changes since the fork are those still to be saved.                  *)
backgroundSaveDoneHandler ==
    /\ Ended(saver) /\ saver[1].status # "reaped"
    /\ saver' = <<>>
    /\ dirty' = IF saver[1].status = "done" THEN dirty - before ELSE dirty
    /\ status' = CASE saver[1].status = "done" -> "ok"
                   [] saver[1].status = "failed" -> "err"
                   [] saver[1].status = "whitelisted" -> status
    /\ UNCHANGED <<shape, left, data, replies, before, dump, orphans, overwritten, state, opened,
                   selected, base, logvars, rewritevars, restart>>

----------------------------------------------------------------------------
(* The end of the process and the next start                                *)

(* The server starts from the append only file if its configuration says    *)
(* so, and from dump.rdb otherwise.                                         *)
loadDataFromDisk(kind, cmds, synced, snapshot) ==
    LET loaded == IF shape.appendonly THEN loadAppendOnlyFile(cmds) ELSE snapshot
    IN  /\ restart' = [n |-> restart.n + 1, kind |-> kind]
        /\ data' = loaded /\ acked' = loaded /\ told' = loaded
        /\ dump' = snapshot /\ overwritten' = FALSE
        /\ file' = [cmds |-> cmds, synced |-> synced]
        /\ dirty' = IF shape.appendonly THEN Len(loaded) ELSE 0
        /\ before' = 0 /\ status' = "ok" /\ saver' = <<>>
        /\ state' = IF shape.appendonly THEN "on" ELSE "off"
        /\ opened' = shape.appendonly
        /\ buf' = <<>> /\ selected' = NoDb /\ postponed' = FALSE
        /\ size' = IF shape.appendonly THEN Len(cmds) ELSE 0
        /\ base' = size'
        /\ jobs' = <<>>
        /\ rewriter' = <<>> /\ rwbuf' = <<>> /\ scheduled' = FALSE
        /\ UNCHANGED shape

(* SHUTDOWN kills the children, syncs what has been written of the file,    *)
(* and saves if there are save points and it was not told otherwise.        *)
prepareForShutdown ==
    /\ Spend("shutdowns")
    /\ \E save \in BOOLEAN :
          loadDataFromDisk("shutdown", file.cmds,
                           IF state # "off" THEN Len(file.cmds) ELSE file.synced,
                           IF save THEN data ELSE dump)
    /\ UNCHANGED orphans

(* A child that saves outlives a server that is killed, and the next start  *)
(* knows nothing of it: it renames its dump when it is done, if ever.       *)
Kill ==
    /\ Mishap("kill")
    /\ loadDataFromDisk("kill", file.cmds, file.synced, dump)
    /\ orphans' = orphans \cup {k.snapshot : k \in {j \in ToSet(saver) : j.status = "running"}}

OrphanEnds ==
    /\ \E snapshot \in orphans :
          /\ orphans' = orphans \ {snapshot}
          /\ dump' = snapshot
    /\ overwritten' = TRUE
    /\ UNCHANGED <<shape, left, data, replies, dirty, before, status, saver, state, opened,
                   selected, base, logvars, rewritevars, restart>>

(* What was not synced may or may not be on the disk.                       *)
PowerLoss ==
    /\ Mishap("power")
    /\ \E n \in file.synced .. Len(file.cmds) :
          loadDataFromDisk("power", SubSeq(file.cmds, 1, n), n, dump)
    /\ orphans' = {}

Next ==
    \/ Write \/ flushall \/ beforeSleep \/ aeProcessEvents \/ FlushPostponed
    \/ bioProcessBackgroundJobs
    \/ bgrewriteaofCommand \/ CronRewrite \/ RewriterEnds \/ backgroundRewriteDoneHandler
    \/ stopAppendOnly \/ startAppendOnly
    \/ saveCommand \/ bgsaveCommand \/ CronSave \/ SaverEnds \/ backgroundSaveDoneHandler
    \/ prepareForShutdown \/ Kill \/ OrphanEnds \/ PowerLoss

(* The event loop and its cron keep running, the background thread too, and *)
(* the children end.                                                        *)
Fairness ==
    /\ WF_vars(beforeSleep) /\ WF_vars(FlushPostponed) /\ WF_vars(bioProcessBackgroundJobs)
    /\ WF_vars(CronRewrite) /\ WF_vars(RewriterEnds) /\ WF_vars(backgroundRewriteDoneHandler)
    /\ WF_vars(CronSave) /\ WF_vars(SaverEnds) /\ WF_vars(backgroundSaveDoneHandler)

Spec == Init /\ [][Next]_vars /\ Fairness

----------------------------------------------------------------------------
(* Properties                                                               *)

(* While the file is on, the file and the buffer replay to the dataset: a   *)
(* switch to a rewritten file, a postponed write or a change of database    *)
(* loses, repeats or misplaces no write.  (aof.c:229-320, 384-432,          *)
(* 1042-1176)  (And the server is well typed, TypeOK.)                      *)
LogIsData == TypeOK /\ (state = "on" => loadAppendOnlyFile(file.cmds \o buf) = data)

(* What a rewrite will leave, the child's file and the differences, replays *)
(* to the dataset all along, also when the file is about to be turned on.   *)
(* (aof.c:88-126, 955-1003)                                                 *)
RewriteIsData ==
    rewriter # <<>> /\ state # "off" =>
        loadAppendOnlyFile(rewriteAppendOnlyFile(rewriter[1].snapshot) \o rwbuf) = data

(* A server with no unsaved change has its dataset in dump.rdb: the count   *)
(* the save points work with survives FLUSHALL and saves that overlap       *)
(* writes.  A dump that the child of a killed server renames afterwards is  *)
(* another matter, see CleanIsOnDisk.  (A server whose append only file was *)
(* empty starts empty.)  (rdb.c:704-707, 726, 1183-1188; db.c:217-233)      *)
CleanMeansSaved == dirty = 0 => data = dump \/ data = <<>> \/ overwritten

(* What clients that wait for their replies were told survives the end of   *)
(* the process: a crash of it, unless the write was postponed; a power loss *)
(* if every write is synced.  A restart never finds more than there was.    *)
(* What others were told need not survive, see ToldSurvives.                *)
(* (aof.c:211-320)                                                          *)
AckedSurvives ==
    [][restart'.n # restart.n /\ state = "on" /\ shape.appendonly =>
          /\ IsPrefix(data', data)
          /\ restart'.kind # "power" /\ ~postponed => IsPrefix(acked, data')
          /\ restart'.kind = "power" /\ shape.fsync = "always" /\ ~shape.noFsyncOnRewrite =>
                IsPrefix(acked, data')]_vars

(* Refuted: as CleanMeansSaved, also when a server was killed before.       *)
(* (rdb.c:698-703, 728-744)                                                 *)
CleanIsOnDisk == dirty = 0 => data = dump \/ data = <<>>

(* Refuted: if every write is synced, what any client was told survives.    *)
(* (aof.c:220-225; ae.c:375-391)                                            *)
ToldSurvives ==
    [][restart'.n # restart.n /\ state = "on" /\ shape.appendonly
          /\ shape.fsync = "always" /\ ~shape.noFsyncOnRewrite => IsPrefix(told, data')]_vars

(* A server told to turn its file on gets there, whatever saves run at the  *)
(* time and even if a rewrite fails, unless it is told otherwise.           *)
(* (aof.c:190-209, 1172-1175; redis.c:1030-1036)                            *)
TurnsOn == state = "wait_rewrite" ~> state # "wait_rewrite"

(* With a save point of one change, everything ends up saved once the       *)
(* clients are quiet.  (redis.c:1038-1085)                                  *)
ChangesAreSaved == shape.changes = 1 ~> dirty = 0

(* SHUTDOWN loses nothing a client was told: it kills a rewrite because     *)
(* "the AOF we already have may be longer but contains the full dataset     *)
(* anyway".  (redis.c:1874-1885)                                            *)
ShutdownKeepsAcked ==
    [][restart'.n # restart.n /\ restart'.kind = "shutdown" /\ state = "on" =>
          IsPrefix(acked, data')]_vars
=============================================================================
