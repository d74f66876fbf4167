------------------------------ MODULE Execute ------------------------------
(***************************************************************************)
(* The life of a run of Liametahi over one mailbox account: take the task  *)
(* lock, reconcile what a dead run of the same task left open, scan,       *)
(* decide, then execute the matched messages one by one under a key claim  *)
(* (execute.py, with the rows of state.py it reads and writes and the      *)
(* skeleton of runner.py that calls it).                                   *)
(*                                                                         *)
(* SQLite runs in autocommit here, so every UPDATE and INSERT of the       *)
(* claims and of the action attempts is a step of its own: a crash, an     *)
(* interrupt, another run, or another IMAP client can come between any     *)
(* two of them.                                                            *)
(***************************************************************************)
EXTENDS Naturals, Sequences, FiniteSets

CONSTANTS
    Run,        \* run ids; each is used for one invocation of `liametahi run`
    Task,       \* task names
    Lock,       \* lock files: one per (config path, task)
    Key,        \* message keys: (account, mailbox, UIDVALIDITY, UID)
    Msg,        \* fingerprints
    Box,        \* mailboxes, each under one UIDVALIDITY
    TaskOf,     \* the task each run executes
    LockOf,     \* the lock file each run takes
    Holds,      \* the message a key denotes (IMAP never reuses a UID)
    BoxOf,      \* the mailbox and UIDVALIDITY of a key
    Source,     \* per task, the keys of its source mailboxes
    RouteTo,    \* per task, the target of its task: action
    Age,        \* INTERNALDATE, the order in which a run takes its items
    Actions,    \* per task, the action list of its winning rule
    MaxActions, \* per task, `max_actions`; with no cap, at least the number of keys
    DryRun,     \* the runs started with --dry-run
    FailFast,   \* the runs started with --fail-fast
    Faults,     \* what may go wrong, a subset of FaultKind
    NoRun, NoKey

Kind == {"backup", "task", "label", "move"}   \* "move" is trash or move_to
FaultKind == {"crash", "interrupt", "error", "unsupported", "lost_reply", "renumber"}
Slot == UNION {DOMAIN Actions[t] : t \in Task}
Row == Run \X Key \X Slot                     \* (run_id, key, seq)

ASSUME TasksAssumption ==
    /\ TaskOf \in [Run -> Task]
    /\ LockOf \in [Run -> Lock]
    /\ Actions \in [Task -> Seq(Kind)]
    \* config._validate_actions: at most one remote mutation in a list.
    /\ \A t \in Task : \A i, j \in DOMAIN Actions[t] :
          Actions[t][i] \in {"label", "move"} /\ Actions[t][j] \in {"label", "move"}
             => i = j
ASSUME KeysAssumption ==
    /\ Holds \in [Key -> Msg]
    /\ BoxOf \in [Key -> Box]
    /\ Source \in [Task -> SUBSET Key]
    /\ RouteTo \in [Task -> Task]
    /\ Age \in [Key -> Nat]
    /\ NoKey \notin Key
ASSUME RunsAssumption ==
    /\ MaxActions \in [Task -> Nat \ {0}]
    /\ DryRun \subseteq Run
    /\ FailFast \subseteq Run
    /\ Faults \subseteq FaultKind
    /\ NoRun \notin Run

VARIABLES
    server,   \* per key, what the IMAP server has there, or had when it was renumbered
    ended,    \* the mailboxes of Box that have been given another UIDVALIDITY
    cand,     \* the candidates table; a row is superseded once a scan has seen
              \* another UIDVALIDITY in its mailbox
    backups,  \* keys with a committed backup manifest row
    routed,   \* task_routes: (target task, fingerprint)
    claim,    \* key_claims: the run of an unreleased claim, or NoRun
    attempt,  \* action_attempts.state, "none" while there is no such row
    linked,   \* the attempts whose backup_id column is set
    item,     \* result_items.status, "none" while there is no such row
    pc,       \* where each run is
    key,      \* the key it works on
    seq,      \* the action it is at, counted from 1
    final,    \* final_status of _run_action_sequence
    plan,     \* the candidates, then the execution items, it has still to take
    taken,    \* actions_done of execute_items
    todo      \* the open rows its reconcile pass has still to close

store == <<cand, backups, routed, claim, attempt, linked, item>>
job == <<key, seq, final, plan, taken, todo>>
vars == <<server, ended, store, pc, job>>

ServerState == {"absent", "present", "flagged", "moved", "gone"}
CandState == {"none", "live", "superseded", "retired"}
AttemptState == {"none", "pending", "in_flight", "completed", "failed",
                 "vanished", "unsupported", "skipped"}
\* "no_match" is whatever else evaluation answers: protected, unsure, failed...
ItemStatus == {"none", "no_match", "restored", "pending", "dry_run", "capped",
               "unsupported", "claimed_by_other_run", "vanished", "changed", "protected"}
Outcome == {"completed", "failed", "vanished", "unsupported"}
\* The program points at which a run holds its current key.
Holding == {"verify", "next", "pending", "in_flight", "checked", "effect", "retire",
            "release", "unwind"}
Live == Holding \cup {"reconcile", "unclaim", "load", "decide", "pick", "finish"}
Location == Live \cup {"idle", "done", "dead"}
----------------------------------------------------------------------------
Current(k) == BoxOf[k] \notin ended
Present(k) == Current(k) /\ server[k] \in {"present", "flagged"}
Acts(r) == Actions[TaskOf[r]]
KindOf(x) == Acts(x[1])[x[3]]
Open(x) == attempt[x] \in {"pending", "in_flight"}
\* The attempt run r is working on.
Cursor(r) == <<r, key[r], seq[r]>>
Oldest(S) == CHOOSE k \in S : \A j \in S : Age[k] <= Age[j]
Goto(r, l) == pc' = [pc EXCEPT ![r] = l]
\* The variables of _execute_one and of what it calls.
ResetItem(r) ==
    /\ key' = [key EXCEPT ![r] = NoKey]
    /\ seq' = [seq EXCEPT ![r] = 0]
    /\ final' = [final EXCEPT ![r] = "completed"]
\* The process is over: the task lock is released, its local state is lost.
End(r, l) ==
    /\ Goto(r, l)
    /\ ResetItem(r)
    /\ plan' = [plan EXCEPT ![r] = {}]
    /\ taken' = [taken EXCEPT ![r] = 0]
    /\ todo' = [todo EXCEPT ![r] = {}]

\* Mutant of PriorMove: the run id is compared the wrong way round.
PriorMoveByItself(r, m) ==
    \E x \in Row : /\ x[1] = r
                   /\ Holds[x[2]] = m
                   /\ x[3] \in DOMAIN Acts(x[1])
                   /\ KindOf(x) = "move"
                   /\ attempt[x] = "completed"

\* A fingerprint with a completed trash or move_to by another run.
PriorMove(r, m) ==
    \E x \in Row : /\ x[1] # r
                   /\ Holds[x[2]] = m
                   /\ x[3] \in DOMAIN Acts(x[1])
                   /\ KindOf(x) = "move"
                   /\ attempt[x] = "completed"

Init ==
    /\ server \in [Key -> {"present", "absent"}]
    /\ \A j, k \in Key : j # k /\ Holds[j] = Holds[k]
          => ~(server[j] = "present" /\ server[k] = "present")
    /\ ended = {}
    /\ cand = [k \in Key |-> "none"]
    /\ backups = {}
    /\ routed = {}
    /\ claim = [k \in Key |-> NoRun]
    /\ attempt = [x \in Row |-> "none"]
    /\ linked = {}
    /\ item = [x \in Run \X Key |-> "none"]
    /\ pc = [r \in Run |-> "idle"]
    /\ key = [r \in Run |-> NoKey]
    /\ seq = [r \in Run |-> 0]
    /\ final = [r \in Run |-> "completed"]
    /\ plan = [r \in Run |-> {}]
    /\ taken = [r \in Run |-> 0]
    /\ todo = [r \in Run |-> {}]
----------------------------------------------------------------------------
(* The run: lock, reconcile, scan, decide.                                 *)

\* Mutants of OpenRowsOf: the rows of every task; only those in flight.
OpenRowsOfAll(t) == {x \in Row : Open(x)}
InFlightRowsOf(t) == {x \in Row : attempt[x] = "in_flight" /\ TaskOf[x[1]] = t}
OpenRowsOf(t) == {x \in Row : Open(x) /\ TaskOf[x[1]] = t}

\* Mutant of LockFree: a lock per run.
LockAlwaysFree(r) == pc[r] = "idle"
LockFree(r) == \A q \in Run : LockOf[q] = LockOf[r] => pc[q] \notin Live

\* The flock is taken, the run row is created and the open attempts of the
\* task are fetched.
Begin(r) ==
    /\ pc[r] = "idle"
    /\ LockFree(r)
    /\ Goto(r, "reconcile")
    /\ todo' = [todo EXCEPT ![r] = OpenRowsOf(TaskOf[r])]
    /\ UNCHANGED <<server, ended, store, key, seq, final, plan, taken>>

\* Another run holds the lock: exit code 5, nothing is written.
Busy(r) ==
    /\ pc[r] = "idle"
    /\ ~LockFree(r)
    /\ Goto(r, "done")
    /\ UNCHANGED <<server, ended, store, job>>

\* Mutants of Verdicts: the mailbox check is read the wrong way round; a doubtful
\* row gets a state the schema does not have.
VerdictsSwapped(x) ==
    IF KindOf(x) = "backup"
    THEN {IF x \in linked /\ x[2] \in backups THEN "completed" ELSE "failed"}
    ELSE {IF Present(x[2]) THEN "completed" ELSE "failed"}
VerdictInDoubt(x) == {IF Present(x[2]) THEN "failed" ELSE "unknown"}

\* What reconcile concludes of an open row: a backup is complete when the row
\* links to a manifest, any other action when the mailbox has no message with
\* its UID. The UIDVALIDITY is not compared: in a renumbered mailbox the UID may
\* denote some other message or none, whatever became of the message of the key.
\* A server error counts as failed.
Verdicts(x) ==
    IF KindOf(x) = "backup"
    THEN {IF x \in linked /\ x[2] \in backups THEN "completed" ELSE "failed"}
    ELSE {IF Present(x[2]) THEN "failed" ELSE "completed"}
            \cup (IF "error" \in Faults \/ ~Current(x[2]) THEN {"failed"} ELSE {})

CloseRow(r) ==
    /\ pc[r] = "reconcile"
    /\ \E x \in todo[r] : \E v \in Verdicts(x) :
          /\ attempt' = [attempt EXCEPT ![x] = v]
          /\ todo' = [todo EXCEPT ![r] = @ \ {x}]
          /\ key' = [key EXCEPT ![r] = x[2]]
    /\ Goto(r, "unclaim")
    /\ UNCHANGED <<server, ended, cand, backups, routed, claim, linked, item,
                   seq, final, plan, taken>>

\* release_key does not look at who holds the claim.
Unclaim(r) ==
    /\ pc[r] = "unclaim"
    /\ claim' = [claim EXCEPT ![key[r]] = NoRun]
    /\ key' = [key EXCEPT ![r] = NoKey]
    /\ Goto(r, "reconcile")
    /\ UNCHANGED <<server, ended, cand, backups, routed, attempt, linked, item,
                   seq, final, plan, taken, todo>>

\* New messages of the source mailboxes get a candidate row, all of them unless
\* max_new_mails stops the scan.
Scan(r) ==
    /\ pc[r] = "reconcile"
    /\ todo[r] = {}
    /\ \E seen \in SUBSET {k \in Source[TaskOf[r]] : cand[k] = "none" /\ Present(k)} :
          cand' = [k \in Key |->
              CASE k \in seen -> "live"
                [] /\ k \in Source[TaskOf[r]]
                   /\ cand[k] = "live" /\ ~Current(k) -> "superseded"
                [] OTHER -> cand[k]]
    /\ Goto(r, "load")
    /\ UNCHANGED <<server, ended, backups, routed, claim, attempt, linked, item, job>>

\* The candidates of a run: those of its own mailboxes under their current
\* UIDVALIDITY, and those whose fingerprint was routed to its task.
Pool(r) ==
    {k \in Source[TaskOf[r]] : cand[k] = "live"} \cup
    {k \in Key : cand[k] \in {"live", "superseded"} /\ <<TaskOf[r], Holds[k]>> \in routed}

\* The candidates are read once; evaluating them takes minutes.
Load(r) ==
    /\ pc[r] = "load"
    /\ plan' = [plan EXCEPT ![r] = Pool(r)]
    /\ Goto(r, "decide")
    /\ UNCHANGED <<server, ended, store, key, seq, final, taken, todo>>

\* Evaluation matched some of the candidates. Those whose message an earlier
\* run moved away are reported restored and retired, the other matched ones are
\* the items to execute.
Decide(r) ==
    /\ pc[r] = "decide"
    /\ \E matched \in SUBSET plan[r] :
          LET restored == {k \in matched : PriorMove(r, Holds[k])}
          IN  /\ cand' = [k \in Key |-> IF k \in restored THEN "retired" ELSE cand[k]]
              /\ item' = [x \in Run \X Key |->
                    CASE x[1] = r /\ x[2] \in restored -> "restored"
                      [] x[1] = r /\ x[2] \in plan[r] \ matched -> "no_match"
                      [] OTHER -> item[x]]
              /\ plan' = [plan EXCEPT ![r] = matched \ restored]
    /\ Goto(r, "pick")
    /\ UNCHANGED <<server, ended, backups, routed, claim, attempt, linked,
                   key, seq, final, taken, todo>>
----------------------------------------------------------------------------
(* One item: the cap, the dry run, the claim and the re-verification.      *)

NextKey(r) == Oldest(plan[r])
\* Mutant of Capped: one action too many.
CappedLate(r) == taken[r] > MaxActions[TaskOf[r]]
Capped(r) == taken[r] >= MaxActions[TaskOf[r]]
Take(r, more) ==
    /\ plan' = [plan EXCEPT ![r] = @ \ {NextKey(r)}]
    /\ taken' = [taken EXCEPT ![r] = @ + more]
    /\ UNCHANGED <<seq, final, todo>>

\* Before a dry run starts on its items it sets apart those the server could
\* not serve; the cap, which is at least 1, has not stopped anything yet.
DropUnsupported(r) ==
    /\ "unsupported" \in Faults
    /\ pc[r] = "pick"
    /\ r \in DryRun
    /\ taken[r] = 0
    /\ \E i \in DOMAIN Acts(r) : Acts(r)[i] \in {"label", "move"}
    /\ \E k \in plan[r] :
          /\ item' = [item EXCEPT ![<<r, k>>] = "unsupported"]
          /\ plan' = [plan EXCEPT ![r] = @ \ {k}]
    /\ UNCHANGED <<server, ended, cand, backups, routed, claim, attempt, linked,
                   pc, key, seq, final, taken, todo>>

SkipCapped(r) ==
    /\ pc[r] = "pick"
    /\ plan[r] # {}
    /\ Capped(r)
    /\ item' = [item EXCEPT ![<<r, NextKey(r)>>] = "capped"]
    /\ Take(r, 0)
    /\ UNCHANGED <<server, ended, cand, backups, routed, claim, attempt, linked, pc, key>>

\* A dry run records every action as skipped: no claim, no mailbox call.
Preview(r) ==
    /\ pc[r] = "pick"
    /\ plan[r] # {}
    /\ ~Capped(r)
    /\ r \in DryRun
    /\ item' = [item EXCEPT ![<<r, NextKey(r)>>] = "dry_run"]
    /\ attempt' = [x \in Row |->
          IF x[1] = r /\ x[2] = NextKey(r) /\ x[3] \in DOMAIN Acts(r) THEN "skipped"
          ELSE attempt[x]]
    /\ Take(r, 1)
    /\ UNCHANGED <<server, ended, cand, backups, routed, claim, linked, pc, key>>

\* Mutant of Claim: the claim of another run is overwritten.
ClaimStolen(r) ==
    /\ pc[r] = "pick"
    /\ plan[r] # {}
    /\ ~Capped(r)
    /\ r \notin DryRun
    /\ claim' = [claim EXCEPT ![NextKey(r)] = r]
    /\ Take(r, 1)
    /\ key' = [key EXCEPT ![r] = NextKey(r)]
    /\ Goto(r, "verify")
    /\ UNCHANGED <<server, ended, cand, backups, routed, attempt, linked, item>>

Claim(r) ==
    /\ pc[r] = "pick"
    /\ plan[r] # {}
    /\ ~Capped(r)
    /\ r \notin DryRun
    /\ claim[NextKey(r)] = NoRun
    /\ claim' = [claim EXCEPT ![NextKey(r)] = r]
    /\ Take(r, 1)
    /\ key' = [key EXCEPT ![r] = NextKey(r)]
    /\ Goto(r, "verify")
    /\ UNCHANGED <<server, ended, cand, backups, routed, attempt, linked, item>>

\* Mutant of ClaimRefused: the refused item is passed over without a row.
ClaimRefusedSilently(r) ==
    /\ pc[r] = "pick"
    /\ plan[r] # {}
    /\ ~Capped(r)
    /\ r \notin DryRun
    /\ claim[NextKey(r)] # NoRun
    /\ Take(r, 1)
    /\ UNCHANGED <<server, ended, store, pc, key>>

ClaimRefused(r) ==
    /\ pc[r] = "pick"
    /\ plan[r] # {}
    /\ ~Capped(r)
    /\ r \notin DryRun
    /\ claim[NextKey(r)] # NoRun
    /\ item' = [item EXCEPT ![<<r, NextKey(r)>>] = "claimed_by_other_run"]
    /\ Take(r, 1)
    /\ UNCHANGED <<server, ended, cand, backups, routed, claim, attempt, linked, pc, key>>

\* The message is fetched again under its key: it must still be there, and its
\* fresh flags must not protect it.
VerifyVanished(r) ==
    /\ pc[r] = "verify"
    /\ Current(key[r]) /\ ~Present(key[r])
    /\ item' = [item EXCEPT ![<<r, key[r]>>] = "vanished"]
    /\ Goto(r, "retire")
    /\ UNCHANGED <<server, ended, cand, backups, routed, claim, attempt, linked, job>>

\* The mailbox has another UIDVALIDITY than the key.
VerifyChanged(r) ==
    /\ pc[r] = "verify"
    /\ ~Current(key[r])
    /\ item' = [item EXCEPT ![<<r, key[r]>>] = "changed"]
    /\ Goto(r, "release")
    /\ UNCHANGED <<server, ended, cand, backups, routed, claim, attempt, linked, job>>

VerifyProtected(r) ==
    /\ pc[r] = "verify"
    /\ Current(key[r])
    /\ server[key[r]] = "flagged"
    /\ item' = [item EXCEPT ![<<r, key[r]>>] = "protected"]
    /\ Goto(r, "release")
    /\ UNCHANGED <<server, ended, cand, backups, routed, claim, attempt, linked, job>>

VerifyOk(r) ==
    /\ pc[r] = "verify"
    /\ Current(key[r])
    /\ server[key[r]] = "present"
    /\ item' = [item EXCEPT ![<<r, key[r]>>] = "pending"]
    /\ Goto(r, "next")
    /\ UNCHANGED <<server, ended, cand, backups, routed, claim, attempt, linked, job>>

\* Any other server error leaves _reverify as an exception and ends the run.
VerifyError(r) ==
    /\ "error" \in Faults
    /\ pc[r] = "verify"
    /\ Goto(r, "unwind")
    /\ UNCHANGED <<server, ended, store, job>>
----------------------------------------------------------------------------
(* The action sequence: one attempt row per action, in order.              *)

\* Mutant of Insert: the sequence goes on after a failed action.
InsertRegardless(r) ==
    /\ pc[r] = "next"
    /\ seq[r] + 1 \in DOMAIN Acts(r)
    /\ attempt' = [attempt EXCEPT ![<<r, key[r], seq[r] + 1>>] = "pending"]
    /\ Goto(r, "pending")
    /\ seq' = [seq EXCEPT ![r] = @ + 1]
    /\ UNCHANGED <<server, ended, cand, backups, routed, claim, linked, item,
                   key, final, plan, taken, todo>>

\* The next row of the sequence is inserted, skipped once an action failed.
Insert(r) ==
    /\ pc[r] = "next"
    /\ seq[r] + 1 \in DOMAIN Acts(r)
    /\ LET x == <<r, key[r], seq[r] + 1>>
           ok == final[r] = "completed"
       IN  /\ attempt' = [attempt EXCEPT ![x] = IF ok THEN "pending" ELSE "skipped"]
           /\ Goto(r, IF ok THEN "pending" ELSE "next")
    /\ seq' = [seq EXCEPT ![r] = @ + 1]
    /\ UNCHANGED <<server, ended, cand, backups, routed, claim, linked, item,
                   key, final, plan, taken, todo>>

Start(r) ==
    /\ pc[r] = "pending"
    /\ attempt' = [attempt EXCEPT ![Cursor(r)] = "in_flight"]
    /\ Goto(r, "in_flight")
    /\ UNCHANGED <<server, ended, cand, backups, routed, claim, linked, item, job>>

Ends(r, outcome) ==
    /\ Goto(r, "effect")
    /\ final' = [final EXCEPT ![r] = outcome]
    /\ UNCHANGED <<key, seq, plan, taken, todo>>
Performing(r, kinds) == pc[r] = "in_flight" /\ KindOf(Cursor(r)) \in kinds
\* The existence check has passed, the command itself is still to be sent.
Sending(r, kinds) == pc[r] = "checked" /\ KindOf(Cursor(r)) \in kinds

\* write_verified_backup returned: the manifest row is committed.
DoBackup(r) ==
    /\ Performing(r, {"backup"})
    /\ backups' = backups \cup {key[r]}
    /\ Ends(r, "completed")
    /\ UNCHANGED <<server, ended, cand, routed, claim, attempt, linked, item>>

DoRoute(r) ==
    /\ Performing(r, {"task"})
    /\ routed' = routed \cup {<<RouteTo[TaskOf[r]], Holds[key[r]]>>}
    /\ Ends(r, "completed")
    /\ UNCHANGED <<server, ended, cand, backups, claim, attempt, linked, item>>

\* IMAP answers OK to a command that matches no message, so move and add_keyword
\* search for the UID first.
Exists(r) ==
    /\ Performing(r, {"label", "move"})
    /\ Present(key[r])
    /\ Goto(r, "checked")
    /\ UNCHANGED <<server, ended, store, job>>

\* The message may have gone since the search: the answer is OK all the same.
DoLabel(r) ==
    /\ Sending(r, {"label"})
    /\ Ends(r, "completed")
    /\ UNCHANGED <<server, ended, store>>

\* The flags are not looked at again here.
DoMove(r) ==
    /\ Sending(r, {"move"})
    /\ server' = [server EXCEPT ![key[r]] = IF Present(key[r]) THEN "moved" ELSE @]
    /\ \/ Ends(r, "completed")
       \/ "lost_reply" \in Faults /\ Ends(r, "failed")
    /\ UNCHANGED <<ended, store>>

\* Mutant of MutationVanished: a missing message is waited for.
MutationRetried(r) ==
    /\ Performing(r, {"label", "move"})
    /\ ~Present(key[r])
    /\ UNCHANGED vars

\* The existence check of move and add_keyword finds no message.
MutationVanished(r) ==
    /\ Performing(r, {"label", "move"})
    /\ ~Present(key[r])
    /\ Ends(r, "vanished")
    /\ UNCHANGED <<server, ended, store>>

\* The action is refused before it had an effect.
Refused(r) ==
    /\ "error" \in Faults
    /\ Performing(r, {"backup", "label", "move"}) \/ Sending(r, {"label", "move"})
    /\ Ends(r, "failed")
    /\ UNCHANGED <<server, ended, store>>

\* The server does not advertise what the action needs.
Unsupported(r) ==
    /\ "unsupported" \in Faults
    /\ Performing(r, {"label", "move"})
    /\ Ends(r, "unsupported")
    /\ UNCHANGED <<server, ended, store>>

\* Mutant of Record: any move retires the candidate, also one that failed.
RecordAndRetire(r) ==
    /\ pc[r] = "effect"
    /\ attempt' = [attempt EXCEPT ![Cursor(r)] = final[r]]
    /\ linked' = IF KindOf(Cursor(r)) = "backup" /\ final[r] = "completed"
                 THEN linked \cup {Cursor(r)} ELSE linked
    /\ Goto(r, IF KindOf(Cursor(r)) = "move" THEN "retire" ELSE "next")
    /\ UNCHANGED <<server, ended, cand, backups, routed, claim, item, job>>

\* The outcome is written to the row; a backup row is linked to its manifest.
Record(r) ==
    /\ pc[r] = "effect"
    /\ LET x == Cursor(r)
       IN  /\ attempt' = [attempt EXCEPT ![x] = final[r]]
           /\ linked' = IF KindOf(x) = "backup" /\ final[r] = "completed"
                        THEN linked \cup {x} ELSE linked
           /\ Goto(r, IF \/ final[r] = "vanished"
                         \/ final[r] = "completed" /\ KindOf(x) = "move"
                      THEN "retire" ELSE "next")
    /\ UNCHANGED <<server, ended, cand, backups, routed, claim, item, job>>

\* The candidate of a message that left its key is retired, within the sequence
\* or before it.
Retire(r) ==
    /\ pc[r] = "retire"
    /\ cand' = [cand EXCEPT ![key[r]] = "retired"]
    /\ Goto(r, IF item[<<r, key[r]>>] = "vanished" THEN "release" ELSE "next")
    /\ UNCHANGED <<server, ended, backups, routed, claim, attempt, linked, item, job>>

SequenceDone(r) ==
    /\ pc[r] = "next"
    /\ seq[r] + 1 \notin DOMAIN Acts(r)
    /\ Goto(r, "release")
    /\ UNCHANGED <<server, ended, store, job>>
----------------------------------------------------------------------------
(* The end of an item, of a run, and of a process.                         *)

\* Mutant of Release: without the finally clause the claim stays.
ReleaseForgotten(r) ==
    /\ pc[r] = "release"
    /\ Goto(r, IF final[r] = "failed" /\ r \in FailFast THEN "finish" ELSE "pick")
    /\ ResetItem(r)
    /\ UNCHANGED <<server, ended, store, plan, taken, todo>>

Release(r) ==
    /\ pc[r] = "release"
    /\ claim' = [claim EXCEPT ![key[r]] = NoRun]
    /\ Goto(r, IF final[r] = "failed" /\ r \in FailFast THEN "finish" ELSE "pick")
    /\ ResetItem(r)
    /\ UNCHANGED <<server, ended, cand, backups, routed, attempt, linked, item,
                   plan, taken, todo>>

Finish(r) ==
    /\ \/ pc[r] = "finish"
       \/ pc[r] = "pick" /\ plan[r] = {}
    /\ End(r, "done")
    /\ UNCHANGED <<server, ended, store>>

\* SIGKILL or a power cut.
Crash(r) ==
    /\ "crash" \in Faults
    /\ pc[r] \in Live
    /\ End(r, "dead")
    /\ UNCHANGED <<server, ended, store>>

\* SIGINT or SIGTERM raises KeyboardInterrupt; outside of an item the run ends
\* at once, as it does on any exception of the phases before the execution.
Abort(r) ==
    /\ {"interrupt", "error"} \cap Faults # {}
    /\ pc[r] \in Live \ Holding
    /\ End(r, "done")
    /\ UNCHANGED <<server, ended, store>>

\* Within an item the finally clause of _execute_one runs first, after a signal as
\* after an error of the database, which no handler of the item catches.
Interrupt(r) ==
    /\ "interrupt" \in Faults
    /\ pc[r] \in Holding \ {"unwind"}
    /\ Goto(r, "unwind")
    /\ UNCHANGED <<server, ended, store, job>>

Unwind(r) ==
    /\ pc[r] = "unwind"
    /\ claim' = [claim EXCEPT ![key[r]] = NoRun]
    /\ End(r, "done")
    /\ UNCHANGED <<server, ended, cand, backups, routed, attempt, linked, item>>
----------------------------------------------------------------------------
(* The other clients of the mailbox.                                       *)

\* A message appears under a new key: it is delivered, or put back by its
\* owner after it left the key it had, or its mailbox has been renumbered.
Arrive(k) ==
    /\ Current(k)
    /\ server[k] = "absent"
    /\ \A j \in Key : Holds[j] = Holds[k] => ~Present(j)
    /\ server' = [server EXCEPT ![k] = "present"]
    /\ UNCHANGED <<ended, store, pc, job>>

Flag(k) ==
    /\ Current(k)
    /\ server[k] = "present"
    /\ server' = [server EXCEPT ![k] = "flagged"]
    /\ UNCHANGED <<ended, store, pc, job>>

Unflag(k) ==
    /\ Current(k)
    /\ server[k] = "flagged"
    /\ server' = [server EXCEPT ![k] = "present"]
    /\ UNCHANGED <<ended, store, pc, job>>

Remove(k) ==
    /\ Present(k)
    /\ server' = [server EXCEPT ![k] = "gone"]
    /\ UNCHANGED <<ended, store, pc, job>>

\* The server gives the mailbox a new UIDVALIDITY: all its keys are void, also
\* those whose message has left, and the messages in it get new ones. It may not
\* do so while a run has the mailbox selected.
Renumber(b) ==
    /\ "renumber" \in Faults
    /\ b \notin ended
    /\ \A r \in Run : pc[r] \in Holding \ {"verify"} => BoxOf[key[r]] # b
    /\ ended' = ended \cup {b}
    /\ UNCHANGED <<server, store, pc, job>>
----------------------------------------------------------------------------
Phases(r) == Begin(r) \/ Busy(r) \/ CloseRow(r) \/ Unclaim(r)
                \/ Scan(r) \/ Load(r) \/ Decide(r)
Pick(r) == SkipCapped(r) \/ Preview(r) \/ Claim(r) \/ ClaimRefused(r)
Verify(r) == VerifyVanished(r) \/ VerifyChanged(r) \/ VerifyProtected(r)
                \/ VerifyOk(r)
Perform(r) == DoBackup(r) \/ DoRoute(r) \/ Exists(r) \/ DoLabel(r) \/ DoMove(r)
                \/ MutationVanished(r)
RunActions(r) == Insert(r) \/ Start(r) \/ Perform(r) \/ Record(r) \/ Retire(r)
                   \/ SequenceDone(r)
\* What the process does by itself, as long as it lives.
Step(r) == Phases(r) \/ Pick(r) \/ Verify(r) \/ RunActions(r)
             \/ Release(r) \/ Finish(r) \/ Unwind(r)
\* What may happen to it, and need not.
Failure(r) == VerifyError(r) \/ Refused(r) \/ Unsupported(r) \/ DropUnsupported(r)
Fault(r) == Failure(r) \/ Crash(r) \/ Abort(r) \/ Interrupt(r)
Others(k) == Arrive(k) \/ Flag(k) \/ Unflag(k) \/ Remove(k)
Environment == (\E k \in Key : Others(k)) \/ \E b \in Box : Renumber(b)

Next == \/ \E r \in Run : Step(r) \/ Fault(r)
        \/ Environment

Spec == Init /\ [][Next]_vars
\* A started process keeps running until it ends or is stopped; a call that may
\* fail need not ever do so.
Working(r) == pc[r] # "idle" /\ Step(r)
FairSpec == Spec /\ \A r \in Run : WF_vars(Working(r))
----------------------------------------------------------------------------
(* What must be true of every run.                                         *)

TypeOK ==
    /\ server \in [Key -> ServerState]
    /\ ended \subseteq Box
    /\ cand \in [Key -> CandState]
    /\ backups \subseteq Key
    /\ routed \subseteq Task \X Msg
    /\ claim \in [Key -> Run \cup {NoRun}]
    /\ attempt \in [Row -> AttemptState]
    /\ linked \subseteq Row
    /\ item \in [Run \X Key -> ItemStatus]
    /\ pc \in [Run -> Location]
    /\ key \in [Run -> Key \cup {NoKey}]
    /\ seq \in [Run -> Nat]
    /\ final \in [Run -> Outcome]
    /\ plan \in [Run -> SUBSET Key]
    /\ taken \in [Run -> Nat]
    /\ todo \in [Run -> SUBSET Row]

\* No two processes work on one message at a time: between its claim_key and
\* its release_key a run is alone with the key, whatever died before it.
ClaimExclusive ==
    \A q, r \in Run :
        q # r /\ pc[q] \in Holding /\ pc[r] \in Holding => key[q] # key[r]

\* An attempt a dead run left open still has its claim, so nobody acts on the
\* message until reconcile has settled what became of the attempt.
OpenRowsAreClaimed == \A x \in Row : Open(x) => claim[x[2]] = x[1]

\* A run that is past its reconcile pass finds no open attempt of an earlier
\* run of its task, at any point of its life.
ReconcileComplete ==
    \A r \in Run : pc[r] \in Live \ {"reconcile", "unclaim"} =>
        \A x \in Row : Open(x) /\ TaskOf[x[1]] = TaskOf[r] => x[1] = r

\* A message leaves its mailbox only after the attempt was recorded and every
\* action listed before the move was recorded as completed, a backup with its
\* manifest committed: whatever is interrupted, nothing moves unrecorded.
MovedHasTrail ==
    \A k \in Key : server[k] = "moved" =>
        \E r \in Run : \E i \in DOMAIN Acts(r) :
            /\ Acts(r)[i] = "move"
            /\ attempt[<<r, k, i>>] \notin {"none", "pending", "skipped"}
            /\ \A j \in 1..(i - 1) :
                  /\ attempt[<<r, k, j>>] = "completed"
                  /\ Acts(r)[j] = "backup" => k \in backups

\* The message of a trash or move_to recorded as completed, by the run or by
\* reconcile, has left its mailbox.
CompletedMoveIsTrue ==
    \A x \in Row : x[3] \in DOMAIN Acts(x[1]) =>
        (KindOf(x) = "move" /\ attempt[x] = "completed" => server[x[2]] \in {"moved", "gone"})

\* A candidate is retired only when its message is gone from the key, or when
\* a run reported it restored: no live message is silently forgotten.
RetiredIsJustified ==
    \A k \in Key : cand[k] = "retired" /\ Present(k) =>
        \E r \in Run : item[<<r, k>>] = "restored"

\* A message that a run moved away and its owner put back is not moved again.
RestoredRespected ==
    \A j, k \in Key :
        j # k /\ Holds[j] = Holds[k] /\ server[j] = "moved" => server[k] # "moved"

\* max_actions bounds the items a run takes up, and only items younger than
\* that many others are capped.
Handled(r) ==
    {k \in Key : item[<<r, k>>] \notin {"none", "no_match", "restored", "unsupported", "capped"}}
CapIsExact ==
    \A r \in Run :
        LET cap == MaxActions[TaskOf[r]]
        IN  /\ Cardinality(Handled(r)) <= cap
            /\ \A k \in Key : item[<<r, k>>] = "capped" =>
                  Cardinality({j \in Handled(r) : Age[j] <= Age[k]}) = cap

\* An attempt that reached a terminal state keeps it: neither its run nor the
\* reconcile pass of a later run rewrites history.
Terminal == AttemptState \ {"none", "pending", "in_flight"}
HistoryIsFinal ==
    [][\A x \in Row : attempt[x] \in Terminal => attempt'[x] = attempt[x]]_vars

\* When a run has reconciled, no claim of an earlier run of its task is left.
NoStaleClaims ==
    \A r \in Run : pc[r] \in Live \ {"reconcile", "unclaim"} =>
        \A k \in Key : claim[k] # NoRun /\ TaskOf[claim[k]] = TaskOf[r] => claim[k] = r

\* A run that nobody stops comes to its end.
RunEnds == \A r \in Run : pc[r] \in Live ~> pc[r] \notin Live

\* Every candidate a run has loaded gets a result row: none is left unanswered,
\* whatever other runs and clients do to it meanwhile.
EveryItemAnswered ==
    \A r \in Run, k \in Key : k \in plan[r] ~> item[<<r, k>>] # "none"

\* The claims as the abstract lock sees them.
Using == [r \in Run |-> IF pc[r] \in Holding THEN key[r] ELSE NoKey]
Dead == {r \in Run : pc[r] = "dead"}
Claims == INSTANCE KeyLock WITH holder <- claim, using <- Using, dead <- Dead

\* The claim protocol implements the abstract lock: a claim is taken only when
\* free and given up only by its holder, or for a holder that is dead.
ImplementsKeyLock == Claims!Spec
=============================================================================
