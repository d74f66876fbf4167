-------------------------------- MODULE Scan --------------------------------
(***************************************************************************)
(* The scan of a task's source mailboxes (imap_adapter.scan), the pool of   *)
(* candidates it leaves (runner._live_candidates, _merge_routed_candidates) *)
(* and the separate fetch of message bodies for evaluation                  *)
(* (runner._fetch_body_texts), for tasks that run again and again over      *)
(* shared mailboxes and one database.                                       *)
(*                                                                         *)
(* Mail arrives, leaves and is flagged meanwhile, and the server may        *)
(* renumber a mailbox; a connection or a process may fail between any two   *)
(* steps.  What a run does with a message is reduced here to one message    *)
(* per run; module Execute has the rest.                                    *)
(***************************************************************************)
EXTENDS Integers, Sequences, FiniteSets

CONSTANTS
    Task, Box, Msg,
    Uid, Validity,  \* the UIDs and UIDVALIDITY values in use: 1..n each
    Sources,        \* per task, its source mailboxes in order
    Cap,            \* per task, max_new_mails; with no cap, at least the number of keys
    RouteTo,        \* per task, the target of its task: action, or itself if it moves mail
    Inbox,          \* the messages of each mailbox at the start, in UID order
    MaxEvents,      \* bound: how often the environment interferes
    NoMsg, NoKey

ASSUME ScanAssumption ==
    /\ Uid = 1..Cardinality(Uid) /\ Uid # {} /\ IsFiniteSet(Uid)
    /\ Validity = 1..Cardinality(Validity) /\ Validity # {} /\ IsFiniteSet(Validity)
    /\ Sources \in [Task -> Seq(Box)]
    /\ Cap \in [Task -> Nat \ {0}]
    /\ RouteTo \in [Task -> Task]
    /\ Inbox \in [Box -> Seq(Msg)]
    /\ \A b \in Box : Len(Inbox[b]) <= Cardinality(Uid)
    /\ NoMsg \notin Msg
    /\ MaxEvents \in Nat

Key == Box \X Validity \X Uid
ASSUME NoKeyAssumption == NoKey \notin Key

VARIABLES
    validity,  \* per mailbox, its UIDVALIDITY on the server
    was,       \* per key, the message it denotes, or NoMsg while unused
    here,      \* the keys whose message is in its mailbox
    flagged,   \* the messages with a protected flag
    events,
    stored,    \* mailbox_state.uidvalidity, 0 while there is no row
    row,       \* per key, the fingerprint of its candidate row, or NoMsg
    rowflag,   \* the rows whose stored flags hold the protected one
    retired,
    routed,    \* task_routes: <<target, fingerprint>>
    pc,
    turn,      \* the index of the mailbox a scan is at
    seen,      \* the UIDVALIDITY its connection reported
    moved,     \* uidvalidity_changed
    fresh,     \* the UIDs to fetch, then those the server answered
    known,     \* the UIDs to refresh, then those the server answered
    lit,       \* the ones of the last answer that had the protected flag
    saved,     \* total_saved
    subject,   \* the candidate the run goes on with
    body       \* the message whose body was fetched for it, or NoMsg

server == <<validity, was, here, flagged>>
tables == <<stored, row, rowflag, retired, routed>>
scanning == <<turn, seen, moved, fresh, known, lit, saved>>
judging == <<subject, body>>
vars == <<server, events, tables, pc, scanning, judging>>

Step == {"select", "note", "search", "fetch", "save", "peek", "mark", "pool", "body", "act"}
Goto(t, l) == pc' = [pc EXCEPT ![t] = l]
At(t) == Sources[t][turn[t]]
KeyAt(t, u) == <<At(t), seen[t], u>>
Current(k) == validity[k[1]] = k[2]
\* RFC 3501, 2.3.1.1: UIDVALIDITY does not change under a selected mailbox; a
\* connection that is behind gets no further answer.
Connected(t) == seen[t] = validity[At(t)]
\* The n smallest elements of S.
Lowest(S, n) == {x \in S : Cardinality({y \in S : y < x}) < n}

Init ==
    /\ validity = [b \in Box |-> 1]
    /\ was = [k \in Key |-> IF k[2] = 1 /\ k[3] <= Len(Inbox[k[1]]) THEN Inbox[k[1]][k[3]] ELSE NoMsg]
    /\ here = {k \in Key : was[k] # NoMsg}
    /\ flagged = {}
    /\ events = 0
    /\ stored = [b \in Box |-> 0]
    /\ row = [k \in Key |-> NoMsg]
    /\ rowflag = {}
    /\ retired = {}
    /\ routed = {}
    /\ pc = [t \in Task |-> "idle"]
    /\ turn = [t \in Task |-> 0]
    /\ seen = [t \in Task |-> 0]
    /\ moved = [t \in Task |-> FALSE]
    /\ fresh = [t \in Task |-> {}]
    /\ known = [t \in Task |-> {}]
    /\ lit = [t \in Task |-> {}]
    /\ saved = [t \in Task |-> 0]
    /\ subject = [t \in Task |-> NoKey]
    /\ body = [t \in Task |-> NoMsg]

\* What a run holds in memory is gone when it ends.
Forget(t) ==
    /\ turn' = [turn EXCEPT ![t] = 0]
    /\ seen' = [seen EXCEPT ![t] = 0]
    /\ moved' = [moved EXCEPT ![t] = FALSE]
    /\ fresh' = [fresh EXCEPT ![t] = {}]
    /\ known' = [known EXCEPT ![t] = {}]
    /\ lit' = [lit EXCEPT ![t] = {}]
    /\ saved' = [saved EXCEPT ![t] = 0]
    /\ subject' = [subject EXCEPT ![t] = NoKey]
    /\ body' = [body EXCEPT ![t] = NoMsg]
----------------------------------------------------------------------------
(* imap_adapter.scan                                                       *)

Start(t) ==
    /\ pc[t] = "idle"
    /\ turn' = [turn EXCEPT ![t] = 1]
    /\ Goto(t, "select")
    /\ UNCHANGED <<server, events, tables, seen, moved, fresh, known, lit, saved, judging>>

\* Mutant of ScanOver: the last mailbox is left out.
ScanOverEarly(t) == turn[t] >= Len(Sources[t]) \/ saved[t] >= Cap[t]
\* The loop over the mailboxes ends early once the cap is used up.
ScanOver(t) == turn[t] > Len(Sources[t]) \/ saved[t] >= Cap[t]

EndScan(t) ==
    /\ pc[t] = "select"
    /\ ScanOver(t)
    /\ Goto(t, "pool")
    /\ UNCHANGED <<server, events, tables, scanning, judging>>

Select(t) ==
    /\ pc[t] = "select"
    /\ ~ScanOver(t)
    /\ seen' = [seen EXCEPT ![t] = validity[At(t)]]
    /\ Goto(t, "note")
    /\ UNCHANGED <<server, events, tables, turn, moved, fresh, known, lit, saved, judging>>

\* The stored UIDVALIDITY is compared and overwritten, and that is committed
\* before anything of the mailbox is read.
Note(t) ==
    /\ pc[t] = "note"
    /\ moved' = [moved EXCEPT ![t] = stored[At(t)] \notin {0, seen[t]}]
    /\ stored' = [stored EXCEPT ![At(t)] = seen[t]]
    /\ Goto(t, "search")
    /\ UNCHANGED <<server, events, row, rowflag, retired, routed, turn, seen, fresh, known, lit, saved, judging>>

\* Mutants of Cut: the cap is left to the saving; the newest are taken first.
CutLater(t, S) == S
CutNewest(t, S) == {x \in S : Cardinality({y \in S : y > x}) < Cap[t] - saved[t]}
\* The cap is applied before the fetch, by UID.
Cut(t, S) == Lowest(S, Cap[t] - saved[t])

\* Every UID is to be fetched in a renumbered mailbox, otherwise those without a
\* row; the ones with a row get their flags refreshed.
Search(t) ==
    /\ pc[t] = "search"
    /\ Connected(t)
    /\ LET there == {u \in Uid : KeyAt(t, u) \in here}
           tracked == IF moved[t] THEN {} ELSE {u \in there : row[KeyAt(t, u)] # NoMsg}
       IN  /\ fresh' = [fresh EXCEPT ![t] = Cut(t, there \ tracked)]
           /\ known' = [known EXCEPT ![t] = tracked]
    /\ Goto(t, "fetch")
    /\ UNCHANGED <<server, events, tables, turn, seen, moved, lit, saved, judging>>

\* What the server answers of a fetch of the UIDs S.
Answered(t, S) == {u \in S : KeyAt(t, u) \in here}

\* Metadata of the new ones, outside any transaction; what was expunged since
\* the search is not answered.
Fetch(t) ==
    /\ pc[t] = "fetch"
    /\ Connected(t)
    /\ fresh' = [fresh EXCEPT ![t] = Answered(t, @)]
    /\ lit' = [lit EXCEPT ![t] = {u \in Answered(t, fresh[t]) : was[KeyAt(t, u)] \in flagged}]
    /\ Goto(t, "save")
    /\ UNCHANGED <<server, events, tables, turn, seen, moved, known, saved, judging>>

\* Mutants of SavedKey and of StillRetired: the key is built before the UIDVALIDITY
\* is known, or from the table; the upsert clears retired_at.
SavedKeyUnset(t, u) == <<At(t), 0, u>>
SavedKeyFromTable(t, u) == <<At(t), stored[At(t)], u>>
RevivedBy(t, K) == retired \ K
SavedKey(t, u) == KeyAt(t, u)
StillRetired(t, K) == retired

\* What the check of the cap within the saving loop, which goes by date, leaves.
Kept(t) ==
    LET room == Cap[t] - saved[t]
    IN  IF Cardinality(fresh[t]) <= room THEN {fresh[t]}
        ELSE {S \in SUBSET fresh[t] : Cardinality(S) = room}

\* One transaction: a row per message fetched. A row that exists is overwritten
\* but stays retired if it was.
Save(t) ==
    /\ pc[t] = "save"
    /\ \E S \in Kept(t) :
       LET K == {SavedKey(t, u) : u \in S}
       IN  /\ row' = [k \in Key |-> IF k \in K THEN was[KeyAt(t, k[3])] ELSE row[k]]
           /\ rowflag' = (rowflag \ K) \cup {k \in K : k[3] \in lit[t]}
           /\ retired' = StillRetired(t, K)
           /\ saved' = [saved EXCEPT ![t] = @ + Cardinality(S)]
    /\ fresh' = [fresh EXCEPT ![t] = {}]
    /\ lit' = [lit EXCEPT ![t] = {}]
    /\ Goto(t, "peek")
    /\ UNCHANGED <<server, events, stored, routed, turn, seen, moved, known, judging>>

\* Flags of the messages that have a row, again outside the transaction.
Peek(t) ==
    /\ pc[t] = "peek"
    /\ Connected(t) \/ known[t] = {}
    /\ known' = [known EXCEPT ![t] = Answered(t, @)]
    /\ lit' = [lit EXCEPT ![t] = {u \in Answered(t, known[t]) : was[KeyAt(t, u)] \in flagged}]
    /\ Goto(t, "mark")
    /\ UNCHANGED <<server, events, tables, turn, seen, moved, fresh, saved, judging>>

\* Mutant of Dimmed: a flag once stored stays.
DimmedNever(t) == {}
Dimmed(t) == known[t] \ lit[t]

\* The answers go into the rows that are not retired.
Mark(t) ==
    /\ pc[t] = "mark"
    /\ LET Rows(S) == {KeyAt(t, u) : u \in S} \ retired
       IN  rowflag' = (rowflag \ Rows(Dimmed(t))) \cup Rows(lit[t])
    /\ known' = [known EXCEPT ![t] = {}]
    /\ lit' = [lit EXCEPT ![t] = {}]
    /\ turn' = [turn EXCEPT ![t] = @ + 1]
    /\ Goto(t, "select")
    /\ UNCHANGED <<server, events, stored, row, retired, routed, seen, moved, fresh, saved, judging>>
----------------------------------------------------------------------------
(* The pool, the body and the decision.                                    *)

LiveRows(t) == {k \in Key : /\ \E i \in DOMAIN Sources[t] : Sources[t][i] = k[1]
                            /\ row[k] # NoMsg
                            /\ stored[k[1]] = k[2]
                            /\ k \notin retired}
\* Rows of a superseded UIDVALIDITY are not left out here.
RoutedRows(t) == {k \in Key : row[k] # NoMsg /\ <<t, row[k]>> \in routed /\ k \notin retired}
Candidates(t) == (LiveRows(t) \cup RoutedRows(t)) \ rowflag

Pool(t) ==
    /\ pc[t] = "pool"
    /\ \E k \in Candidates(t) : subject' = [subject EXCEPT ![t] = k]
    /\ Goto(t, "body")
    /\ UNCHANGED <<server, events, tables, scanning, body>>

\* Nothing left to evaluate, or nothing that matches.
EndRun(t) ==
    /\ pc[t] \in {"pool", "act"}
    /\ Goto(t, "idle")
    /\ Forget(t)
    /\ UNCHANGED <<server, events, tables>>

\* A fresh connection. The UIDVALIDITY it reports is compared with the table,
\* not with the key of the candidate; the message is fetched by its UID.
FetchBody(t) ==
    /\ pc[t] = "body"
    /\ LET b == subject[t][1]
           k == <<b, validity[b], subject[t][3]>>
       IN  body' = [body EXCEPT ![t] =
              IF stored[b] = validity[b] /\ k \in here THEN was[k] ELSE NoMsg]
    /\ Goto(t, "act")
    /\ UNCHANGED <<server, events, tables, scanning, subject>>

\* Mutant of Unmoved: the key is compared with the table.
UnmovedInTable(k) == stored[k[1]] = validity[k[1]] /\ <<k[1], validity[k[1]], k[3]>> \in here
\* _reverify: the mailbox still has the UIDVALIDITY of the key.
Unmoved(k) == Current(k)

\* Re-verification and mutation of a match (_execute_one): a superseded row is
\* left alone, a vanished one retired, a protected one left alone.
Act(t) ==
    /\ pc[t] = "act"
    /\ LET k == subject[t]
           target == <<k[1], validity[k[1]], k[3]>>
       IN  /\ Unmoved(k)
           /\ \/ /\ target \notin here
                 /\ retired' = retired \cup {k}
                 /\ UNCHANGED <<here, routed>>
              \/ /\ target \in here
                 /\ was[target] \notin flagged
                 /\ IF RouteTo[t] = t
                    THEN /\ here' = here \ {target}
                         /\ retired' = retired \cup {k}
                         /\ UNCHANGED routed
                    ELSE /\ routed' = routed \cup {<<RouteTo[t], row[k]>>}
                         /\ UNCHANGED <<here, retired>>
    /\ Goto(t, "idle")
    /\ Forget(t)
    /\ UNCHANGED <<validity, was, flagged, events, stored, row, rowflag>>
----------------------------------------------------------------------------
(* The environment, MaxEvents times in all.                                *)

Event == events < MaxEvents /\ events' = events + 1
Database == <<tables, pc, scanning, judging>>

\* A kill, a lost connection or a server error: the run is over.
Fail(t) ==
    /\ Event
    /\ pc[t] # "idle"
    /\ Goto(t, "idle")
    /\ Forget(t)
    /\ UNCHANGED <<server, tables>>

\* The connection is behind a renumbering: the next command fails.
Disconnected(t) ==
    /\ pc[t] \in {"search", "fetch", "peek"}
    /\ ~Connected(t)
    /\ Goto(t, "idle")
    /\ Forget(t)
    /\ UNCHANGED <<server, events, tables>>

\* UIDs are assigned in strictly ascending order.
Arrive(b) ==
    /\ Event
    /\ \E m \in Msg, u \in Uid :
          LET k == <<b, validity[b], u>>
          IN  /\ \A j \in here : was[j] # m
              /\ \A v \in Uid : was[<<b, validity[b], v>>] # NoMsg => v < u
              /\ \A v \in Uid : v < u => was[<<b, validity[b], v>>] # NoMsg
              /\ was' = [was EXCEPT ![k] = m]
              /\ here' = here \cup {k}
    /\ UNCHANGED <<validity, flagged, Database>>

Remove ==
    /\ Event
    /\ \E k \in here : here' = here \ {k}
    /\ UNCHANGED <<validity, was, flagged, Database>>

Flag ==
    /\ Event
    /\ \E k \in here : flagged' = IF was[k] \in flagged THEN flagged \ {was[k]}
                                                        ELSE flagged \cup {was[k]}
    /\ UNCHANGED <<validity, was, here, Database>>

\* A new UIDVALIDITY: the messages of the mailbox get new UIDs, in any order.
Renumber(b) ==
    /\ Event
    /\ validity[b] + 1 \in Validity
    /\ LET old == {k \in here : k[1] = b}
           v == validity[b] + 1
       IN  \E place \in [old -> 1..Cardinality(old)] :
              /\ \A j, k \in old : place[j] = place[k] => j = k
              /\ was' = [k \in Key |-> IF \E j \in old : k = <<b, v, place[j]>>
                                       THEN was[CHOOSE j \in old : k = <<b, v, place[j]>>]
                                       ELSE was[k]]
              /\ here' = (here \ old) \cup {<<b, v, place[j]>> : j \in old}
              /\ validity' = [validity EXCEPT ![b] = v]
    /\ UNCHANGED <<flagged, Database>>

Running(t) ==
    \/ Start(t) \/ EndScan(t) \/ Select(t) \/ Note(t) \/ Search(t) \/ Fetch(t) \/ Save(t)
    \/ Peek(t) \/ Mark(t) \/ Pool(t) \/ EndRun(t) \/ FetchBody(t) \/ Act(t) \/ Disconnected(t)
Environment ==
    \/ \E t \in Task : Fail(t)
    \/ \E b \in Box : Arrive(b) \/ Renumber(b)
    \/ Remove
    \/ Flag
Next == (\E t \in Task : Running(t)) \/ Environment

Spec == Init /\ [][Next]_vars
\* A scheduler starts every task again and again, and a started run goes on.
FairSpec == Spec /\ \A t \in Task : WF_vars(Running(t))
----------------------------------------------------------------------------
TypeOK ==
    /\ validity \in [Box -> Validity]
    /\ was \in [Key -> Msg \cup {NoMsg}]
    /\ here \subseteq Key
    /\ flagged \subseteq Msg
    /\ events \in 0..MaxEvents
    /\ stored \in [Box -> Validity \cup {0}]
    /\ row \in [Key -> Msg \cup {NoMsg}]
    /\ rowflag \subseteq Key
    /\ retired \subseteq Key
    /\ routed \subseteq Task \X Msg
    /\ pc \in [Task -> Step \cup {"idle"}]
    /\ turn \in [Task -> Nat]
    /\ seen \in [Task -> Validity \cup {0}]
    /\ moved \in [Task -> BOOLEAN]
    /\ fresh \in [Task -> SUBSET Uid]
    /\ known \in [Task -> SUBSET Uid]
    /\ lit \in [Task -> SUBSET Uid]
    /\ saved \in [Task -> Nat]
    /\ subject \in [Task -> Key \cup {NoKey}]
    /\ body \in [Task -> Msg \cup {NoMsg}]

\* A candidate row describes the message its key denotes, whichever runs and
\* renumberings came between the select, the fetch and the save (scan).
RowsAreTrue == \A k \in Key : row[k] \in {NoMsg, was[k]}

\* A run fetches no more new messages than it may still save, over all its
\* mailboxes together, so the cap cuts by UID and never a second time by date.
FetchBounded == \A t \in Task : pc[t] = "save" => Cardinality(fresh[t]) <= Cap[t] - saved[t]

\* Under a cap, each run starts where the last one stopped: no message that is
\* there is passed over for one with a higher UID.
NoGaps ==
    \A k \in Key : row[k] # NoMsg =>
        \A u \in 1..(k[3] - 1) :
            LET j == <<k[1], k[2], u>>
            IN  j \in here /\ Current(j) => row[j] # NoMsg

\* A row that has been retired is never taken up again, although a scan that
\* was under way may still write its row (upsert_candidate).
RetiredStays == [][retired \subseteq retired']_vars

\* What a run does to a message was decided on the body of that message or on
\* none: although a body may be fetched for a row of a superseded UIDVALIDITY,
\* such a row does not pass the re-verification.
ActsOnOwnBody ==
    [][\A t \in Task : \A k \in here \ here' :
          pc[t] = "act" /\ pc'[t] = "idle" => body[t] \in {was[k], NoMsg}]_vars

Watched == UNION {{Sources[t][i] : i \in DOMAIN Sources[t]} : t \in Task}
\* Once the mailboxes are left alone, every message in one of the source
\* mailboxes gets a row and keeps it, cap, failures and renumberings
\* notwithstanding (scan).
EveryMailSeen == <>[](\A k \in here : k[1] \in Watched => row[k] # NoMsg)

\* Once the mailboxes are left alone, the stored flags of their messages become
\* those of the server, for as long as the rows are live (scan,
\* update_candidate_flags).
FlagsConverge ==
    <>[](\A k \in here : k[1] \in Watched /\ k \notin retired
            => (k \in rowflag <=> was[k] \in flagged))

\* What runner.py says of the body fetch: a mailbox whose UIDVALIDITY moved
\* since the scan has no bodies to offer, so a body is that of its candidate.
BodyIsItsOwn == \A t \in Task : body[t] # NoMsg => body[t] = row[subject[t]]
=============================================================================
