--------------------------- MODULE MailboxProofs ---------------------------
(***************************************************************************)
(* What Execute believes of the mailbox is so: the messages it has on       *)
(* record as moved have left, and those it has forgotten are not there --   *)
(* for every fault, and whatever the lock files.                            *)
(***************************************************************************)
EXTENDS ExecuteProofs

\* A message with a candidate row has been on the server, and a server that
\* keeps its numbering has not ended a mailbox.
Seen ==
    /\ \A k \in Key : cand[k] # "none" => server[k] # "absent"
    /\ "renumber" \notin Faults => ended = {}

\* What a run works on, or has worked on, has a candidate row.
Known ==
    /\ \A r \in Run : \A k \in plan[r] : cand[k] # "none"
    /\ \A r \in Run : pc[r] \in Holding => cand[key[r]] # "none"
    /\ \A x \in Row : attempt[x] # "none" => cand[x[2]] # "none"
    /\ \A r \in Run : \A x \in todo[r] : attempt[x] # "none"

\* A run about to retire a candidate, or to write what makes it do so, has seen
\* the message leave.
Leaving(r) ==
    \/ pc[r] = "retire"
    \/ pc[r] = "effect" /\ final[r] = "vanished"
    \/ pc[r] = "effect" /\ final[r] = "completed" /\ KindOf(Cursor(r)) = "move"
LeftIsGone == \A r \in Run : Leaving(r) => ~Present(key[r])

\* A message reported restored is not taken up by the same run.
Undecided == {"idle", "reconcile", "unclaim", "load", "decide"}
RestoredApart ==
    \A r \in Run, k \in Key : item[<<r, k>>] = "restored" =>
        /\ pc[r] \notin Undecided
        /\ k \notin plan[r]
        /\ pc[r] \in Holding => key[r] # k

\* A move on record as completed has left the key.
MovesAreReal ==
    \A x \in Row : x[3] \in DOMAIN Acts(x[1]) /\ KindOf(x) = "move" /\ attempt[x] = "completed"
        => ~Present(x[2])

MailInv ==
    /\ TypeOK
    /\ Located
    /\ Seen
    /\ Known
    /\ LeftIsGone
    /\ RestoredApart
    /\ MovesAreReal
    /\ RetiredIsJustified
----------------------------------------------------------------------------
\* Nothing has been seen or done before any run has started.
LEMMA InitMail == Init => MailInv
<1> SUFFICES ASSUME Init PROVE MailInv
  OBVIOUS
<1>1. TypeOK /\ Located
  BY InitTyped
<1>2. \A x \in Row : attempt[x] = "none" /\ x[2] \in Key
  BY RowParts DEF Init
<1>3. Seen /\ Known /\ LeftIsGone /\ RestoredApart /\ MovesAreReal /\ RetiredIsJustified
  BY <1>2 DEF Init, Seen, Known, LeftIsGone, Leaving, RestoredApart, MovesAreReal,
              RetiredIsJustified, Holding, Undecided
<1> QED
  BY <1>1, <1>3 DEF MailInv

\* The message a run holds has been on the server.
LEMMA HeldIsSeen ==
    ASSUME MailInv, NEW r \in Run, pc[r] \in Holding
    PROVE  key[r] \in Key /\ cand[key[r]] # "none" /\ server[key[r]] # "absent"
  BY DEF MailInv, Located, Known, Seen

\* The rows reconcile has before it are some that were written.
TodoGrows ==
    \A r \in Run : \A x \in todo'[r] : x \in todo[r] \/ attempt[x] # "none"

LEMMA NextTodo ==
    ASSUME TypeOK, [Next]_vars
    PROVE  TodoGrows
<1>1. ASSUME NEW r \in Run, Begin(r) PROVE TodoGrows
  BY <1>1 DEF TodoGrows, Begin, OpenRowsOf, Open, TypeOK
<1>2. ASSUME NEW r \in Run, CloseRow(r) PROVE TodoGrows
  BY <1>2 DEF TodoGrows, CloseRow, TypeOK
<1>3. ASSUME NEW r \in Run, Finish(r) \/ Crash(r) \/ Abort(r) \/ Unwind(r) PROVE TodoGrows
  BY <1>3 DEF TodoGrows, Finish, Crash, Abort, Unwind, End, TypeOK
<1>4. ASSUME NEW r \in Run, Busy(r) \/ Unclaim(r) \/ Scan(r) \/ Load(r) \/ Decide(r) PROVE TodoGrows
  BY <1>4 DEF TodoGrows, Busy, Unclaim, Scan, Load, Decide, job
<1>5. ASSUME NEW r \in Run, Pick(r) \/ DropUnsupported(r) PROVE TodoGrows
  BY <1>5 DEF TodoGrows, Pick, SkipCapped, Preview, Claim, ClaimRefused, DropUnsupported, Take
<1>6. ASSUME NEW r \in Run, Verify(r) \/ VerifyError(r) \/ Interrupt(r) PROVE TodoGrows
  BY <1>6 DEF TodoGrows, Verify, VerifyVanished, VerifyChanged, VerifyProtected, VerifyOk,
              VerifyError, Interrupt, job
<1>7. ASSUME NEW r \in Run, RunActions(r) PROVE TodoGrows
  BY <1>7 DEF TodoGrows, RunActions, Insert, Start, Perform, DoBackup, DoRoute, Exists, DoLabel,
              DoMove, MutationVanished, Record, Retire, SequenceDone, Ends, job
<1>8. ASSUME NEW r \in Run, Refused(r) \/ Unsupported(r) \/ Release(r) PROVE TodoGrows
  BY <1>8 DEF TodoGrows, Refused, Unsupported, Release, Ends
<1>9. ASSUME Environment PROVE TodoGrows
  BY <1>9 DEF TodoGrows, Environment, Others, Arrive, Flag, Unflag, Remove, Renumber, job
<1>10. CASE UNCHANGED vars
  BY <1>10 DEF TodoGrows, vars, job
<1> QED
  BY <1>1, <1>2, <1>3, <1>4, <1>5, <1>6, <1>7, <1>8, <1>9, <1>10
  DEF Next, Step, Fault, Phases, Failure

\* What there is to show of a step of one run: it keeps to its own locals and
\* result rows, moves only what is there, and is right about what it writes.
OwnStep(r) ==
    /\ \A q \in Run : q # r =>
          /\ pc'[q] = pc[q] /\ key'[q] = key[q] /\ seq'[q] = seq[q]
          /\ final'[q] = final[q] /\ plan'[q] = plan[q]
    /\ \A q \in Run, k \in Key : q # r => item'[<<q, k>>] = item[<<q, k>>]

OnServer ==
    /\ ended' = ended
    /\ \A k \in Key : server'[k] = server[k] \/ (Present(k) /\ server'[k] = "moved")

OnCandidates(r) ==
    \A k \in Key :
        /\ cand[k] # "none" => cand'[k] # "none"
        /\ cand'[k] # "none" => cand[k] # "none" \/ Present(k)
        /\ cand'[k] = "retired" =>
              \/ cand[k] = "retired"
              \/ ~Present(k)
              \/ item'[<<r, k>>] = "restored"

OnRows ==
    \A x \in Row : attempt'[x] = attempt[x] \/
        /\ cand[x[2]] # "none" /\ attempt'[x] # "none"
        /\ attempt'[x] = "completed" /\ KindOf(x) = "move" => ~Present(x[2])

OnItems(r) ==
    /\ \A k \in Key : item[<<r, k>>] = "restored" => item'[<<r, k>>] = "restored"
    /\ \A k \in Key : item'[<<r, k>>] = "restored" =>
          /\ pc'[r] \notin Undecided
          /\ k \notin plan'[r]
          /\ pc'[r] \in Holding => key'[r] # k

Takes(r) ==
    /\ \A k \in plan'[r] : cand[k] # "none"
    /\ pc'[r] \in Holding => cand[key'[r]] # "none"

\* Where the process is headed, and that it is not leaving a message behind.
Leaves(r) == Leaving(r)' => ~Present(key[r])' /\ key'[r] \in Key

LEMMA RunMail ==
    ASSUME MailInv, TypeOK', Located', TodoGrows, NEW r \in Run,
           OwnStep(r), OnServer, OnCandidates(r), OnRows, OnItems(r), Takes(r), Leaves(r)
    PROVE  MailInv'
<1> USE DEF OwnStep, OnServer, OnCandidates, OnRows, OnItems, Takes, Leaves
<1> USE RowParts
<1>1. \A k \in Key : (server[k] # "absent" => server'[k] # "absent") /\ (Present(k)' => Present(k))
  BY DEF Present, Current
<1>2. Seen'
  BY <1>1 DEF MailInv, Seen, Present, Current
<1>3. Known'
  <2>1. \A q \in Run : \A k \in plan'[q] : k \in Key
    BY DEF TypeOK
  <2>2. \A q \in Run : \A k \in plan'[q] : cand'[k] # "none"
    <3>1. ASSUME NEW q \in Run, q # r, NEW k \in plan'[q] PROVE cand[k] # "none"
      BY <3>1 DEF MailInv, Known
    <3> QED
      BY <2>1, <3>1
  <2>3. \A q \in Run : pc'[q] \in Holding => cand'[key'[q]] # "none"
    <3> SUFFICES ASSUME NEW q \in Run, pc'[q] \in Holding PROVE cand'[key'[q]] # "none"
      OBVIOUS
    <3>1. key'[q] \in Key
      BY DEF Located
    <3>2. CASE q = r
      BY <3>1, <3>2
    <3>3. CASE q # r
      <4>1. pc[q] \in Holding /\ key'[q] = key[q]
        BY <3>3
      <4>2. cand[key[q]] # "none"
        BY <4>1 DEF MailInv, Known
      <4> QED
        BY <3>1, <4>1, <4>2
    <3> QED
      BY <3>2, <3>3
  <2>4. \A x \in Row : attempt'[x] # "none" => cand'[x[2]] # "none"
    BY DEF MailInv, Known
  <2>5. \A q \in Run : \A x \in todo'[q] : attempt'[x] # "none"
    <3> SUFFICES ASSUME NEW q \in Run, NEW x \in todo'[q] PROVE attempt'[x] # "none"
      OBVIOUS
    <3>1. x \in Row /\ attempt[x] # "none"
      BY DEF TodoGrows, TypeOK, MailInv, Known
    <3> QED
      BY <3>1
  <2> QED
    BY <2>2, <2>3, <2>4, <2>5 DEF Known
<1>4. LeftIsGone'
  <2> SUFFICES ASSUME NEW q \in Run, q # r, Leaving(q)' PROVE ~Present(key[q])'
    BY DEF LeftIsGone
  <2>1. Cursor(q)' = Cursor(q) /\ key'[q] = key[q] /\ KindOf(Cursor(q))' = KindOf(Cursor(q))
    BY DEF Cursor, KindOf, Acts
  <2>2. Leaving(q)
    BY <2>1 DEF Leaving
  <2>3. key[q] \in Key /\ ~Present(key[q])
    BY <2>2 DEF MailInv, LeftIsGone, Located, Leaving, Holding
  <2> QED
    BY <1>1, <2>1, <2>3 DEF Present, Current
<1>5. RestoredApart'
  <2> SUFFICES ASSUME NEW q \in Run, NEW k \in Key, item'[<<q, k>>] = "restored"
               PROVE  /\ pc'[q] \notin Undecided
                      /\ k \notin plan'[q]
                      /\ pc'[q] \in Holding => key'[q] # k
    BY DEF RestoredApart
  <2>1. CASE q = r
    BY <2>1
  <2>2. CASE q # r
    BY <2>2 DEF MailInv, RestoredApart
  <2> QED
    BY <2>1, <2>2
<1>6. MovesAreReal'
  <2> SUFFICES ASSUME NEW x \in Row, x[3] \in DOMAIN Acts(x[1]), KindOf(x) = "move",
                      attempt'[x] = "completed"
               PROVE  ~Present(x[2])'
    BY DEF MovesAreReal, Acts, KindOf
  <2>1. ~Present(x[2])
    BY DEF MailInv, MovesAreReal
  <2> QED
    BY <1>1, <2>1
<1>7. RetiredIsJustified'
  <2> SUFFICES ASSUME NEW k \in Key, cand'[k] = "retired", Present(k)'
               PROVE  \E q \in Run : item'[<<q, k>>] = "restored"
    BY DEF RetiredIsJustified
  <2>1. Present(k)
    BY <1>1
  <2>2. CASE cand[k] = "retired"
    <3>1. PICK q \in Run : item[<<q, k>>] = "restored"
      BY <2>1, <2>2 DEF MailInv, RetiredIsJustified
    <3>2. item'[<<q, k>>] = "restored"
      BY <3>1
    <3> QED
      BY <3>2
  <2>3. CASE cand[k] # "retired"
    BY <2>1, <2>3
  <2> QED
    BY <2>2, <2>3
<1> QED
  BY <1>2, <1>3, <1>4, <1>5, <1>6, <1>7 DEF MailInv
----------------------------------------------------------------------------
\* A step that neither reports an item restored nor retires a candidate nor moves
\* a message, and takes up nothing new.
Plain(r, l) ==
    /\ pc' = [pc EXCEPT ![r] = l]
    /\ UNCHANGED <<server, ended, cand>>
    /\ \A q \in Run : q # r =>
          /\ key'[q] = key[q] /\ seq'[q] = seq[q] /\ final'[q] = final[q] /\ plan'[q] = plan[q]
    /\ \/ plan'[r] \subseteq plan[r]
       \/ pc[r] \in Undecided /\ \A k \in plan'[r] : cand[k] # "none"
    /\ l \in Undecided => pc[r] \in Undecided
    /\ l \in Holding => \/ pc[r] \in Holding /\ key'[r] = key[r]
                        \/ pc[r] = "pick" /\ key'[r] \in plan[r] /\ key'[r] \notin plan'[r]

PlainItems(r) ==
    \A q \in Run, k \in Key :
        \/ item'[<<q, k>>] = item[<<q, k>>]
        \/ /\ q = r /\ item'[<<q, k>>] # "restored"
           /\ k \in plan[r] \/ (pc[r] \in Holding /\ k = key[r])

LEMMA PlainStep ==
    ASSUME MailInv, TypeOK', Located', TodoGrows, NEW r \in Run, NEW l \in Location,
           Plain(r, l), PlainItems(r), OnRows, Leaves(r)
    PROVE  MailInv'
<1> USE DEF Plain, PlainItems
<1>1. pc'[r] = l /\ \A q \in Run : q # r => pc'[q] = pc[q]
  BY DEF MailInv, TypeOK
<1>2. \A k \in Key : item[<<r, k>>] = "restored" => item'[<<r, k>>] = "restored"
  BY DEF MailInv, RestoredApart
<1>3. \A k \in Key : item'[<<r, k>>] = "restored" => item[<<r, k>>] = "restored"
  OBVIOUS
<1>4. ASSUME NEW k \in Key, item'[<<r, k>>] = "restored"
      PROVE  /\ pc'[r] \notin Undecided
             /\ k \notin plan'[r]
             /\ pc'[r] \in Holding => key'[r] # k
  <2>1. /\ pc[r] \notin Undecided
        /\ k \notin plan[r]
        /\ pc[r] \in Holding => key[r] # k
    BY <1>3, <1>4 DEF MailInv, RestoredApart
  <2> QED
    BY <1>1, <2>1
<1>5. OnItems(r)
  BY <1>2, <1>4 DEF OnItems
<1>6. Takes(r)
  BY <1>1 DEF Takes, MailInv, Known
<1>7. OwnStep(r)
  BY <1>1 DEF OwnStep
<1>8. OnServer /\ OnCandidates(r)
  BY DEF OnServer, OnCandidates
<1> QED
  BY <1>5, <1>6, <1>7, <1>8, RunMail

\* A scan records what it finds.
LEMMA ScanMail ==
    ASSUME MailInv, TypeOK', Located', TodoGrows, NEW r \in Run, Scan(r)
    PROVE  MailInv'
<1>1. /\ pc[r] = "reconcile" /\ pc' = [pc EXCEPT ![r] = "load"]
      /\ UNCHANGED <<server, ended, item, attempt, key, seq, final, plan>>
  BY DEF Scan, Goto, job
<1>2. pc'[r] = "load" /\ \A q \in Run : q # r => pc'[q] = pc[q]
  BY <1>1 DEF MailInv, TypeOK
<1>3. \A k \in Key :
        /\ cand[k] # "none" => cand'[k] # "none"
        /\ cand'[k] # "none" => cand[k] # "none" \/ Present(k)
        /\ cand'[k] = "retired" => cand[k] = "retired"
  BY DEF Scan
<1>4. \A k \in Key : item[<<r, k>>] # "restored"
  BY <1>1 DEF MailInv, RestoredApart, Undecided
<1>5. \A k \in plan[r] : cand[k] # "none"
  BY DEF MailInv, Known
<1>6. OwnStep(r) /\ OnServer /\ OnRows /\ Leaves(r)
  BY <1>1, <1>2, <1>3, <1>4, <1>5 DEF OwnStep, OnServer, OnRows, Leaves, Leaving
<1>7. OnCandidates(r) /\ Takes(r)
  BY <1>1, <1>2, <1>3, <1>4, <1>5 DEF OnCandidates, Takes, Holding
<1>8. OnItems(r)
  BY <1>1, <1>2, <1>3, <1>4, <1>5 DEF OnItems, Undecided, Holding
<1> QED
  BY <1>6, <1>7, <1>8, RunMail

\* Of the candidates only those reported restored are retired unseen.
LEMMA DecideMail ==
    ASSUME MailInv, TypeOK', Located', TodoGrows, NEW r \in Run, Decide(r)
    PROVE  MailInv'
<1>1. PICK matched \in SUBSET plan[r] :
        LET restored == {k \in matched : PriorMove(r, Holds[k])}
        IN  /\ cand' = [k \in Key |-> IF k \in restored THEN "retired" ELSE cand[k]]
            /\ item' = [x \in Run \X Key |->
                  CASE x[1] = r /\ x[2] \in restored -> "restored"
                    [] x[1] = r /\ x[2] \in plan[r] \ matched -> "no_match"
                    [] OTHER -> item[x]]
            /\ plan' = [plan EXCEPT ![r] = matched \ restored]
  BY DEF Decide
<1> DEFINE restored == {k \in matched : PriorMove(r, Holds[k])}
<1>2. /\ \A k \in Key : cand'[k] = IF k \in restored THEN "retired" ELSE cand[k]
      /\ \A q \in Run, k \in Key : q # r => item'[<<q, k>>] = item[<<q, k>>]
      /\ \A k \in Key : item'[<<r, k>>] = IF k \in restored THEN "restored"
                                          ELSE IF k \in plan[r] \ matched THEN "no_match"
                                          ELSE item[<<r, k>>]
      /\ plan'[r] = matched \ restored
      /\ \A q \in Run : q # r => plan'[q] = plan[q]
  BY <1>1 DEF MailInv, TypeOK
<1> HIDE DEF restored
<1>3. /\ pc[r] = "decide" /\ pc' = [pc EXCEPT ![r] = "pick"]
      /\ UNCHANGED <<server, ended, attempt, key, seq, final>>
  BY DEF Decide, Goto
<1>4. pc'[r] = "pick" /\ \A q \in Run : q # r => pc'[q] = pc[q]
  BY <1>3 DEF MailInv, TypeOK
<1>5. \A k \in plan[r] : cand[k] # "none"
  BY DEF MailInv, Known
<1>6. restored \subseteq plan[r]
  BY DEF restored
<1>7. \A k \in Key : item[<<r, k>>] # "restored"
  BY <1>3 DEF MailInv, RestoredApart, Undecided
<1>8. \A k \in Key : /\ cand[k] # "none" => cand'[k] # "none"
                     /\ cand'[k] # "none" => cand[k] # "none"
                     /\ cand'[k] = "retired" => cand[k] = "retired" \/ item'[<<r, k>>] = "restored"
  BY <1>2, <1>5, <1>6
<1>9. \A k \in Key : item'[<<r, k>>] = "restored" => k \notin plan'[r]
  BY <1>2, <1>7
<1>10. OwnStep(r) /\ OnServer /\ OnRows /\ Leaves(r)
  BY <1>2, <1>3, <1>4, <1>5, <1>7, <1>8, <1>9 DEF OwnStep, OnServer, OnRows, Leaves, Leaving
<1>11. OnCandidates(r) /\ Takes(r)
  BY <1>2, <1>3, <1>4, <1>5, <1>7, <1>8, <1>9 DEF OnCandidates, Takes, Holding
<1>12. OnItems(r)
  BY <1>2, <1>3, <1>4, <1>5, <1>7, <1>8, <1>9 DEF OnItems, Undecided, Holding
<1> QED
  BY <1>10, <1>11, <1>12, RunMail

\* A candidate is retired when its message has left.
LEMMA RetireMail ==
    ASSUME MailInv, TypeOK', Located', TodoGrows, NEW r \in Run, Retire(r)
    PROVE  MailInv'
<1>1. PICK l \in {"release", "next"} :
        /\ pc[r] = "retire" /\ pc' = [pc EXCEPT ![r] = l]
        /\ cand' = [cand EXCEPT ![key[r]] = "retired"]
        /\ UNCHANGED <<server, ended, item, attempt, key, seq, final, plan>>
  BY DEF Retire, Goto, job
<1>2. pc'[r] = l /\ \A q \in Run : q # r => pc'[q] = pc[q]
  BY <1>1 DEF MailInv, TypeOK
<1>3. key[r] \in Key /\ cand[key[r]] # "none" /\ ~Present(key[r])
  BY <1>1, HeldIsSeen DEF MailInv, LeftIsGone, Leaving, Holding
<1>4. \A k \in Key : cand'[k] = IF k = key[r] THEN "retired" ELSE cand[k]
  BY <1>1 DEF MailInv, TypeOK
<1>5. \A k \in plan[r] : cand[k] # "none"
  BY DEF MailInv, Known
<1>6. \A k \in Key : item[<<r, k>>] = "restored" => k \notin plan[r] /\ key[r] # k
  BY <1>1 DEF MailInv, RestoredApart, Holding
<1>7. OwnStep(r) /\ OnServer /\ OnRows /\ Leaves(r)
  BY <1>1, <1>2, <1>3, <1>4, <1>5, <1>6 DEF OwnStep, OnServer, OnRows, Leaves, Leaving
<1>8. OnCandidates(r) /\ Takes(r)
  BY <1>1, <1>2, <1>3, <1>4, <1>5, <1>6 DEF OnCandidates, Takes, Holding
<1>9. OnItems(r)
  BY <1>1, <1>2, <1>3, <1>4, <1>5, <1>6 DEF OnItems, Undecided, Holding
<1> QED
  BY <1>7, <1>8, <1>9, RunMail

\* A move takes away what is there.
LEMMA MoveMail ==
    ASSUME MailInv, TypeOK', Located', TodoGrows, NEW r \in Run, DoMove(r)
    PROVE  MailInv'
<1>1. /\ pc[r] = "checked" /\ pc' = [pc EXCEPT ![r] = "effect"]
      /\ server' = [server EXCEPT ![key[r]] = IF Present(key[r]) THEN "moved" ELSE @]
      /\ UNCHANGED <<ended, cand, item, attempt, key, seq, plan>>
      /\ \A q \in Run : q # r => final'[q] = final[q]
  BY DEF DoMove, Sending, Ends, Goto, store, MailInv, TypeOK
<1>2. pc'[r] = "effect" /\ \A q \in Run : q # r => pc'[q] = pc[q]
  BY <1>1 DEF MailInv, TypeOK
<1>3. key[r] \in Key /\ cand[key[r]] # "none"
  BY <1>1, HeldIsSeen DEF Holding
<1>4. \A k \in Key : server'[k] = IF k = key[r] /\ Present(k) THEN "moved" ELSE server[k]
  BY <1>1 DEF MailInv, TypeOK
<1>5. ~Present(key[r])'
  BY <1>1, <1>3, <1>4 DEF Present, Current
<1>6. \A k \in plan[r] : cand[k] # "none"
  BY DEF MailInv, Known
<1>7. \A k \in Key : item[<<r, k>>] = "restored" => k \notin plan[r] /\ key[r] # k
  BY <1>1 DEF MailInv, RestoredApart, Holding
<1>8. OwnStep(r) /\ OnServer /\ OnRows /\ Leaves(r)
  BY <1>1, <1>2, <1>3, <1>4, <1>5, <1>6, <1>7 DEF OwnStep, OnServer, OnRows, Leaves, Leaving
<1>9. OnCandidates(r) /\ Takes(r)
  BY <1>1, <1>2, <1>3, <1>4, <1>5, <1>6, <1>7 DEF OnCandidates, Takes, Holding
<1>10. OnItems(r)
  BY <1>1, <1>2, <1>3, <1>4, <1>5, <1>6, <1>7 DEF OnItems, Undecided, Holding
<1> QED
  BY <1>8, <1>9, <1>10, RunMail

\* The other clients may take away what a run has seen, and never put it back
\* under its key.
LEMMA OthersMail ==
    ASSUME MailInv, TypeOK', Located', TodoGrows, UNCHANGED <<cand, item, attempt, pc, key, seq, final, plan>>,
           \A j \in Key : server[j] # "absent" =>
               server'[j] # "absent" /\ (Present(j)' => Present(j)),
           "renumber" \notin Faults => ended' = ended
    PROVE  MailInv'
<1> USE RowParts
<1>1. \A j \in Key : cand[j] # "none" => (Present(j)' => Present(j))
  BY DEF MailInv, Seen
<1>2. Seen'
  BY DEF MailInv, Seen
<1>3. Known' /\ RestoredApart'
  BY DEF MailInv, Known, RestoredApart, TodoGrows
<1>4. LeftIsGone'
  <2> SUFFICES ASSUME NEW r \in Run, Leaving(r)' PROVE ~Present(key[r])'
    BY DEF LeftIsGone
  <2>1. Leaving(r) /\ key'[r] = key[r]
    BY DEF Leaving, Cursor, KindOf, Acts
  <2>2. ~Present(key[r]) /\ key[r] \in Key /\ server[key[r]] # "absent"
    BY <2>1, HeldIsSeen DEF MailInv, LeftIsGone, Leaving, Holding
  <2> QED
    BY <2>1, <2>2 DEF Present, Current
<1>5. MovesAreReal'
  <2> SUFFICES ASSUME NEW x \in Row, x[3] \in DOMAIN Acts(x[1]), KindOf(x) = "move",
                      attempt[x] = "completed"
               PROVE  ~Present(x[2])'
    BY DEF MovesAreReal, Acts, KindOf
  <2>1. ~Present(x[2]) /\ cand[x[2]] # "none"
    BY DEF MailInv, MovesAreReal, Known
  <2> QED
    BY <1>1, <2>1
<1>6. RetiredIsJustified'
  BY <1>1 DEF MailInv, RetiredIsJustified
<1> QED
  BY <1>2, <1>3, <1>4, <1>5, <1>6 DEF MailInv
----------------------------------------------------------------------------
\* Every step keeps the invariant.
LEMMA MailStep ==
    ASSUME MailInv, [Next]_vars
    PROVE  MailInv'
<1> USE RowParts
<1>0. TypeOK' /\ Located' /\ TodoGrows
  BY NextTyped, NextTodo DEF MailInv
<1>1. ASSUME NEW r \in Run, Scan(r) PROVE MailInv'
  BY <1>0, <1>1, ScanMail
<1>2. ASSUME NEW r \in Run, Decide(r) PROVE MailInv'
  BY <1>0, <1>2, DecideMail
<1>3. ASSUME NEW r \in Run, Retire(r) PROVE MailInv'
  BY <1>0, <1>3, RetireMail
<1>4. ASSUME NEW r \in Run, DoMove(r) PROVE MailInv'
  BY <1>0, <1>4, MoveMail
<1>5. ASSUME NEW r \in Run, Begin(r) PROVE MailInv'
  <2>1. /\ pc[r] = "idle" /\ pc' = [pc EXCEPT ![r] = "reconcile"] /\ pc'[r] = "reconcile"
        /\ UNCHANGED <<server, ended, cand, attempt, seq, final, item, key, plan>>
    BY <1>5 DEF Begin, MailInv, TypeOK, Goto, store, job
  <2>2. Plain(r, "reconcile")
    BY <2>1 DEF Plain, Undecided, Holding
  <2>3. PlainItems(r) /\ OnRows
    BY <2>1 DEF PlainItems, OnRows, Holding
  <2>4. Leaves(r)
    BY <2>1 DEF Leaves, Leaving, Present, Current
  <2> QED
    BY <1>0, <2>1, <2>2, <2>3, <2>4, PlainStep DEF Location, Live, Holding
<1>6. ASSUME NEW r \in Run, Busy(r) PROVE MailInv'
  <2>1. /\ pc[r] = "idle" /\ pc' = [pc EXCEPT ![r] = "done"] /\ pc'[r] = "done"
        /\ UNCHANGED <<server, ended, cand, attempt, seq, final, item, key, plan>>
    BY <1>6 DEF Busy, MailInv, TypeOK, Goto, store, job
  <2>2. Plain(r, "done")
    BY <2>1 DEF Plain, Undecided, Holding
  <2>3. PlainItems(r) /\ OnRows
    BY <2>1 DEF PlainItems, OnRows, Holding
  <2>4. Leaves(r)
    BY <2>1 DEF Leaves, Leaving, Present, Current
  <2> QED
    BY <1>0, <2>1, <2>2, <2>3, <2>4, PlainStep DEF Location, Live, Holding
<1>7. ASSUME NEW r \in Run, Unclaim(r) PROVE MailInv'
  <2>1. /\ pc[r] = "unclaim" /\ pc' = [pc EXCEPT ![r] = "reconcile"] /\ pc'[r] = "reconcile"
        /\ UNCHANGED <<server, ended, cand, attempt, seq, final, item, plan>>
        /\ \A q \in Run : q # r => key'[q] = key[q]
    BY <1>7 DEF Unclaim, MailInv, TypeOK, Goto, store, job
  <2>2. Plain(r, "reconcile")
    BY <2>1 DEF Plain, Undecided, Holding
  <2>3. PlainItems(r) /\ OnRows
    BY <2>1 DEF PlainItems, OnRows, Holding
  <2>4. Leaves(r)
    BY <2>1 DEF Leaves, Leaving, Present, Current
  <2> QED
    BY <1>0, <2>1, <2>2, <2>3, <2>4, PlainStep DEF Location, Live, Holding
<1>8. ASSUME NEW r \in Run, SkipCapped(r) PROVE MailInv'
  <2>1. /\ pc[r] = "pick" /\ pc' = [pc EXCEPT ![r] = "pick"] /\ pc'[r] = "pick"
        /\ UNCHANGED <<server, ended, cand, attempt, seq, final, key>>
        /\ plan'[r] \subseteq plan[r] /\ \A q \in Run : q # r => plan'[q] = plan[q]
    BY <1>8 DEF SkipCapped, Take, MailInv, TypeOK, Goto, store, job
  <2>2. \A q \in Run, k \in Key : item'[<<q, k>>] = item[<<q, k>>] \/
          (q = r /\ item'[<<q, k>>] # "restored" /\ k \in plan[r])
    BY <1>8, OldestIsIn DEF SkipCapped, NextKey, MailInv, TypeOK
  <2>3. Plain(r, "pick")
    BY <2>1, <2>2 DEF Plain, Undecided, Holding
  <2>4. PlainItems(r) /\ OnRows
    BY <2>1, <2>2 DEF PlainItems, OnRows, Holding
  <2>5. Leaves(r)
    BY <2>1, <2>2 DEF Leaves, Leaving, Present, Current
  <2> QED
    BY <1>0, <2>1, <2>3, <2>4, <2>5, PlainStep DEF Location, Live, Holding
<1>9. ASSUME NEW r \in Run, ClaimRefused(r) PROVE MailInv'
  <2>1. /\ pc[r] = "pick" /\ pc' = [pc EXCEPT ![r] = "pick"] /\ pc'[r] = "pick"
        /\ UNCHANGED <<server, ended, cand, attempt, seq, final, key>>
        /\ plan'[r] \subseteq plan[r] /\ \A q \in Run : q # r => plan'[q] = plan[q]
    BY <1>9 DEF ClaimRefused, Take, MailInv, TypeOK, Goto, store, job
  <2>2. \A q \in Run, k \in Key : item'[<<q, k>>] = item[<<q, k>>] \/
          (q = r /\ item'[<<q, k>>] # "restored" /\ k \in plan[r])
    BY <1>9, OldestIsIn DEF ClaimRefused, NextKey, MailInv, TypeOK
  <2>3. Plain(r, "pick")
    BY <2>1, <2>2 DEF Plain, Undecided, Holding
  <2>4. PlainItems(r) /\ OnRows
    BY <2>1, <2>2 DEF PlainItems, OnRows, Holding
  <2>5. Leaves(r)
    BY <2>1, <2>2 DEF Leaves, Leaving, Present, Current
  <2> QED
    BY <1>0, <2>1, <2>3, <2>4, <2>5, PlainStep DEF Location, Live, Holding
<1>10. ASSUME NEW r \in Run, DropUnsupported(r) PROVE MailInv'
  <2>1. /\ pc[r] = "pick" /\ pc' = [pc EXCEPT ![r] = "pick"] /\ pc'[r] = "pick"
        /\ UNCHANGED <<server, ended, cand, attempt, seq, final, key>>
        /\ plan'[r] \subseteq plan[r] /\ \A q \in Run : q # r => plan'[q] = plan[q]
    BY <1>10 DEF DropUnsupported, MailInv, TypeOK, Goto, store, job
  <2>2. \A q \in Run, k \in Key : item'[<<q, k>>] = item[<<q, k>>] \/
          (q = r /\ item'[<<q, k>>] # "restored" /\ k \in plan[r])
    BY <1>10 DEF DropUnsupported, MailInv, TypeOK
  <2>3. Plain(r, "pick")
    BY <2>1, <2>2 DEF Plain, Undecided, Holding
  <2>4. PlainItems(r) /\ OnRows
    BY <2>1, <2>2 DEF PlainItems, OnRows, Holding
  <2>5. Leaves(r)
    BY <2>1, <2>2 DEF Leaves, Leaving, Present, Current
  <2> QED
    BY <1>0, <2>1, <2>3, <2>4, <2>5, PlainStep DEF Location, Live, Holding
<1>11. ASSUME NEW r \in Run, VerifyChanged(r) PROVE MailInv'
  <2>1. /\ pc[r] = "verify" /\ pc' = [pc EXCEPT ![r] = "release"] /\ pc'[r] = "release"
        /\ UNCHANGED <<server, ended, cand, attempt, seq, final, key, plan>>
    BY <1>11 DEF VerifyChanged, MailInv, TypeOK, Goto, store, job
  <2>2. \A q \in Run, k \in Key : item'[<<q, k>>] = item[<<q, k>>] \/
          (q = r /\ item'[<<q, k>>] # "restored" /\ k = key[r])
    BY <1>11 DEF VerifyChanged, MailInv, TypeOK
  <2>3. Plain(r, "release")
    BY <2>1, <2>2 DEF Plain, Undecided, Holding
  <2>4. PlainItems(r) /\ OnRows
    BY <2>1, <2>2 DEF PlainItems, OnRows, Holding
  <2>5. Leaves(r)
    BY <2>1, <2>2 DEF Leaves, Leaving, Present, Current
  <2> QED
    BY <1>0, <2>1, <2>3, <2>4, <2>5, PlainStep DEF Location, Live, Holding
<1>12. ASSUME NEW r \in Run, VerifyProtected(r) PROVE MailInv'
  <2>1. /\ pc[r] = "verify" /\ pc' = [pc EXCEPT ![r] = "release"] /\ pc'[r] = "release"
        /\ UNCHANGED <<server, ended, cand, attempt, seq, final, key, plan>>
    BY <1>12 DEF VerifyProtected, MailInv, TypeOK, Goto, store, job
  <2>2. \A q \in Run, k \in Key : item'[<<q, k>>] = item[<<q, k>>] \/
          (q = r /\ item'[<<q, k>>] # "restored" /\ k = key[r])
    BY <1>12 DEF VerifyProtected, MailInv, TypeOK
  <2>3. Plain(r, "release")
    BY <2>1, <2>2 DEF Plain, Undecided, Holding
  <2>4. PlainItems(r) /\ OnRows
    BY <2>1, <2>2 DEF PlainItems, OnRows, Holding
  <2>5. Leaves(r)
    BY <2>1, <2>2 DEF Leaves, Leaving, Present, Current
  <2> QED
    BY <1>0, <2>1, <2>3, <2>4, <2>5, PlainStep DEF Location, Live, Holding
<1>13. ASSUME NEW r \in Run, VerifyOk(r) PROVE MailInv'
  <2>1. /\ pc[r] = "verify" /\ pc' = [pc EXCEPT ![r] = "next"] /\ pc'[r] = "next"
        /\ UNCHANGED <<server, ended, cand, attempt, seq, final, key, plan>>
    BY <1>13 DEF VerifyOk, MailInv, TypeOK, Goto, store, job
  <2>2. \A q \in Run, k \in Key : item'[<<q, k>>] = item[<<q, k>>] \/
          (q = r /\ item'[<<q, k>>] # "restored" /\ k = key[r])
    BY <1>13 DEF VerifyOk, MailInv, TypeOK
  <2>3. Plain(r, "next")
    BY <2>1, <2>2 DEF Plain, Undecided, Holding
  <2>4. PlainItems(r) /\ OnRows
    BY <2>1, <2>2 DEF PlainItems, OnRows, Holding
  <2>5. Leaves(r)
    BY <2>1, <2>2 DEF Leaves, Leaving, Present, Current
  <2> QED
    BY <1>0, <2>1, <2>3, <2>4, <2>5, PlainStep DEF Location, Live, Holding
<1>14. ASSUME NEW r \in Run, VerifyError(r) PROVE MailInv'
  <2>1. /\ pc[r] = "verify" /\ pc' = [pc EXCEPT ![r] = "unwind"] /\ pc'[r] = "unwind"
        /\ UNCHANGED <<server, ended, cand, attempt, seq, final, item, key, plan>>
    BY <1>14 DEF VerifyError, MailInv, TypeOK, Goto, store, job
  <2>2. Plain(r, "unwind")
    BY <2>1 DEF Plain, Undecided, Holding
  <2>3. PlainItems(r) /\ OnRows
    BY <2>1 DEF PlainItems, OnRows, Holding
  <2>4. Leaves(r)
    BY <2>1 DEF Leaves, Leaving, Present, Current
  <2> QED
    BY <1>0, <2>1, <2>2, <2>3, <2>4, PlainStep DEF Location, Live, Holding
<1>15. ASSUME NEW r \in Run, Exists(r) PROVE MailInv'
  <2>1. /\ pc[r] = "in_flight" /\ pc' = [pc EXCEPT ![r] = "checked"] /\ pc'[r] = "checked"
        /\ UNCHANGED <<server, ended, cand, attempt, seq, final, item, key, plan>>
    BY <1>15 DEF Exists, Performing, MailInv, TypeOK, Goto, store, job
  <2>2. Plain(r, "checked")
    BY <2>1 DEF Plain, Undecided, Holding
  <2>3. PlainItems(r) /\ OnRows
    BY <2>1 DEF PlainItems, OnRows, Holding
  <2>4. Leaves(r)
    BY <2>1 DEF Leaves, Leaving, Present, Current
  <2> QED
    BY <1>0, <2>1, <2>2, <2>3, <2>4, PlainStep DEF Location, Live, Holding
<1>16. ASSUME NEW r \in Run, Interrupt(r) PROVE MailInv'
  <2>1. /\ pc[r] \in Holding /\ pc' = [pc EXCEPT ![r] = "unwind"] /\ pc'[r] = "unwind"
        /\ UNCHANGED <<server, ended, cand, attempt, seq, final, item, key, plan>>
    BY <1>16 DEF Interrupt, MailInv, TypeOK, Goto, store, job, Holding
  <2>2. Plain(r, "unwind")
    BY <2>1 DEF Plain, Undecided, Holding
  <2>3. PlainItems(r) /\ OnRows
    BY <2>1 DEF PlainItems, OnRows, Holding
  <2>4. Leaves(r)
    BY <2>1 DEF Leaves, Leaving, Present, Current
  <2> QED
    BY <1>0, <2>1, <2>2, <2>3, <2>4, PlainStep DEF Location, Live, Holding
<1>17. ASSUME NEW r \in Run, SequenceDone(r) PROVE MailInv'
  <2>1. /\ pc[r] = "next" /\ pc' = [pc EXCEPT ![r] = "release"] /\ pc'[r] = "release"
        /\ UNCHANGED <<server, ended, cand, attempt, seq, final, item, key, plan>>
    BY <1>17 DEF SequenceDone, MailInv, TypeOK, Goto, store, job
  <2>2. Plain(r, "release")
    BY <2>1 DEF Plain, Undecided, Holding
  <2>3. PlainItems(r) /\ OnRows
    BY <2>1 DEF PlainItems, OnRows, Holding
  <2>4. Leaves(r)
    BY <2>1 DEF Leaves, Leaving, Present, Current
  <2> QED
    BY <1>0, <2>1, <2>2, <2>3, <2>4, PlainStep DEF Location, Live, Holding
<1>18. ASSUME NEW r \in Run, CloseRow(r) PROVE MailInv'
  <2>1. PICK x \in todo[r] : \E v \in Verdicts(x) : attempt' = [attempt EXCEPT ![x] = v]
    BY <1>18 DEF CloseRow
  <2>2. PICK v \in Verdicts(x) : attempt' = [attempt EXCEPT ![x] = v]
    BY <2>1
  <2>3. /\ pc[r] = "reconcile" /\ pc' = [pc EXCEPT ![r] = "unclaim"] /\ pc'[r] = "unclaim"
        /\ UNCHANGED <<server, ended, cand, item, seq, final, plan>>
        /\ \A q \in Run : q # r => key'[q] = key[q]
    BY <1>18 DEF CloseRow, MailInv, TypeOK, Goto
  <2>4. v = "completed" /\ KindOf(x) = "move" => ~Present(x[2])
    BY DEF Verdicts
  <2>5. \A y \in Row : attempt'[y] = attempt[y] \/
          /\ cand[y[2]] # "none" /\ attempt'[y] # "none"
          /\ attempt'[y] = "completed" /\ KindOf(y) = "move" => ~Present(y[2])
    <3> SUFFICES ASSUME NEW y \in Row, attempt'[y] # attempt[y]
                 PROVE  /\ cand[y[2]] # "none" /\ attempt'[y] # "none"
                        /\ attempt'[y] = "completed" /\ KindOf(y) = "move" => ~Present(y[2])
      OBVIOUS
    <3>1. y = x /\ attempt'[y] = v
      BY <2>2 DEF MailInv, TypeOK
    <3>2. attempt[y] # "none" /\ v # "none"
      BY <3>1 DEF MailInv, Known, Verdicts
    <3> QED
      BY <2>4, <3>1, <3>2 DEF MailInv, Known
  <2>6. Plain(r, "unclaim")
    BY <2>3, <2>5 DEF Plain, Undecided, Holding
  <2>7. PlainItems(r) /\ OnRows
    BY <2>3, <2>5 DEF PlainItems, OnRows, Holding
  <2>8. Leaves(r)
    BY <2>3, <2>5 DEF Leaves, Leaving, Present, Current
  <2> QED
    BY <1>0, <2>1, <2>6, <2>7, <2>8, PlainStep DEF Location, Live, Holding
<1>19. ASSUME NEW r \in Run, Load(r) PROVE MailInv'
  <2>1. /\ pc[r] = "load" /\ pc' = [pc EXCEPT ![r] = "decide"] /\ pc'[r] = "decide"
        /\ plan'[r] = Pool(r) /\ \A q \in Run : q # r => plan'[q] = plan[q]
        /\ UNCHANGED <<server, ended, cand, attempt, item, key, seq, final>>
    BY <1>19 DEF Load, MailInv, TypeOK, Goto, store, job
  <2>2. \A k \in Pool(r) : cand[k] # "none"
    BY DEF Pool
  <2>3. Plain(r, "decide")
    BY <2>1, <2>2 DEF Plain, Undecided, Holding
  <2>4. PlainItems(r) /\ OnRows
    BY <2>1, <2>2 DEF PlainItems, OnRows, Holding
  <2>5. Leaves(r)
    BY <2>1, <2>2 DEF Leaves, Leaving, Present, Current
  <2> QED
    BY <1>0, <2>1, <2>3, <2>4, <2>5, PlainStep DEF Location, Live, Holding
<1>20. ASSUME NEW r \in Run, Preview(r) PROVE MailInv'
  <2>1. /\ pc[r] = "pick" /\ pc' = [pc EXCEPT ![r] = "pick"] /\ pc'[r] = "pick"
        /\ NextKey(r) \in plan[r] /\ cand[NextKey(r)] # "none"
        /\ plan'[r] \subseteq plan[r] /\ \A q \in Run : q # r => plan'[q] = plan[q]
        /\ UNCHANGED <<server, ended, cand, key, seq, final>>
    BY <1>20, OldestIsIn DEF Preview, Take, NextKey, Known, MailInv, TypeOK, Goto, store, job
  <2>2. \A q \in Run, k \in Key : item'[<<q, k>>] = item[<<q, k>>] \/
          (q = r /\ item'[<<q, k>>] # "restored" /\ k \in plan[r])
    BY <1>20, <2>1 DEF Preview, MailInv, TypeOK
  <2>3. \A x \in Row : attempt'[x] = attempt[x] \/ (attempt'[x] = "skipped" /\ cand[x[2]] # "none")
    BY <1>20, <2>1 DEF Preview
  <2>4. Plain(r, "pick")
    BY <2>1, <2>2, <2>3 DEF Plain, Undecided, Holding
  <2>5. PlainItems(r) /\ OnRows
    BY <2>1, <2>2, <2>3 DEF PlainItems, OnRows, Holding
  <2>6. Leaves(r)
    BY <2>1, <2>2, <2>3 DEF Leaves, Leaving, Present, Current
  <2> QED
    BY <1>0, <2>1, <2>4, <2>5, <2>6, PlainStep DEF Location, Live, Holding
<1>21. ASSUME NEW r \in Run, Claim(r) PROVE MailInv'
  <2>1. /\ pc[r] = "pick" /\ pc' = [pc EXCEPT ![r] = "verify"] /\ pc'[r] = "verify"
        /\ NextKey(r) \in plan[r] /\ key'[r] = NextKey(r) /\ \A q \in Run : q # r => key'[q] = key[q]
        /\ plan'[r] = plan[r] \ {NextKey(r)} /\ \A q \in Run : q # r => plan'[q] = plan[q]
        /\ UNCHANGED <<server, ended, cand, attempt, item, seq, final>>
    BY <1>21, OldestIsIn DEF Claim, Take, NextKey, MailInv, TypeOK, Goto, store, job
  <2>2. \A k \in plan'[r] : k \in plan[r]
    BY <2>1
  <2>3. Plain(r, "verify")
    BY <2>1, <2>2 DEF Plain, Undecided, Holding
  <2>4. PlainItems(r) /\ OnRows
    BY <2>1, <2>2 DEF PlainItems, OnRows, Holding
  <2>5. Leaves(r)
    BY <2>1, <2>2 DEF Leaves, Leaving, Present, Current
  <2> QED
    BY <1>0, <2>1, <2>3, <2>4, <2>5, PlainStep DEF Location, Live, Holding
<1>22. ASSUME NEW r \in Run, VerifyVanished(r) PROVE MailInv'
  <2>1. /\ pc[r] = "verify" /\ pc' = [pc EXCEPT ![r] = "retire"]
        /\ UNCHANGED <<server, ended, cand, attempt, key, seq, final, plan>>
        /\ ~Present(key[r]) /\ key[r] \in Key
    BY <1>22, HeldIsSeen DEF VerifyVanished, Goto, job, Present, Current, Holding
  <2>2. \A q \in Run, k \in Key : item'[<<q, k>>] = item[<<q, k>>] \/
          (q = r /\ item'[<<q, k>>] # "restored" /\ k = key[r])
    BY <1>22 DEF VerifyVanished, MailInv, TypeOK
  <2>3. Plain(r, "retire")
    BY <2>1, <2>2 DEF Plain, Undecided, Holding
  <2>4. PlainItems(r) /\ OnRows
    BY <2>1, <2>2 DEF PlainItems, OnRows, Holding
  <2>5. Leaves(r)
    BY <2>1, <2>2 DEF Leaves, Leaving, Present, Current
  <2> QED
    BY <1>0, <2>1, <2>3, <2>4, <2>5, PlainStep DEF Location, Live, Holding
<1>23. ASSUME NEW r \in Run, Insert(r) PROVE MailInv'
  <2>1. PICK l \in {"pending", "next"}, v \in {"pending", "skipped"} :
          /\ pc[r] = "next" /\ pc' = [pc EXCEPT ![r] = l] /\ pc'[r] = l
          /\ attempt' = [attempt EXCEPT ![<<r, key[r], seq[r] + 1>>] = v]
          /\ UNCHANGED <<server, ended, cand, item, key, final, plan>>
          /\ \A q \in Run : q # r => seq'[q] = seq[q]
    BY <1>23 DEF Insert, MailInv, TypeOK, Goto
  <2>2. cand[key[r]] # "none"
    BY <2>1, HeldIsSeen DEF Holding
  <2>3. \A x \in Row : attempt'[x] = attempt[x] \/ (attempt'[x] = v /\ cand[x[2]] # "none")
    BY <2>1, <2>2 DEF MailInv, TypeOK
  <2>4. Plain(r, l)
    BY <2>1, <2>3 DEF Plain, Undecided, Holding
  <2>5. PlainItems(r) /\ OnRows
    BY <2>1, <2>3 DEF PlainItems, OnRows, Holding
  <2>6. Leaves(r)
    BY <2>1, <2>3 DEF Leaves, Leaving, Present, Current
  <2> QED
    BY <1>0, <2>1, <2>4, <2>5, <2>6, PlainStep DEF Location, Live, Holding
<1>24. ASSUME NEW r \in Run, Start(r) PROVE MailInv'
  <2>1. /\ pc[r] = "pending" /\ pc' = [pc EXCEPT ![r] = "in_flight"] /\ pc'[r] = "in_flight"
        /\ attempt' = [attempt EXCEPT ![Cursor(r)] = "in_flight"]
        /\ UNCHANGED <<server, ended, cand, item, key, seq, final, plan>>
    BY <1>24 DEF Start, MailInv, TypeOK, Goto, job
  <2>2. cand[key[r]] # "none" /\ Cursor(r)[2] = key[r]
    BY <2>1, HeldIsSeen DEF Holding, Cursor
  <2>3. \A x \in Row : attempt'[x] = attempt[x] \/ (attempt'[x] = "in_flight" /\ cand[x[2]] # "none")
    BY <2>1, <2>2 DEF MailInv, TypeOK
  <2>4. Plain(r, "in_flight")
    BY <2>1, <2>3 DEF Plain, Undecided, Holding
  <2>5. PlainItems(r) /\ OnRows
    BY <2>1, <2>3 DEF PlainItems, OnRows, Holding
  <2>6. Leaves(r)
    BY <2>1, <2>3 DEF Leaves, Leaving, Present, Current
  <2> QED
    BY <1>0, <2>1, <2>4, <2>5, <2>6, PlainStep DEF Location, Live, Holding
<1>25. ASSUME NEW r \in Run, Record(r) PROVE MailInv'
  <2>1. PICK l \in {"retire", "next"} :
          /\ pc[r] = "effect" /\ pc' = [pc EXCEPT ![r] = l] /\ pc'[r] = l
          /\ attempt' = [attempt EXCEPT ![Cursor(r)] = final[r]]
          /\ l = "retire" => Leaving(r)
          /\ UNCHANGED <<server, ended, cand, item, key, seq, final, plan>>
    BY <1>25 DEF Record, Leaving, MailInv, TypeOK, Goto, job
  <2>2. key[r] \in Key /\ cand[key[r]] # "none" /\ Cursor(r)[2] = key[r]
    BY <2>1, HeldIsSeen DEF Holding, Cursor
  <2>3. Leaving(r) => ~Present(key[r])
    BY DEF MailInv, LeftIsGone
  <2>4. \A x \in Row : attempt'[x] = attempt[x] \/
          /\ cand[x[2]] # "none" /\ attempt'[x] # "none"
          /\ attempt'[x] = "completed" /\ KindOf(x) = "move" => ~Present(x[2])
    <3> SUFFICES ASSUME NEW x \in Row, attempt'[x] # attempt[x]
                 PROVE  /\ cand[x[2]] # "none" /\ attempt'[x] # "none"
                        /\ attempt'[x] = "completed" /\ KindOf(x) = "move" => ~Present(x[2])
      OBVIOUS
    <3>1. x = Cursor(r) /\ attempt'[x] = final[r] /\ final[r] # "none"
      BY <2>1 DEF MailInv, TypeOK, Outcome
    <3> QED
      BY <2>1, <2>2, <2>3, <3>1 DEF Leaving
  <2>5. Plain(r, l)
    BY <2>1, <2>2, <2>3, <2>4 DEF Plain, Undecided, Holding
  <2>6. PlainItems(r) /\ OnRows
    BY <2>1, <2>2, <2>3, <2>4 DEF PlainItems, OnRows, Holding
  <2>7. Leaves(r)
    BY <2>1, <2>2, <2>3, <2>4 DEF Leaves, Leaving, Present, Current
  <2> QED
    BY <1>0, <2>1, <2>5, <2>6, <2>7, PlainStep DEF Location, Live, Holding
<1>26. ASSUME NEW r \in Run, DoBackup(r) PROVE MailInv'
  <2>1. /\ pc[r] = "in_flight" /\ pc' = [pc EXCEPT ![r] = "effect"] /\ pc'[r] = "effect"
        /\ final'[r] = "completed" /\ \A q \in Run : q # r => final'[q] = final[q]
        /\ UNCHANGED <<server, ended, cand, item, attempt, key, seq, plan>>
        /\ KindOf(Cursor(r)) # "move"
    BY <1>26 DEF DoBackup, Performing, Ends, MailInv, TypeOK, Goto, store
  <2>2. key[r] \in Key /\ KindOf(Cursor(r))' = KindOf(Cursor(r))
    BY <2>1, HeldIsSeen DEF Holding, Cursor, KindOf, Acts
  <2>3. Plain(r, "effect")
    BY <2>1, <2>2 DEF Plain, Undecided, Holding
  <2>4. PlainItems(r) /\ OnRows
    BY <2>1, <2>2 DEF PlainItems, OnRows, Holding
  <2>5. Leaves(r)
    BY <2>1, <2>2 DEF Leaves, Leaving, Present, Current
  <2> QED
    BY <1>0, <2>1, <2>3, <2>4, <2>5, PlainStep DEF Location, Live, Holding
<1>27. ASSUME NEW r \in Run, DoRoute(r) PROVE MailInv'
  <2>1. /\ pc[r] = "in_flight" /\ pc' = [pc EXCEPT ![r] = "effect"] /\ pc'[r] = "effect"
        /\ final'[r] = "completed" /\ \A q \in Run : q # r => final'[q] = final[q]
        /\ UNCHANGED <<server, ended, cand, item, attempt, key, seq, plan>>
        /\ KindOf(Cursor(r)) # "move"
    BY <1>27 DEF DoRoute, Performing, Ends, MailInv, TypeOK, Goto, store
  <2>2. key[r] \in Key /\ KindOf(Cursor(r))' = KindOf(Cursor(r))
    BY <2>1, HeldIsSeen DEF Holding, Cursor, KindOf, Acts
  <2>3. Plain(r, "effect")
    BY <2>1, <2>2 DEF Plain, Undecided, Holding
  <2>4. PlainItems(r) /\ OnRows
    BY <2>1, <2>2 DEF PlainItems, OnRows, Holding
  <2>5. Leaves(r)
    BY <2>1, <2>2 DEF Leaves, Leaving, Present, Current
  <2> QED
    BY <1>0, <2>1, <2>3, <2>4, <2>5, PlainStep DEF Location, Live, Holding
<1>28. ASSUME NEW r \in Run, DoLabel(r) PROVE MailInv'
  <2>1. /\ pc[r] = "checked" /\ pc' = [pc EXCEPT ![r] = "effect"] /\ pc'[r] = "effect"
        /\ final'[r] = "completed" /\ \A q \in Run : q # r => final'[q] = final[q]
        /\ UNCHANGED <<server, ended, cand, item, attempt, key, seq, plan>>
        /\ KindOf(Cursor(r)) # "move"
    BY <1>28 DEF DoLabel, Sending, Ends, MailInv, TypeOK, Goto, store
  <2>2. key[r] \in Key /\ KindOf(Cursor(r))' = KindOf(Cursor(r))
    BY <2>1, HeldIsSeen DEF Holding, Cursor, KindOf, Acts
  <2>3. Plain(r, "effect")
    BY <2>1, <2>2 DEF Plain, Undecided, Holding
  <2>4. PlainItems(r) /\ OnRows
    BY <2>1, <2>2 DEF PlainItems, OnRows, Holding
  <2>5. Leaves(r)
    BY <2>1, <2>2 DEF Leaves, Leaving, Present, Current
  <2> QED
    BY <1>0, <2>1, <2>3, <2>4, <2>5, PlainStep DEF Location, Live, Holding
<1>29. ASSUME NEW r \in Run, MutationVanished(r) PROVE MailInv'
  <2>1. /\ pc[r] = "in_flight" /\ pc' = [pc EXCEPT ![r] = "effect"] /\ pc'[r] = "effect"
        /\ final'[r] = "vanished" /\ \A q \in Run : q # r => final'[q] = final[q]
        /\ UNCHANGED <<server, ended, cand, item, attempt, key, seq, plan>>
        /\ ~Present(key[r])
    BY <1>29 DEF MutationVanished, Performing, Ends, MailInv, TypeOK, Goto, store
  <2>2. key[r] \in Key /\ KindOf(Cursor(r))' = KindOf(Cursor(r))
    BY <2>1, HeldIsSeen DEF Holding, Cursor, KindOf, Acts
  <2>3. Plain(r, "effect")
    BY <2>1, <2>2 DEF Plain, Undecided, Holding
  <2>4. PlainItems(r) /\ OnRows
    BY <2>1, <2>2 DEF PlainItems, OnRows, Holding
  <2>5. Leaves(r)
    BY <2>1, <2>2 DEF Leaves, Leaving, Present, Current
  <2> QED
    BY <1>0, <2>1, <2>3, <2>4, <2>5, PlainStep DEF Location, Live, Holding
<1>30. ASSUME NEW r \in Run, Refused(r) PROVE MailInv'
  <2>1. /\ pc[r] \in {"in_flight", "checked"} /\ pc' = [pc EXCEPT ![r] = "effect"] /\ pc'[r] = "effect"
        /\ final'[r] = "failed" /\ \A q \in Run : q # r => final'[q] = final[q]
        /\ UNCHANGED <<server, ended, cand, item, attempt, key, seq, plan>>
    BY <1>30 DEF Refused, Performing, Sending, Ends, MailInv, TypeOK, Goto, store
  <2>2. key[r] \in Key /\ KindOf(Cursor(r))' = KindOf(Cursor(r))
    BY <2>1, HeldIsSeen DEF Holding, Cursor, KindOf, Acts
  <2>3. Plain(r, "effect")
    BY <2>1, <2>2 DEF Plain, Undecided, Holding
  <2>4. PlainItems(r) /\ OnRows
    BY <2>1, <2>2 DEF PlainItems, OnRows, Holding
  <2>5. Leaves(r)
    BY <2>1, <2>2 DEF Leaves, Leaving, Present, Current
  <2> QED
    BY <1>0, <2>1, <2>3, <2>4, <2>5, PlainStep DEF Location, Live, Holding
<1>31. ASSUME NEW r \in Run, Unsupported(r) PROVE MailInv'
  <2>1. /\ pc[r] = "in_flight" /\ pc' = [pc EXCEPT ![r] = "effect"] /\ pc'[r] = "effect"
        /\ final'[r] = "unsupported" /\ \A q \in Run : q # r => final'[q] = final[q]
        /\ UNCHANGED <<server, ended, cand, item, attempt, key, seq, plan>>
    BY <1>31 DEF Unsupported, Performing, Ends, MailInv, TypeOK, Goto, store
  <2>2. key[r] \in Key /\ KindOf(Cursor(r))' = KindOf(Cursor(r))
    BY <2>1, HeldIsSeen DEF Holding, Cursor, KindOf, Acts
  <2>3. Plain(r, "effect")
    BY <2>1, <2>2 DEF Plain, Undecided, Holding
  <2>4. PlainItems(r) /\ OnRows
    BY <2>1, <2>2 DEF PlainItems, OnRows, Holding
  <2>5. Leaves(r)
    BY <2>1, <2>2 DEF Leaves, Leaving, Present, Current
  <2> QED
    BY <1>0, <2>1, <2>3, <2>4, <2>5, PlainStep DEF Location, Live, Holding
<1>32. ASSUME NEW r \in Run, Release(r) PROVE MailInv'
  <2>1. PICK l \in {"finish", "pick"} :
          /\ pc[r] = "release" /\ pc' = [pc EXCEPT ![r] = l] /\ pc'[r] = l
          /\ \A q \in Run : q # r => key'[q] = key[q] /\ seq'[q] = seq[q] /\ final'[q] = final[q]
          /\ UNCHANGED <<server, ended, cand, item, attempt, plan>>
    BY <1>32 DEF Release, ResetItem, MailInv, TypeOK, Goto
  <2>2. Plain(r, l)
    BY <2>1 DEF Plain, Undecided, Holding
  <2>3. PlainItems(r) /\ OnRows
    BY <2>1 DEF PlainItems, OnRows, Holding
  <2>4. Leaves(r)
    BY <2>1 DEF Leaves, Leaving, Present, Current
  <2> QED
    BY <1>0, <2>1, <2>2, <2>3, <2>4, PlainStep DEF Location, Live, Holding
<1>33. ASSUME NEW r \in Run, Finish(r) PROVE MailInv'
  <2>1. PICK l \in {"done", "dead"} :
          /\ pc' = [pc EXCEPT ![r] = l] /\ pc'[r] = l
          /\ \A q \in Run : q # r => /\ key'[q] = key[q] /\ seq'[q] = seq[q]
                                     /\ final'[q] = final[q] /\ plan'[q] = plan[q]
          /\ plan'[r] = {}
          /\ UNCHANGED <<server, ended, cand, item, attempt>>
    BY <1>33 DEF Finish, End, ResetItem, MailInv, TypeOK, Goto, store
  <2>2. Plain(r, l)
    BY <2>1 DEF Plain, Undecided, Holding
  <2>3. PlainItems(r) /\ OnRows
    BY <2>1 DEF PlainItems, OnRows, Holding
  <2>4. Leaves(r)
    BY <2>1 DEF Leaves, Leaving, Present, Current
  <2> QED
    BY <1>0, <2>1, <2>2, <2>3, <2>4, PlainStep DEF Location, Live, Holding
<1>34. ASSUME NEW r \in Run, Crash(r) PROVE MailInv'
  <2>1. PICK l \in {"done", "dead"} :
          /\ pc' = [pc EXCEPT ![r] = l] /\ pc'[r] = l
          /\ \A q \in Run : q # r => /\ key'[q] = key[q] /\ seq'[q] = seq[q]
                                     /\ final'[q] = final[q] /\ plan'[q] = plan[q]
          /\ plan'[r] = {}
          /\ UNCHANGED <<server, ended, cand, item, attempt>>
    BY <1>34 DEF Crash, End, ResetItem, MailInv, TypeOK, Goto, store
  <2>2. Plain(r, l)
    BY <2>1 DEF Plain, Undecided, Holding
  <2>3. PlainItems(r) /\ OnRows
    BY <2>1 DEF PlainItems, OnRows, Holding
  <2>4. Leaves(r)
    BY <2>1 DEF Leaves, Leaving, Present, Current
  <2> QED
    BY <1>0, <2>1, <2>2, <2>3, <2>4, PlainStep DEF Location, Live, Holding
<1>35. ASSUME NEW r \in Run, Abort(r) PROVE MailInv'
  <2>1. PICK l \in {"done", "dead"} :
          /\ pc' = [pc EXCEPT ![r] = l] /\ pc'[r] = l
          /\ \A q \in Run : q # r => /\ key'[q] = key[q] /\ seq'[q] = seq[q]
                                     /\ final'[q] = final[q] /\ plan'[q] = plan[q]
          /\ plan'[r] = {}
          /\ UNCHANGED <<server, ended, cand, item, attempt>>
    BY <1>35 DEF Abort, End, ResetItem, MailInv, TypeOK, Goto, store
  <2>2. Plain(r, l)
    BY <2>1 DEF Plain, Undecided, Holding
  <2>3. PlainItems(r) /\ OnRows
    BY <2>1 DEF PlainItems, OnRows, Holding
  <2>4. Leaves(r)
    BY <2>1 DEF Leaves, Leaving, Present, Current
  <2> QED
    BY <1>0, <2>1, <2>2, <2>3, <2>4, PlainStep DEF Location, Live, Holding
<1>36. ASSUME NEW r \in Run, Unwind(r) PROVE MailInv'
  <2>1. PICK l \in {"done", "dead"} :
          /\ pc' = [pc EXCEPT ![r] = l] /\ pc'[r] = l
          /\ \A q \in Run : q # r => /\ key'[q] = key[q] /\ seq'[q] = seq[q]
                                     /\ final'[q] = final[q] /\ plan'[q] = plan[q]
          /\ plan'[r] = {}
          /\ UNCHANGED <<server, ended, cand, item, attempt>>
    BY <1>36 DEF Unwind, End, ResetItem, MailInv, TypeOK, Goto, store
  <2>2. Plain(r, l)
    BY <2>1 DEF Plain, Undecided, Holding
  <2>3. PlainItems(r) /\ OnRows
    BY <2>1 DEF PlainItems, OnRows, Holding
  <2>4. Leaves(r)
    BY <2>1 DEF Leaves, Leaving, Present, Current
  <2> QED
    BY <1>0, <2>1, <2>2, <2>3, <2>4, PlainStep DEF Location, Live, Holding
<1>37. ASSUME Environment PROVE MailInv'
  <2>1. /\ UNCHANGED <<cand, item, attempt, pc, key, seq, final, plan>>
        /\ \A j \in Key : server[j] # "absent" =>
              server'[j] # "absent" /\ (Present(j)' => Present(j))
        /\ "renumber" \notin Faults => ended' = ended
    BY <1>37 DEF Environment, Others, Arrive, Flag, Unflag, Remove, Renumber, Present, Current, store, job, MailInv, TypeOK
  <2> QED
    BY <1>0, <2>1, OthersMail
<1>38. CASE UNCHANGED vars
  BY <1>0, <1>38, OthersMail DEF vars, store, job, Present, Current
<1> QED
  BY <1>1, <1>2, <1>3, <1>4, <1>5, <1>6, <1>7, <1>8, <1>9, <1>10, <1>11, <1>12,
     <1>13, <1>14, <1>15, <1>16, <1>17, <1>18, <1>19, <1>20, <1>21, <1>22, <1>23,
     <1>24, <1>25, <1>26, <1>27, <1>28, <1>29, <1>30, <1>31, <1>32, <1>33, <1>34,
     <1>35, <1>36, <1>37, <1>38
  DEF Next, Step, Fault, Phases, Pick, Verify, Perform, RunActions, Failure
----------------------------------------------------------------------------
\* Whatever fails, dies or is stopped, a candidate is retired only when its
\* message has left the key, or when a run has reported it restored.
THEOREM RetiredMeansGone == Spec => []RetiredIsJustified
<1>1. Init => MailInv
  BY InitMail
<1>2. MailInv /\ [Next]_vars => MailInv'
  BY MailStep
<1>3. MailInv => RetiredIsJustified
  BY DEF MailInv
<1> QED
  BY <1>1, <1>2, <1>3, PTL DEF Spec

\* As long as no mailbox is renumbered, a trash or move_to that is on record as
\* completed, by its run or by reconcile, has its message out of the mailbox.
THEOREM CompletedMovesAreTrue ==
    ASSUME "renumber" \notin Faults
    PROVE  Spec => []CompletedMoveIsTrue
<1>1. Init => MailInv
  BY InitMail
<1>2. MailInv /\ [Next]_vars => MailInv'
  BY MailStep
<1>3. MailInv => CompletedMoveIsTrue
  <2> SUFFICES ASSUME MailInv, NEW x \in Row, x[3] \in DOMAIN Acts(x[1]),
                      KindOf(x) = "move", attempt[x] = "completed"
               PROVE  server[x[2]] \in {"moved", "gone"}
    BY DEF CompletedMoveIsTrue
  <2>1. x[2] \in Key /\ ~Present(x[2])
    BY RowParts DEF MailInv, MovesAreReal
  <2>2. server[x[2]] # "absent" /\ Current(x[2])
    BY <2>1 DEF MailInv, Known, Seen, Current
  <2> QED
    BY <2>1, <2>2 DEF MailInv, TypeOK, ServerState, Present, Current
<1> QED
  BY <1>1, <1>2, <1>3, PTL DEF Spec
=============================================================================
