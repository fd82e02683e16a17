------------------------ MODULE PositionSync_proofs ------------------------
(***************************************************************************)
(* The update counter of RuntimeState is balanced on every path of entry,  *)
(* protection and close, whatever is interleaved and whichever call raises.*)
(* On top of that, until one of the events happens that amiss remembers,   *)
(* the bot's record and the exchange stay in step: a result is booked      *)
(* once, nothing of the bot's own is adopted, and an ACTIVE position       *)
(* carries its stop.                                                       *)
(***************************************************************************)
EXTENDS PositionSync, TLAPS, FiniteSetTheorems

USE DEF QuietPcs

\* What the proof needs of the tasks: each is a record with a pc.
Shape ==
  /\ task = [t \in Tasks |-> task[t]]
  /\ \A t \in Tasks : "pc" \in DOMAIN task[t]

\* The inductive invariant.
Balanced == Shape /\ UpdatesBalanced

\* A step of one task changes that task alone.
LEMMA OneTask ==
  ASSUME Shape, NEW t \in Tasks, NEW r, "pc" \in DOMAIN r, Becomes(t, r)
  PROVE  /\ Shape'
         /\ task'[t].pc = r.pc
         /\ \A u \in Tasks : u # t => task'[u] = task[u]
  BY DEF Shape, Becomes

\* The actors of the position updates are two different tasks.
LEMMA Actors == /\ "loop" \in Tasks
                /\ "cmd" \in Tasks
                /\ Recs \subseteq Tasks
                /\ Tasks = {"loop", "cmd"} \cup Recs
                /\ "loop" \notin Recs
                /\ "cmd" \notin Recs
  BY SyncAssumption DEF SyncAssumption, Tasks

\* A task that is busy before and after a step leaves the counter right.
LEMMA StaysBusy ==
  ASSUME Balanced, NEW t \in Tasks, NEW r, "pc" \in DOMAIN r, Becomes(t, r),
         task[t].pc \notin QuietPcs \/ t \in Recs,
         r.pc \notin QuietPcs \/ t \in Recs,
         upd' = upd
  PROVE  Balanced'
<1>1. /\ Shape'
      /\ task'[t].pc = r.pc
      /\ \A u \in Tasks : u # t => task'[u] = task[u]
  BY OneTask DEF Balanced
<1>2. Updates("loop")' = Updates("loop") /\ Updates("cmd")' = Updates("cmd")
  BY <1>1, Actors DEF Updates
<1> QED
  BY <1>1, <1>2 DEF Balanced, UpdatesBalanced

\* A busy task that finishes ends its own update and no other.
LEMMA Finishes ==
  ASSUME Balanced, NEW t \in Tasks, NEW positions, Finish(t, positions),
         task[t].pc \notin QuietPcs
  PROVE  Balanced'
<1>1. Becomes(t, Idle) /\ "pc" \in DOMAIN Idle /\ Idle.pc = "idle"
  BY DEF Finish, Idle
<1>2. /\ Shape'
      /\ task'[t].pc = "idle"
      /\ \A u \in Tasks : u # t => task'[u] = task[u]
  BY <1>1, OneTask DEF Balanced
<1>3. upd' = IF t \in Recs THEN upd ELSE upd - 1
  BY DEF Finish
<1>4. upd = Updates("loop") + Updates("cmd")
  BY DEF Balanced, UpdatesBalanced
<1>5. CASE t \in Recs
  BY <1>2, <1>3, <1>4, <1>5, Actors DEF Balanced, UpdatesBalanced, Updates
<1>6. CASE t = "loop"
  BY <1>2, <1>3, <1>4, <1>6, Actors DEF Balanced, UpdatesBalanced, Updates
<1>7. CASE t = "cmd"
  BY <1>2, <1>3, <1>4, <1>7, Actors DEF Balanced, UpdatesBalanced, Updates
<1> QED
  BY <1>5, <1>6, <1>7, Actors

\* A task without an update, before and after a step, leaves the counter right.
LEMMA StaysQuiet ==
  ASSUME Balanced, NEW t \in Tasks, NEW r, "pc" \in DOMAIN r, Becomes(t, r),
         task[t].pc \in QuietPcs, r.pc \in QuietPcs, upd' = upd
  PROVE  Balanced'
<1>1. /\ Shape'
      /\ task'[t].pc = r.pc
      /\ \A u \in Tasks : u # t => task'[u] = task[u]
  BY OneTask DEF Balanced
<1>2. Updates("loop")' = Updates("loop") /\ Updates("cmd")' = Updates("cmd")
  BY <1>1, Actors DEF Updates
<1> QED
  BY <1>1, <1>2 DEF Balanced, UpdatesBalanced

\* An idle actor that begins an update opens exactly one.
LEMMA Begins ==
  ASSUME Balanced, NEW t \in {"loop", "cmd"}, NEW r, "pc" \in DOMAIN r,
         Becomes(t, r), task[t].pc \in QuietPcs,
         r.pc \notin QuietPcs, upd' = upd + 1
  PROVE  Balanced'
<1>1. /\ Shape'
      /\ task'[t].pc = r.pc
      /\ \A u \in Tasks : u # t => task'[u] = task[u]
  BY OneTask, Actors DEF Balanced
<1>2. upd = Updates("loop") + Updates("cmd")
  BY DEF Balanced, UpdatesBalanced
<1>3. CASE t = "loop"
  BY <1>1, <1>2, <1>3, Actors DEF Balanced, UpdatesBalanced, Updates
<1>4. CASE t = "cmd"
  BY <1>1, <1>2, <1>4, Actors DEF Balanced, UpdatesBalanced, Updates
<1> QED
  BY <1>3, <1>4

-----------------------------------------------------------------------------
\* The steps of an entry.
LEMMA EnterKeeps == ASSUME Balanced, Enter PROVE Balanced'
<1>0. /\ "loop" \in Tasks
      /\ "pc" \in DOMAIN task["loop"]
  BY Actors DEF Balanced, Shape
<1>1. CASE Approve
  <2> DEFINE r == [task["loop"] EXCEPT !.pc = "gated", !.got = 0, !.ok = FALSE]
  <2>1. "pc" \in DOMAIN r /\ r.pc = "gated"
    BY <1>0
  <2>2. Becomes("loop", r) /\ upd' = upd /\ task["loop"].pc = "idle"
    BY <1>1 DEF Approve, Goes
  <2> HIDE DEF r
  <2> QED
    BY <1>0, <2>1, <2>2, StaysQuiet
<1>2. CASE SendEntry
  <2> DEFINE r == [task["loop"] EXCEPT !.pc = "opening", !.got = 0, !.ok = FALSE]
  <2>1. "pc" \in DOMAIN r /\ r.pc = "opening"
    BY <1>0
  <2>2. Becomes("loop", r) /\ upd' = upd + 1 /\ task["loop"].pc = "gated"
    BY <1>2 DEF SendEntry, Goes
  <2> HIDE DEF r
  <2> QED
    BY <2>1, <2>2, Begins
<1>3. CASE FillEntry
  <2>1. PICK f : Becomes("loop", [task["loop"] EXCEPT !.pc = "opened", !.got = f])
    BY <1>3 DEF FillEntry
  <2> DEFINE r == [task["loop"] EXCEPT !.pc = "opened", !.got = f]
  <2>2. "pc" \in DOMAIN r /\ r.pc = "opened"
    BY <1>0
  <2>3. Becomes("loop", r) /\ upd' = upd /\ task["loop"].pc = "opening"
    BY <1>3, <2>1 DEF FillEntry
  <2> HIDE DEF r
  <2> QED
    BY <1>0, <2>2, <2>3, StaysBusy
<1>4. CASE EntryUnfilled
  BY <1>0, <1>4, Finishes DEF EntryUnfilled
<1>5. CASE EntryRaises
  BY <1>0, <1>5, Finishes DEF EntryRaises
<1>6. CASE EntryFilled
  <2> DEFINE r == [Idle EXCEPT !.pc = "confirm", !.o = reg']
  <2>1. "pc" \in DOMAIN r /\ r.pc = "confirm"
    BY DEF Idle
  <2>2. Becomes("loop", r) /\ upd' = upd /\ task["loop"].pc = "opened"
    BY <1>6 DEF EntryFilled
  <2> HIDE DEF r
  <2> QED
    BY <1>0, <2>1, <2>2, StaysBusy
<1> QED
  BY <1>1, <1>2, <1>3, <1>4, <1>5, <1>6 DEF Enter

\* The steps of a protection, in an entry or in a resync.
LEMMA ProtectKeeps ==
  ASSUME Balanced, NEW t \in Tasks, Protect(t) PROVE Balanced'
<1>0. "pc" \in DOMAIN task[t]
  BY DEF Balanced, Shape
<1>a. ASSUME NEW pc, pc \notin QuietPcs, Goes(t, pc), upd' = upd,
             task[t].pc \notin QuietPcs
      PROVE  Balanced'
  <2> DEFINE r == [task[t] EXCEPT !.pc = pc, !.got = 0, !.ok = FALSE]
  <2>1. "pc" \in DOMAIN r /\ r.pc = pc
    BY <1>0
  <2>2. Becomes(t, r)
    BY <1>a DEF Goes
  <2> HIDE DEF r
  <2> QED
    BY <1>a, <2>1, <2>2, StaysBusy
<1>1. CASE Confirm(t)
  <2>1. PICK s : Becomes(t, [task[t] EXCEPT !.pc = "confirmed", !.got = s])
    BY <1>1 DEF Confirm
  <2> DEFINE r == [task[t] EXCEPT !.pc = "confirmed", !.got = s]
  <2>2. "pc" \in DOMAIN r /\ r.pc = "confirmed"
    BY <1>0
  <2>3. Becomes(t, r) /\ upd' = upd /\ task[t].pc = "confirm"
    BY <1>1, <2>1 DEF Confirm
  <2> HIDE DEF r
  <2> QED
    BY <2>2, <2>3, StaysBusy
<1>2. CASE Confirmed(t)
  BY <1>2, <1>a DEF Confirmed
<1>3. CASE Verify(t)
  <2> DEFINE next == IF task[t].pc = "verify" THEN "verified" ELSE "reverified"
  <2>0. task[t].pc \notin QuietPcs /\ upd' = upd
    BY <1>3 DEF Verify
  <2>1. PICK ok : Becomes(t, [task[t] EXCEPT !.pc = next, !.ok = ok])
    BY <1>0, <1>3 DEF Verify
  <2>a. next \notin QuietPcs
    OBVIOUS
  <2> HIDE DEF next
  <2> DEFINE r == [task[t] EXCEPT !.pc = next, !.ok = ok]
  <2>2. "pc" \in DOMAIN r /\ r.pc = next
    BY <1>0
  <2>3. Becomes(t, r)
    BY <2>1
  <2> HIDE DEF r
  <2> QED
    BY <2>0, <2>a, <2>2, <2>3, StaysBusy
<1>4. CASE Activate(t)
  BY <1>4, Finishes DEF Activate
<1>5. CASE Unverified(t)
  BY <1>5, <1>a DEF Unverified
<1>6. CASE SetStop(t)
  BY <1>6, <1>a DEF SetStop
<1>7. CASE SetStopRaises(t)
  BY <1>7, Finishes DEF SetStopRaises
<1>8. CASE Flatten(t)
  <2> DEFINE r == [task[t] EXCEPT !.pc = "flattening", !.qty = obj[task[t].o].qty]
  <2>1. "pc" \in DOMAIN r /\ r.pc = "flattening"
    BY <1>0
  <2>2. Becomes(t, r) /\ upd' = upd /\ task[t].pc = "reverified"
    BY <1>8 DEF Flatten
  <2> HIDE DEF r
  <2> QED
    BY <2>1, <2>2, StaysBusy
<1>9. CASE Flattened(t)
  BY <1>9, Finishes DEF Flattened
<1>10. CASE FlattenRaises(t)
  BY <1>10, Finishes DEF FlattenRaises
<1>11. CASE ProtectRaises(t)
  BY <1>11, Finishes DEF ProtectRaises
<1> QED
  BY <1>1, <1>2, <1>3, <1>4, <1>5, <1>6, <1>7, <1>8, <1>9, <1>10, <1>11 DEF Protect

\* An exit order that is sent, executed and answered.
LEMMA SendCloseKeeps ==
  ASSUME Balanced, NEW t \in {"loop", "cmd"}, NEW o, NEW q, NEW full,
         SendClose(t, o, q, full), task[t].pc \in QuietPcs
  PROVE  Balanced'
<1> DEFINE r == [Idle EXCEPT !.pc = "closing", !.o = o, !.qty = q, !.full = full]
<1>1. "pc" \in DOMAIN r /\ r.pc = "closing"
  BY DEF Idle
<1>2. Becomes(t, r) /\ upd' = upd + 1
  BY DEF SendClose
<1> HIDE DEF r
<1> QED
  BY <1>1, <1>2, Begins

LEMMA CloseKeeps == ASSUME Balanced, NEW t \in Tasks, Close(t) PROVE Balanced'
<1>0. "pc" \in DOMAIN task[t]
  BY DEF Balanced, Shape
<1>1. CASE Execute(t)
  <2> DEFINE done == IF task[t].pc = "closing" THEN "closed" ELSE "flattened"
  <2>0. task[t].pc \notin QuietPcs /\ upd' = upd
    BY <1>1 DEF Execute
  <2>1. PICK f : Becomes(t, [task[t] EXCEPT !.pc = done, !.got = f])
    BY <1>1 DEF Execute
  <2>a. done \notin QuietPcs
    OBVIOUS
  <2> HIDE DEF done
  <2> DEFINE r == [task[t] EXCEPT !.pc = done, !.got = f]
  <2>2. "pc" \in DOMAIN r /\ r.pc = done
    BY <1>0
  <2>3. Becomes(t, r)
    BY <2>1
  <2> HIDE DEF r
  <2> QED
    BY <2>0, <2>a, <2>2, <2>3, StaysBusy
<1>2. CASE CloseReturns(t)
  <2> DEFINE r == [task[t] EXCEPT !.pc = "logging"]
  <2>1. "pc" \in DOMAIN r /\ r.pc = "logging"
    BY <1>0
  <2>2. Becomes(t, r) /\ upd' = upd /\ task[t].pc = "closed"
    BY <1>2 DEF CloseReturns
  <2> HIDE DEF r
  <2> QED
    BY <2>1, <2>2, StaysBusy
<1>3. CASE CloseIgnored(t) \/ Book(t) \/ CloseRaises(t)
  BY <1>3, Finishes DEF CloseIgnored, Book, CloseRaises, ClosePcs
<1> QED
  BY <1>1, <1>2, <1>3 DEF Close

\* The trading loop decides an exit, sends it or does not, or reduces.
LEMMA ManageKeeps == ASSUME Balanced, Manage PROVE Balanced'
<1>0. "loop" \in Tasks
  BY Actors
<1>1. CASE Exit
  <2> DEFINE r == [Idle EXCEPT !.pc = "exiting", !.o = reg]
  <2>1. "pc" \in DOMAIN r /\ r.pc = "exiting"
    BY DEF Idle
  <2>2. Becomes("loop", r) /\ upd' = upd /\ task["loop"].pc = "idle"
    BY <1>1 DEF Exit
  <2> HIDE DEF r
  <2> QED
    BY <1>0, <2>1, <2>2, StaysQuiet
<1>2. CASE ExitUnsent
  <2>1. "pc" \in DOMAIN Idle /\ Idle.pc = "idle"
    BY DEF Idle
  <2> QED
    BY <1>0, <1>2, <2>1, StaysQuiet DEF ExitUnsent
<1>3. CASE SendExit
  BY <1>3, SendCloseKeeps DEF SendExit
<1>4. CASE Reduce
  BY <1>4, SendCloseKeeps DEF Reduce
<1> QED
  BY <1>1, <1>2, <1>3, <1>4 DEF Manage

\* Reconciliation opens and ends no update.
LEMMA ReconcileKeeps ==
  ASSUME Balanced, NEW r \in Recs, Reconcile(r) PROVE Balanced'
<1>0. r \in Tasks
  BY Actors
<1>1. upd' = upd
  BY DEF Reconcile, Snapshot, Adopt, SyncAdopted, Mismatch, Gone, Leave
<1>2. PICK n : "pc" \in DOMAIN n /\ Becomes(r, n)
  <2>1. CASE Snapshot(r)
    <3> DEFINE n == [Idle EXCEPT !.pc = "snapped", !.got = ex]
    <3>1. "pc" \in DOMAIN n
      BY DEF Idle
    <3>2. Becomes(r, n)
      BY <2>1 DEF Snapshot
    <3> HIDE DEF n
    <3> QED BY <3>1, <3>2
  <2>2. CASE Mismatch(r)
    <3> DEFINE n == [Idle EXCEPT !.pc = "confirm", !.o = reg]
    <3>1. "pc" \in DOMAIN n
      BY DEF Idle
    <3>2. Becomes(r, n)
      BY <2>2 DEF Mismatch
    <3> HIDE DEF n
    <3> QED BY <3>1, <3>2
  <2>3. CASE Adopt(r) \/ SyncAdopted(r) \/ Gone(r) \/ Leave(r)
    <3>1. "pc" \in DOMAIN Idle
      BY DEF Idle
    <3>2. Becomes(r, Idle)
      BY <2>3 DEF Adopt, SyncAdopted, Gone, Leave
    <3> QED BY <3>1, <3>2
  <2> QED
    BY <2>1, <2>2, <2>3 DEF Reconcile
<1> QED
  BY <1>0, <1>1, <1>2, StaysBusy

LEMMA NextKeeps == ASSUME Balanced, Next PROVE Balanced'
<1>1. CASE Enter
  BY <1>1, EnterKeeps
<1>2. CASE Manage
  BY <1>2, ManageKeeps
<1>4. CASE Command
  BY <1>4, SendCloseKeeps DEF Command
<1>5. ASSUME NEW t \in Tasks, Protect(t) \/ Close(t) PROVE Balanced'
  BY <1>5, ProtectKeeps, CloseKeeps
<1>6. ASSUME NEW r \in Recs, Reconcile(r) PROVE Balanced'
  BY <1>6, ReconcileKeeps
<1>7. CASE StopFires \/ UserTrades \/ PauseExpires
  <2>1. task' = task /\ upd' = upd
    BY <1>7 DEF StopFires, UserTrades, PauseExpires
  <2> QED
    BY <2>1 DEF Balanced, Shape, UpdatesBalanced, Updates
<1> QED
  BY <1>1, <1>2, <1>4, <1>5, <1>6, <1>7 DEF Next

LEMMA BalancedInit == Init => Balanced
<1> SUFFICES ASSUME Init PROVE Balanced
  OBVIOUS
<1>1. Idle.pc = "idle" /\ "pc" \in DOMAIN Idle
  BY DEF Idle
<1>2. \A t \in Tasks : task[t] = Idle
  BY DEF Init
<1>3. Shape
  BY <1>1, <1>2 DEF Init, Shape
<1>4. Updates("loop") = 0 /\ Updates("cmd") = 0 /\ upd = 0
  BY <1>1, <1>2, Actors DEF Updates, Init
<1> QED
  BY <1>3, <1>4 DEF Balanced, UpdatesBalanced

\* begin_position_update and end_position_update are paired on every path of
\* evaluate_entry and _close, also on those that raise: for every number of
\* reconciliations, every size and every set of faults the counter is the
\* number of entries and closes that are inside an update.
THEOREM UpdatesStayBalanced == Spec => []UpdatesBalanced
<1>1. Init => Balanced
  BY BalancedInit
<1>2. Balanced /\ [Next]_vars => Balanced'
  <2> SUFFICES ASSUME Balanced, [Next]_vars PROVE Balanced'
    OBVIOUS
  <2>1. CASE Next
    BY <2>1, NextKeeps
  <2>2. CASE UNCHANGED vars
    BY <2>2 DEF vars, Balanced, Shape, UpdatesBalanced, Updates
  <2> QED
    BY <2>1, <2>2
<1>3. Balanced => UpdatesBalanced
  BY DEF Balanced
<1> QED
  BY <1>1, <1>2, <1>3, PTL DEF Spec

-----------------------------------------------------------------------------
(* Until one of the events happens that amiss remembers, the record and the*)
(* exchange stay in step.  Requests, events and logs may raise, orders may *)
(* execute in part, stops may fire, be missing, fail their verification or *)
(* be impossible to set, and answers may be old when they are used.        *)

Loop == task["loop"]
Cmd == task["cmd"]

Record == [src : {"BOT"}, st : {"PENDING", "ACTIVE", "CLOSING", "CLOSED"},
           qty : Int, booked : 0..1]
TaskState == [pc : Pcs, o : {0} \cup Objs, qty : Int, full : BOOLEAN, got : Int, ok : BOOLEAN]

\* Every position is the bot's own, booked once at most.
Records ==
  /\ ex \in Nat
  /\ sl \in BOOLEAN
  /\ reg \in {0} \cup Objs
  /\ obj \in [Objs -> Record]
  /\ task \in [Tasks -> TaskState]
  /\ \A t \in Tasks : task[t].ok => task[t].pc \in {"verified", "reverified"}

\* Reconciliation looks, and finds nothing to adopt or to resync.
Watching == \A r \in Recs : task[r].pc \in {"idle", "snapped"} /\ task[r].o = 0

\* The trading loop acts on the registered position, and an entry of its own is filled
\* only without an open one.
Trading ==
  /\ Loop.pc # "snapped"
  /\ IF Loop.pc \in {"idle"} \cup EntryPcs THEN Loop.o = 0 ELSE reg # 0 /\ Loop.o = reg
  /\ Loop.pc = "opened" => Loop.got \in Nat /\ (Loop.got > 0 => ~Open)
  /\ Loop.ok => sl \/ ex = 0
  /\ Loop.pc = "flattened" /\ Loop.got > 0 => ex = 0

\* What a command closes may have been replaced by the time it returns.
Commanded ==
  /\ Cmd.pc \in {"idle"} \cup ClosePcs
  /\ IF Cmd.pc = "idle" THEN Cmd.o = 0 ELSE Cmd.o \in Objs

\* A close, by either of them: an answer that will close the record has left nothing
\* on the exchange, and what is closed while it is being logged is not yet booked.
Closing(s) ==
  /\ s.pc = "closed" => s.got \in Nat \cup {Flat}
  /\ s.pc = "closed" /\ obj[s.o].st # "CLOSED" /\ (s.got = Flat \/ (s.full /\ s.got > 0))
       => ex = 0
  /\ s.pc = "logging" /\ obj[s.o].st = "CLOSED" => obj[s.o].booked = 0
  /\ s.pc = "logging" /\ s.got = Flat => obj[s.o].st = "CLOSED"

\* They never log the end of the same position.
Apart ==
  Loop.pc = "logging" /\ Cmd.pc = "logging" /\ Loop.o = Cmd.o => obj[Cmd.o].st # "CLOSED"

\* The lots of an order that is executed and not yet in the record.
CutOf(s) == IF s.pc = "closed" /\ s.got > 0 /\ s.o = reg THEN s.got ELSE 0

\* InStep made inductive: record and exchange differ by what is executed and not yet
\* recorded.
Agree ==
  /\ \A o \in Objs : obj[o].st # "CLOSED" => o = reg /\ obj[o].booked = 0 /\ obj[o].qty > 0
  /\ sl => ex > 0
  /\ ~Open => ex = 0 \/ (Loop.pc = "opened" /\ ex = Loop.got)
  /\ Open => ex = 0 \/ ex = (obj[reg].qty - CutOf(Loop)) - CutOf(Cmd)
  /\ BotIn({"ACTIVE"}) /\ ex > 0 => sl

Parts ==
  /\ Records /\ Watching /\ Trading /\ Commanded
  /\ Closing(Loop) /\ Closing(Cmd) /\ Apart /\ Agree

\* The inductive invariant.
SyncInv == Balanced /\ (~amiss => Parts)

\* There are more objects than the two that the loop and a command refer to.
LEMMA ObjsHaveThree == Objs \subseteq Int /\ {1, 2, 3} \subseteq Objs /\ 0 \notin Objs
<1>1. IsFiniteSet(Recs) /\ IsFiniteSet({"loop", "cmd"}) /\ IsFiniteSet({"loop"})
  <2>1. IsFiniteSet(Recs)
    BY SyncAssumption DEF SyncAssumption
  <2>2. IsFiniteSet({"loop"}) /\ {"loop"} \cup {"cmd"} = {"loop", "cmd"}
    BY FS_Singleton
  <2>3. IsFiniteSet({"loop", "cmd"})
    BY <2>2, FS_AddElement
  <2> QED
    BY <2>1, <2>2, <2>3
<1>2. IsFiniteSet(Tasks)
  BY <1>1, FS_Union DEF Tasks
<1>3. Cardinality({"loop", "cmd"}) = 2
  <2>1. Cardinality({"loop"}) = 1
    BY FS_Singleton
  <2>2. {"loop"} \cup {"cmd"} = {"loop", "cmd"} /\ "cmd" \notin {"loop"}
    OBVIOUS
  <2> QED
    BY <1>1, <2>1, <2>2, FS_AddElement
<1>4. Cardinality(Tasks) \in Nat /\ Cardinality(Tasks) >= 2
  <2>1. {"loop", "cmd"} \subseteq Tasks
    BY DEF Tasks
  <2> QED
    BY <1>2, <1>3, <2>1, FS_Subset, FS_CardinalityType
<1> QED
  BY <1>4 DEF Objs

LEMMA BlankTyped == Blank \in Record /\ Blank.st = "CLOSED"
  BY DEF Blank, Record

LEMMA IdleTyped ==
  /\ Idle \in TaskState /\ Idle.pc = "idle" /\ Idle.o = 0 /\ ~Idle.ok
<1>1. "idle" \in Pcs /\ FALSE \in BOOLEAN
  BY DEF Pcs
<1> QED
  BY <1>1 DEF Idle, TaskState

\* A task that moves on keeps what it holds.
LEMMA Moved ==
  ASSUME NEW s \in TaskState, NEW pc \in Pcs, NEW g \in Int
  PROVE  /\ [s EXCEPT !.pc = pc, !.got = g] \in TaskState
         /\ [s EXCEPT !.pc = pc, !.got = g].pc = pc
         /\ [s EXCEPT !.pc = pc, !.got = g].got = g
         /\ [s EXCEPT !.pc = pc, !.got = g].o = s.o
         /\ [s EXCEPT !.pc = pc, !.got = g].qty = s.qty
         /\ [s EXCEPT !.pc = pc, !.got = g].full = s.full
         /\ ~s.ok => ~[s EXCEPT !.pc = pc, !.got = g].ok
  BY DEF TaskState

LEMMA MovedOn ==
  ASSUME NEW s \in TaskState, NEW pc \in Pcs, NEW g \in Int, NEW b \in BOOLEAN
  PROVE  /\ [s EXCEPT !.pc = pc, !.got = g, !.ok = b] \in TaskState
         /\ [s EXCEPT !.pc = pc, !.ok = b] \in TaskState
<1>1. [s EXCEPT !.pc = pc, !.got = g, !.ok = b] \in TaskState
  BY DEF TaskState
<1>2. [s EXCEPT !.pc = pc, !.ok = b] \in TaskState
  BY DEF TaskState
<1> QED
  BY <1>1, <1>2

\* A task that begins with an object.
LEMMA Begun ==
  ASSUME NEW pc \in Pcs, NEW o \in {0} \cup Objs
  PROVE  /\ [Idle EXCEPT !.pc = pc, !.o = o] \in TaskState
         /\ [Idle EXCEPT !.pc = pc, !.o = o].pc = pc
         /\ [Idle EXCEPT !.pc = pc, !.o = o].o = o
         /\ ~[Idle EXCEPT !.pc = pc, !.o = o].ok
  BY IdleTyped DEF TaskState

\* A task that begins an exit order.
LEMMA BegunClose ==
  ASSUME NEW t, NEW o \in Objs, NEW q \in Int, NEW full \in BOOLEAN,
         SendClose(t, o, q, full)
  PROVE  \E r \in TaskState :
           /\ Becomes(t, r)
           /\ r.pc = "closing" /\ r.o = o /\ r.qty = q /\ (r.full <=> full) /\ ~r.ok
<1> DEFINE r == [Idle EXCEPT !.pc = "closing", !.o = o, !.qty = q, !.full = full]
<1>1. "closing" \in Pcs
  BY DEF Pcs, ClosePcs
<1>2. r \in TaskState
  BY <1>1, IdleTyped DEF TaskState
<1>3. r.pc = "closing" /\ r.o = o /\ r.qty = q /\ (r.full <=> full) /\ ~r.ok
  BY <1>1, IdleTyped DEF TaskState
<1>4. Becomes(t, r)
  BY DEF SendClose
<1> HIDE DEF r
<1> QED
  BY <1>2, <1>3, <1>4

LEMMA TaskStep ==
  ASSUME Records, NEW t \in Tasks, NEW r \in TaskState, Becomes(t, r)
  PROVE  /\ task' \in [Tasks -> TaskState] /\ task'[t] = r
         /\ \A u \in Tasks : u # t => task'[u] = task[u]
  BY DEF Records, Becomes

\* What a task that is done leaves of the positions: those that something refers to.
LEMMA KeptRecords ==
  ASSUME Records, NEW t \in Tasks, NEW positions \in [Objs -> Record],
         Becomes(t, Idle), obj' = Kept(t, positions)
  PROVE  /\ obj' \in [Objs -> Record]
         /\ reg \in Objs => obj'[reg] = positions[reg]
         /\ \A u \in Tasks : u # t /\ task[u].o \in Objs =>
              obj'[task[u].o] = positions[task[u].o]
         /\ \A o \in Objs : obj'[o].st # "CLOSED" => obj'[o] = positions[o]
  BY BlankTyped DEF Kept

LEMMA PartsInit == Init => Parts
<1> SUFFICES ASSUME Init
             PROVE  Parts
  OBVIOUS
<1>1. /\ ex = 0 /\ ~sl /\ sl \in BOOLEAN /\ reg = 0
      /\ \A t \in Tasks : task[t] = Idle
  BY DEF Init
<1>2. obj \in [Objs -> Record] /\ \A o \in Objs : obj[o].st = "CLOSED"
  BY BlankTyped DEF Init
<1>3. task \in [Tasks -> TaskState]
  BY IdleTyped DEF Init
<1>4. Records
  BY <1>1, <1>2, <1>3, IdleTyped DEF Records
<1>5. Loop = Idle /\ Cmd = Idle /\ \A r \in Recs : task[r] = Idle
  BY <1>1, Actors DEF Loop, Cmd
<1>6. ~Open /\ \A states : ~BotIn(states)
  BY <1>1 DEF Open, BotIn
<1> QED
  BY <1>1, <1>2, <1>4, <1>5, <1>6, IdleTyped
     DEF Parts, Watching, Trading, Commanded, Closing, Apart, Agree, EntryPcs

\* A step of the loop, of the command, or of a reconciliation.
LEMMA LoopStep ==
  ASSUME Records, Watching, NEW r \in TaskState, Becomes("loop", r),
         r.ok => r.pc \in {"verified", "reverified"}
  PROVE  /\ task' \in [Tasks -> TaskState] /\ Loop' = r /\ Cmd' = Cmd /\ Watching'
         /\ \A t \in Tasks : task'[t].ok => task'[t].pc \in {"verified", "reverified"}
<1>1. /\ task' \in [Tasks -> TaskState] /\ task'["loop"] = r
      /\ \A u \in Tasks : u # "loop" => task'[u] = task[u]
  BY Actors, TaskStep
<1> QED
  BY <1>1, Actors DEF Records, Watching, Loop, Cmd

LEMMA CmdStep ==
  ASSUME Records, Watching, NEW r \in TaskState, Becomes("cmd", r), ~r.ok
  PROVE  /\ task' \in [Tasks -> TaskState] /\ Cmd' = r /\ Loop' = Loop /\ Watching'
         /\ \A t \in Tasks : task'[t].ok => task'[t].pc \in {"verified", "reverified"}
<1>1. /\ task' \in [Tasks -> TaskState] /\ task'["cmd"] = r
      /\ \A u \in Tasks : u # "cmd" => task'[u] = task[u]
  BY Actors, TaskStep
<1> QED
  BY <1>1, Actors DEF Records, Watching, Loop, Cmd

LEMMA RecStep ==
  ASSUME Records, Watching, NEW t \in Recs, NEW r \in TaskState, Becomes(t, r), ~r.ok,
         r.pc \in {"idle", "snapped"}, r.o = 0
  PROVE  /\ task' \in [Tasks -> TaskState] /\ Loop' = Loop /\ Cmd' = Cmd /\ Watching'
         /\ \A u \in Tasks : task'[u].ok => task'[u].pc \in {"verified", "reverified"}
<1>1. /\ task' \in [Tasks -> TaskState] /\ task'[t] = r
      /\ \A u \in Tasks : u # t => task'[u] = task[u]
  BY Actors, TaskStep
<1> QED
  BY <1>1, Actors DEF Records, Watching, Loop, Cmd

\* A step that only moves the loop on, to where it holds what it did.
LEMMA GoesStep ==
  ASSUME Records, Watching, NEW pc \in Pcs, Goes("loop", pc)
  PROVE  /\ task' \in [Tasks -> TaskState] /\ Cmd' = Cmd /\ Watching'
         /\ Loop' = [Loop EXCEPT !.pc = pc, !.got = 0, !.ok = FALSE]
         /\ Loop'.pc = pc /\ Loop'.o = Loop.o /\ ~Loop'.ok
         /\ \A t \in Tasks : task'[t].ok => task'[t].pc \in {"verified", "reverified"}
<1> DEFINE r == [Loop EXCEPT !.pc = pc, !.got = 0, !.ok = FALSE]
<1>1. Loop \in TaskState
  BY Actors DEF Records, Loop
<1>2. r \in TaskState
  <2>1. FALSE \in BOOLEAN /\ 0 \in Int
    OBVIOUS
  <2> QED
    BY <1>1, <2>1, MovedOn, Zenon
<1>3. r.pc = pc /\ r.o = Loop.o /\ ~r.ok
  BY <1>1 DEF TaskState
<1>4. Becomes("loop", r)
  BY DEF Goes, Loop
<1> HIDE DEF r
<1>5. /\ task' \in [Tasks -> TaskState] /\ Loop' = r /\ Cmd' = Cmd /\ Watching'
      /\ \A t \in Tasks : task'[t].ok => task'[t].pc \in {"verified", "reverified"}
  BY <1>2, <1>3, <1>4, LoopStep
<1> QED
  BY <1>3, <1>5 DEF r

\* A new object is none that the command holds.
LEMMA RegisterStep ==
  ASSUME Records, Watching, Loop.o = 0, NEW src, NEW st, NEW qty, Register(src, st, qty)
  PROVE  /\ reg' \in Objs /\ reg' # Cmd.o
         /\ obj' = [o \in Objs |->
              IF o = reg' THEN [src |-> src, st |-> st, qty |-> qty, booked |-> 0]
              ELSE IF o \in {task[t].o : t \in Tasks} THEN obj[o] ELSE Blank]
<1> DEFINE used == {task[t].o : t \in Tasks}
<1>1. used \subseteq {0, Cmd.o} /\ Cmd.o \in used
  <2>1. \A t \in Tasks : task[t].o \in {0, Cmd.o}
    BY Actors DEF Watching, Loop, Cmd
  <2> QED
    BY <2>1, Actors DEF Cmd
<1>2. reg' = Min(Objs \ used)
  BY DEF Register
<1>3. obj' = [o \in Objs |->
        IF o = reg' THEN [src |-> src, st |-> st, qty |-> qty, booked |-> 0]
        ELSE IF o \in used THEN obj[o] ELSE Blank]
  BY DEF Register
<1> HIDE DEF used
<1>4. \E x \in Objs \ used : \A y \in Objs \ used : x <= y
  <2>1. \A y \in Objs : y \in Int /\ 1 <= y
    BY ObjsHaveThree DEF Objs
  <2>2. CASE 1 \notin used
    BY <2>1, <2>2, ObjsHaveThree
  <2>3. CASE 1 \in used
    <3>1. 2 \in Objs \ used
      BY <1>1, <2>3, ObjsHaveThree
    <3>2. \A y \in Objs \ used : 2 <= y
      BY <2>1, <2>3
    <3> QED
      BY <3>1, <3>2
  <2> QED
    BY <2>2, <2>3
<1>5. reg' \in Objs \ used
  BY <1>2, <1>4 DEF Min
<1> QED
  BY <1>1, <1>3, <1>5 DEF used

-----------------------------------------------------------------------------
\* The loop moves on without touching a record or a size.
LEMMA LoopMoves ==
  ASSUME Parts, NEW r \in TaskState, Becomes("loop", r), UNCHANGED <<ex, reg, obj>>,
         Loop.pc \notin {"closed", "logging", "opened"},
         r.pc \notin {"closed", "logging", "opened", "flattened", "snapped"},
         IF r.pc \in {"idle"} \cup EntryPcs THEN r.o = 0 ELSE reg # 0 /\ r.o = reg,
         r.ok => r.pc \in {"verified", "reverified"} /\ (sl \/ ex = 0),
         sl' \in BOOLEAN, sl => sl', sl' => ex > 0
  PROVE  Parts'
<1>1. /\ task' \in [Tasks -> TaskState] /\ Loop' = r /\ Cmd' = Cmd /\ Watching'
      /\ \A t \in Tasks : task'[t].ok => task'[t].pc \in {"verified", "reverified"}
  BY LoopStep DEF Parts
<1>2. CutOf(Loop) = 0 /\ CutOf(Loop)' = 0 /\ CutOf(Cmd)' = CutOf(Cmd)
  BY <1>1 DEF CutOf
<1>3. Records' /\ Trading' /\ Commanded'
  BY <1>1 DEF Parts, Records, Trading, Commanded
<1>4. Closing(Loop)' /\ Closing(Cmd)' /\ Apart'
  BY <1>1 DEF Parts, Closing, Apart
<1>5. Agree'
  BY <1>1, <1>2 DEF Parts, Agree, Open, BotIn
<1> QED
  BY <1>1, <1>3, <1>4, <1>5 DEF Parts

\* What the records may be when a task is done, while u goes on.
Leaves(u, positions) ==
  /\ \A o \in Objs : positions[o].st # "CLOSED" =>
       obj[o].st # "CLOSED" /\ positions[o].booked = 0 /\ positions[o].qty > 0
  /\ Open =>
       /\ ex = 0 \/ (positions[reg].st # "CLOSED" /\ ex = positions[reg].qty - CutOf(u))
       /\ positions[reg].st = "ACTIVE" /\ ex > 0 => sl
  /\ u.pc = "logging" /\ positions[u.o].st = "CLOSED" => positions[u.o].booked = 0

LEMMA LoopEnds ==
  ASSUME Parts, NEW positions \in [Objs -> Record], Becomes("loop", Idle),
         obj' = Kept("loop", positions), UNCHANGED <<ex, sl, reg>>,
         Leaves(Cmd, positions), Loop.pc = "opened" => Loop.got = 0 \/ Open
  PROVE  Parts'
<1>0. /\ Records /\ Watching /\ "loop" \in Tasks /\ "cmd" \in Tasks /\ "cmd" # "loop"
      /\ Cmd \in TaskState /\ ex \in Nat /\ reg \in {0} \cup Objs
  BY Actors DEF Parts, Records, Cmd
<1>1. /\ obj' \in [Objs -> Record]
      /\ reg \in Objs => obj'[reg] = positions[reg]
      /\ Cmd.o \in Objs => obj'[Cmd.o] = positions[Cmd.o]
      /\ \A o \in Objs : obj'[o].st # "CLOSED" => obj'[o] = positions[o]
  BY <1>0, KeptRecords DEF Cmd
<1>2. /\ task' \in [Tasks -> TaskState] /\ Loop' = Idle /\ Cmd' = Cmd /\ Watching'
      /\ \A t \in Tasks : task'[t].ok => task'[t].pc \in {"verified", "reverified"}
  BY <1>0, LoopStep, IdleTyped
<1>3. \A o \in Objs : obj'[o].st # "CLOSED" =>
        obj'[o] = positions[o] /\ obj[o].st # "CLOSED" /\ o = reg
        /\ positions[o].booked = 0 /\ positions[o].qty > 0
  BY <1>1 DEF Parts, Agree, Leaves
<1>4. Records' /\ Trading' /\ Commanded'
  BY <1>0, <1>1, <1>2, IdleTyped DEF Parts, Records, Trading, Commanded
<1>5. Closing(Loop)' /\ Apart'
  BY <1>2, IdleTyped DEF Closing, Apart
<1>6. Closing(Cmd)'
  <2>1. Cmd.pc \in ClosePcs => Cmd.o \in Objs
    BY DEF Parts, Commanded, ClosePcs
  <2>2. CASE Cmd.pc \in ClosePcs
    BY <1>1, <1>2, <1>3, <2>1, <2>2 DEF Parts, Closing, Leaves
  <2>3. CASE Cmd.pc \notin ClosePcs
    BY <1>2, <2>3 DEF Closing, ClosePcs
  <2> QED
    BY <2>2, <2>3
<1>7. Agree'
  <2>1. Open' => Open /\ reg \in Objs /\ obj'[reg] = positions[reg]
                 /\ positions[reg].st # "CLOSED"
    BY <1>0, <1>1, <1>3 DEF Open
  <2>2. CutOf(Loop)' = 0 /\ CutOf(Cmd)' = CutOf(Cmd)
    BY <1>2, IdleTyped DEF CutOf
  <2>3. Open' => ex = 0 \/ ex = (obj'[reg].qty - 0) - CutOf(Cmd)
    <3>1. Open' => positions[reg].qty \in Int
      BY <2>1 DEF Record
    <3> QED
      BY <2>1, <3>1 DEF Leaves
  <2>4. ~Open' => ex = 0
    <3>1. CASE Open
      BY <1>0, <1>1, <3>1 DEF Open, Leaves
    <3>2. CASE ~Open
      BY <3>2 DEF Parts, Agree
    <3> QED
      BY <3>1, <3>2
  <2>5. BotIn({"ACTIVE"})' /\ ex > 0 => sl
    <3>1. BotIn({"ACTIVE"})' => Open' /\ obj'[reg].st = "ACTIVE"
      BY DEF BotIn, Open
    <3> QED
      BY <2>1, <3>1 DEF Leaves
  <2> QED
    BY <1>2, <1>3, <2>2, <2>3, <2>4, <2>5 DEF Parts, Agree
<1> QED
  BY <1>2, <1>4, <1>5, <1>6, <1>7 DEF Parts

LEMMA CmdEnds ==
  ASSUME Parts, NEW positions \in [Objs -> Record], Becomes("cmd", Idle),
         obj' = Kept("cmd", positions), UNCHANGED <<ex, sl, reg>>, Leaves(Loop, positions)
  PROVE  Parts'
<1>0. /\ Records /\ Watching /\ "loop" \in Tasks /\ "cmd" \in Tasks /\ "cmd" # "loop"
      /\ Loop \in TaskState /\ ex \in Nat /\ reg \in {0} \cup Objs
  BY Actors DEF Parts, Records, Loop
<1>1. /\ obj' \in [Objs -> Record]
      /\ reg \in Objs => obj'[reg] = positions[reg]
      /\ Loop.o \in Objs => obj'[Loop.o] = positions[Loop.o]
      /\ \A o \in Objs : obj'[o].st # "CLOSED" => obj'[o] = positions[o]
  BY <1>0, KeptRecords DEF Loop
<1>2. /\ task' \in [Tasks -> TaskState] /\ Cmd' = Idle /\ Loop' = Loop /\ Watching'
      /\ \A t \in Tasks : task'[t].ok => task'[t].pc \in {"verified", "reverified"}
  BY <1>0, CmdStep, IdleTyped
<1>3. \A o \in Objs : obj'[o].st # "CLOSED" =>
        obj'[o] = positions[o] /\ obj[o].st # "CLOSED" /\ o = reg
        /\ positions[o].booked = 0 /\ positions[o].qty > 0
  BY <1>1 DEF Parts, Agree, Leaves
<1>a. Open' => Open /\ reg \in Objs /\ obj'[reg] = positions[reg]
               /\ positions[reg].st # "CLOSED"
  BY <1>0, <1>1, <1>3 DEF Open
<1>4. Records' /\ Trading' /\ Commanded'
  BY <1>0, <1>1, <1>2, <1>a, IdleTyped DEF Parts, Records, Trading, Commanded
<1>5. Closing(Cmd)' /\ Apart'
  BY <1>2, IdleTyped DEF Closing, Apart
<1>6. Closing(Loop)'
  <2>1. Loop.pc \in ClosePcs => Loop.o \in Objs
    BY <1>0, ObjsHaveThree DEF Parts, Trading, ClosePcs, EntryPcs
  <2>2. CASE Loop.pc \in ClosePcs
    BY <1>1, <1>2, <1>3, <2>1, <2>2 DEF Parts, Closing, Leaves
  <2>3. CASE Loop.pc \notin ClosePcs
    BY <1>2, <2>3 DEF Closing, ClosePcs
  <2> QED
    BY <2>2, <2>3
<1>7. Agree'
  <2>2. CutOf(Cmd)' = 0 /\ CutOf(Loop)' = CutOf(Loop)
    BY <1>2, IdleTyped DEF CutOf
  <2>3. Open' => ex = 0 \/ ex = (obj'[reg].qty - CutOf(Loop)) - 0
    <3>1. Open' => positions[reg].qty \in Int
      BY <1>a DEF Record
    <3>2. CutOf(Loop) \in Int
      BY <1>0 DEF CutOf, TaskState
    <3> QED
      BY <1>a, <3>1, <3>2 DEF Leaves
  <2>4. ~Open' => ex = 0 \/ (Loop.pc = "opened" /\ ex = Loop.got)
    <3>1. CASE Open
      BY <1>0, <1>1, <3>1 DEF Open, Leaves
    <3>2. CASE ~Open
      BY <3>2 DEF Parts, Agree
    <3> QED
      BY <3>1, <3>2
  <2>5. BotIn({"ACTIVE"})' /\ ex > 0 => sl
    <3>1. BotIn({"ACTIVE"})' => Open' /\ obj'[reg].st = "ACTIVE"
      BY DEF BotIn, Open
    <3> QED
      BY <1>a, <3>1 DEF Leaves
  <2> QED
    BY <1>2, <1>3, <2>2, <2>3, <2>4, <2>5 DEF Parts, Agree
<1> QED
  BY <1>2, <1>4, <1>5, <1>6, <1>7 DEF Parts

\* A task that leaves the records as they are, with no lots of its own on the way.
LEMMA LeavesAsIs ==
  ASSUME Parts
  PROVE  /\ CutOf(Loop) = 0 \/ (Open => ex = 0) => Leaves(Cmd, obj)
         /\ CutOf(Cmd) = 0 \/ (Open => ex = 0) => Leaves(Loop, obj)
<1>1. /\ Loop \in TaskState /\ Cmd \in TaskState
      /\ CutOf(Loop) \in Int /\ CutOf(Cmd) \in Int
      /\ (Open => obj[reg].qty \in Int /\ reg \in Objs)
  BY Actors DEF Parts, Records, Record, Loop, Cmd, CutOf, TaskState, Open
<1>2. Open /\ obj[reg].st = "ACTIVE" /\ ex > 0 => sl
  BY <1>1 DEF Parts, Agree, Records, Record, BotIn, Open
<1>3. \A o \in Objs : obj[o].st # "CLOSED" => obj[o].booked = 0 /\ obj[o].qty > 0
  BY DEF Parts, Agree
<1>4. Open => ex = 0 \/ ex = (obj[reg].qty - CutOf(Loop)) - CutOf(Cmd)
  BY DEF Parts, Agree
<1>5. Open => obj[reg].st # "CLOSED"
  BY DEF Open
<1>6. /\ Cmd.pc = "logging" /\ obj[Cmd.o].st = "CLOSED" => obj[Cmd.o].booked = 0
      /\ Loop.pc = "logging" /\ obj[Loop.o].st = "CLOSED" => obj[Loop.o].booked = 0
  BY DEF Parts, Closing
<1>7. CutOf(Loop) = 0 => (Open => ex = 0 \/ ex = obj[reg].qty - CutOf(Cmd))
  BY <1>1, <1>4
<1>8. CutOf(Cmd) = 0 => (Open => ex = 0 \/ ex = obj[reg].qty - CutOf(Loop))
  BY <1>1, <1>4
<1> QED
  BY <1>2, <1>3, <1>5, <1>6, <1>7, <1>8 DEF Leaves

-----------------------------------------------------------------------------
\* An entry.
LEMMA EnterInStep ==
  ASSUME Parts, ~amiss', Enter
  PROVE  Parts'
<1>0. /\ Records /\ Watching /\ Loop \in TaskState /\ Cmd \in TaskState
      /\ ex \in Nat /\ sl \in BOOLEAN /\ reg \in {0} \cup Objs /\ obj \in [Objs -> Record]
      /\ (sl => ex > 0)
  BY Actors DEF Parts, Records, Agree, Loop, Cmd
<1>a. ASSUME NEW pc \in Pcs, Goes("loop", pc), UNCHANGED <<ex, sl, reg, obj>>,
             pc \in {"gated", "opening"}, Loop.pc \in {"idle", "gated"}
      PROVE  Parts'
  <2> DEFINE r == [Loop EXCEPT !.pc = pc, !.got = 0, !.ok = FALSE]
  <2>1. FALSE \in BOOLEAN /\ 0 \in Int
    OBVIOUS
  <2>2. r \in TaskState
    BY <1>0, <2>1, MovedOn, Zenon
  <2>3. r.pc = pc /\ r.o = Loop.o /\ ~r.ok
    BY <1>0 DEF TaskState
  <2>4. Becomes("loop", r)
    BY <1>a DEF Goes, Loop
  <2> HIDE DEF r
  <2>5. Loop.o = 0
    BY <1>a DEF Parts, Trading, EntryPcs
  <2> QED
    BY <1>0, <1>a, <2>2, <2>3, <2>4, <2>5, LoopMoves DEF EntryPcs
<1>b. "gated" \in Pcs /\ "opening" \in Pcs /\ "opened" \in Pcs
  BY DEF Pcs, EntryPcs
<1>1. CASE Approve
  BY <1>1, <1>a, <1>b DEF Approve, Loop
<1>2. CASE SendEntry
  BY <1>2, <1>a, <1>b DEF SendEntry, Loop
<1>3. CASE FillEntry
  <2>1. PICK f \in IF "partial" \in Faults THEN 0..Lots ELSE {0, Lots} :
          /\ ex' = ex + f
          /\ sl' \in {sl \/ f > 0} \cup IF "unattached" \in Faults THEN {sl} ELSE {}
          /\ Becomes("loop", [Loop EXCEPT !.pc = "opened", !.got = f])
          /\ Notes(f > 0 /\ Open)
    BY <1>3 DEF FillEntry, Loop
  <2>2. /\ UNCHANGED <<reg, obj>> /\ Loop.pc = "opening" /\ Loop.o = 0
    BY <1>3 DEF FillEntry, Loop, Parts, Trading, EntryPcs
  <2>3. f \in Nat
    BY <2>1, SyncAssumption DEF SyncAssumption
  <2>4. f > 0 => ~Open /\ ex = 0 /\ ~sl
    <3>1. f > 0 => ~Open
      BY <2>1 DEF Notes
    <3> QED
      BY <1>0, <2>2, <3>1 DEF Parts, Agree
  <2> DEFINE r == [Loop EXCEPT !.pc = "opened", !.got = f]
  <2>5. ~Loop.ok
    BY <2>2, Actors DEF Parts, Records, Loop
  <2>6. r \in TaskState /\ r.pc = "opened" /\ r.got = f /\ r.o = Loop.o /\ ~r.ok
    <3>1. f \in Int
      BY <2>3
    <3>2. r \in TaskState
      BY <1>0, <1>b, <3>1 DEF TaskState
    <3> QED
      BY <1>0, <2>5, <3>2 DEF TaskState
  <2>7. Becomes("loop", r)
    BY <2>1
  <2> HIDE DEF r
  <2>8. /\ task' \in [Tasks -> TaskState] /\ Loop' = r /\ Cmd' = Cmd /\ Watching'
        /\ \A t \in Tasks : task'[t].ok => task'[t].pc \in {"verified", "reverified"}
    BY <1>0, <2>6, <2>7, LoopStep
  <2>9. /\ ex' \in Nat /\ ex' = ex + f /\ sl' \in BOOLEAN /\ (sl' => ex' > 0) /\ (sl => sl')
        /\ (f = 0 => ex' = ex)
    <3> DEFINE filled == f > 0
    <3>1. filled \in BOOLEAN
      OBVIOUS
    <3>2. sl' \in {sl \/ filled, sl}
      BY <2>1
    <3>3. filled => f > 0
      OBVIOUS
    <3> HIDE DEF filled
    <3>4. sl' \in BOOLEAN /\ (sl' => sl \/ filled) /\ (sl => sl')
      BY <1>0, <3>1, <3>2, Zenon
    <3>5. ex' = ex + f
      BY <2>1
    <3> QED
      BY <1>0, <2>3, <3>3, <3>4, <3>5
  <2>10. CutOf(Loop) = 0 /\ CutOf(Loop)' = 0 /\ CutOf(Cmd)' = CutOf(Cmd)
    BY <2>2, <2>6, <2>8 DEF CutOf
  <2>11. Open' <=> Open
    BY <2>2 DEF Open
  <2>12. Records' /\ Trading' /\ Commanded'
    BY <1>0, <2>2, <2>3, <2>4, <2>6, <2>8, <2>9, <2>11
       DEF Parts, Records, Trading, Commanded, EntryPcs
  <2>13. Closing(Loop)' /\ Apart'
    BY <2>6, <2>8 DEF Closing, Apart
  <2>14. Closing(Cmd)'
    <3>1. Cmd.pc = "closed" /\ obj[Cmd.o].st # "CLOSED" => Open
      BY <1>0, ObjsHaveThree DEF Parts, Commanded, Agree, Open
    <3> QED
      BY <2>2, <2>3, <2>4, <2>8, <2>9, <3>1 DEF Parts, Closing
  <2>15. Agree'
    <3>1. ~Open => ex = 0
      BY <2>2 DEF Parts, Agree
    <3>2. BotIn({"ACTIVE"}) => Open
      BY DEF BotIn, Open
    <3>3. BotIn({"ACTIVE"})' => BotIn({"ACTIVE"}) /\ f = 0
      BY <2>2, <2>3, <2>4, <3>2 DEF BotIn
    <3>4. BotIn({"ACTIVE"})' /\ ex' > 0 => sl'
      BY <2>9, <3>3 DEF Parts, Agree
    <3>5. ~Open' => ex' = 0 \/ (Loop'.pc = "opened" /\ ex' = Loop'.got)
      BY <1>0, <2>3, <2>6, <2>8, <2>9, <2>11, <3>1
    <3>6. Open' => f = 0 /\ ex' = ex /\ Open
      BY <2>3, <2>4, <2>9, <2>11
    <3> QED
      BY <2>2, <2>9, <2>10, <3>4, <3>5, <3>6 DEF Parts, Agree
  <2> QED
    BY <2>8, <2>12, <2>13, <2>14, <2>15 DEF Parts
<1>4. CASE EntryUnfilled \/ EntryRaises
  <2>1. /\ Becomes("loop", Idle) /\ obj' = Kept("loop", obj) /\ UNCHANGED <<ex, sl, reg>>
        /\ Loop.pc \in {"opening", "opened"}
    BY <1>4 DEF EntryUnfilled, EntryRaises, Finish, Loop
  <2>2. Loop.pc = "opened" => Loop.got = 0
    <3>1. Loop.pc = "opened" => Loop.got \in Nat
      BY DEF Parts, Trading
    <3>2. CASE EntryUnfilled
      BY <3>2 DEF EntryUnfilled, Loop
    <3>3. CASE EntryRaises
      <4>1. ~(Loop.pc = "opened" /\ Loop.got > 0)
        BY <3>3 DEF EntryRaises, Notes, Loop
      <4> QED
        BY <3>1, <4>1
    <3> QED
      BY <1>4, <3>2, <3>3
  <2>3. Leaves(Cmd, obj)
    BY <2>1, LeavesAsIs DEF CutOf
  <2> QED
    BY <1>0, <2>1, <2>2, <2>3, LoopEnds
<1>6. CASE EntryFilled
  <2> DEFINE r == [Idle EXCEPT !.pc = "confirm", !.o = reg']
  <2>1. /\ Loop.pc = "opened" /\ Loop.got > 0 /\ UNCHANGED <<ex, sl>>
        /\ Register("BOT", "PENDING", Loop.got) /\ Becomes("loop", r)
    BY <1>6 DEF EntryFilled, Loop
  <2>2. ~Open /\ Loop.o = 0 /\ (ex = 0 \/ ex = Loop.got) /\ Loop.got \in Nat
    BY <2>1 DEF Parts, Trading, Agree, EntryPcs
  <2>3. /\ reg' \in Objs /\ reg' # Cmd.o
        /\ obj' = [o \in Objs |->
             IF o = reg' THEN [src |-> "BOT", st |-> "PENDING", qty |-> Loop.got, booked |-> 0]
             ELSE IF o \in {task[t].o : t \in Tasks} THEN obj[o] ELSE Blank]
    BY <1>0, <2>1, <2>2, RegisterStep
  <2>4. /\ r \in TaskState /\ r.pc = "confirm" /\ r.o = reg' /\ ~r.ok
    <3>1. "confirm" \in Pcs /\ FALSE \in BOOLEAN /\ 0 \in Int /\ reg' \in {0} \cup Objs
      BY <2>3 DEF Pcs, ProtectPcs
    <3> QED
      BY <3>1, Begun
  <2> HIDE DEF r
  <2>5. /\ task' \in [Tasks -> TaskState] /\ Loop' = r /\ Cmd' = Cmd /\ Watching'
        /\ \A t \in Tasks : task'[t].ok => task'[t].pc \in {"verified", "reverified"}
    BY <1>0, <2>1, <2>4, LoopStep
  <2>6. \A o \in Objs : obj[o].st = "CLOSED"
    BY <2>2, ObjsHaveThree DEF Parts, Agree, Open
  <2>7. /\ obj'[reg'].src = "BOT" /\ obj'[reg'].st = "PENDING"
        /\ obj'[reg'].qty = Loop.got /\ obj'[reg'].booked = 0
    BY <2>3
  <2>8. \A o \in Objs : o # reg' => obj'[o].st = "CLOSED"
    BY <2>3, <2>6, BlankTyped
  <2>9. obj' \in [Objs -> Record]
    <3>1. [src |-> "BOT", st |-> "PENDING", qty |-> Loop.got, booked |-> 0] \in Record
      BY <2>2 DEF Record
    <3> QED
      BY <1>0, <2>3, <3>1, BlankTyped
  <2>10. Cmd.o \in Objs => obj'[Cmd.o] = obj[Cmd.o]
    BY <2>3, Actors DEF Cmd
  <2>11. Open' /\ reg' # 0 /\ reg' \in {0} \cup Objs
    BY <2>3, <2>7, ObjsHaveThree DEF Open
  <2>12. Records' /\ Trading' /\ Commanded'
    BY <1>0, <2>1, <2>4, <2>5, <2>9, <2>11
       DEF Parts, Records, Trading, Commanded, EntryPcs
  <2>13. Closing(Loop)' /\ Apart'
    BY <2>4, <2>5 DEF Closing, Apart
  <2>14. Closing(Cmd)'
    BY <2>1, <2>5, <2>10 DEF Parts, Closing, Commanded
  <2>15. Agree'
    <3>1. CutOf(Loop)' = 0 /\ CutOf(Cmd)' = 0
      BY <2>3, <2>4, <2>5 DEF CutOf
    <3>2. ~BotIn({"ACTIVE"})'
      BY <2>7 DEF BotIn
    <3> QED
      BY <1>0, <2>1, <2>2, <2>7, <2>8, <2>11, <3>1, <3>2 DEF Agree
  <2> QED
    BY <2>5, <2>12, <2>13, <2>14, <2>15 DEF Parts
<1> QED
  BY <1>1, <1>2, <1>3, <1>4, <1>6 DEF Enter

-----------------------------------------------------------------------------
\* Nobody but the loop protects: reconciliation finds nothing to resync.
LEMMA OnlyLoopProtects ==
  ASSUME Parts, NEW t \in Tasks, Protect(t)
  PROVE  t = "loop" /\ Loop.pc \in ProtectPcs
<1>1. task[t].pc \in ProtectPcs
  BY DEF Protect, Confirm, Confirmed, Verify, Activate, Unverified, SetStop,
         SetStopRaises, ProtectRaises, Flatten, Flattened, FlattenRaises, ProtectPcs
<1> QED
  BY <1>1, Actors DEF Parts, Watching, Commanded, Cmd, Loop, ProtectPcs, ClosePcs

\* A protection that ends, with this record.
LEMMA ProtectEnds ==
  ASSUME Parts, NEW positions \in [Objs -> Record], Finish("loop", positions),
         UNCHANGED <<ex, sl, reg>>, Loop.pc \in ProtectPcs,
         \A o \in Objs : o # reg => positions[o] = obj[o],
         positions[reg].booked = obj[reg].booked /\ positions[reg].qty = obj[reg].qty,
         positions[reg].st # "CLOSED" => obj[reg].st # "CLOSED",
         positions[reg].st = "CLOSED" => obj[reg].st = "CLOSED" \/ ex = 0,
         positions[reg].st = "ACTIVE" /\ ex > 0 => sl \/ positions = obj
  PROVE  Parts'
<1>1. /\ reg \in Objs /\ reg # 0 /\ Cmd \in TaskState /\ CutOf(Loop) = 0 /\ Loop.pc # "opened"
      /\ obj[reg] \in Record /\ (Cmd.pc = "logging" => Cmd.o \in Objs)
  BY Actors DEF Parts, Records, Trading, Commanded, Cmd, Loop, CutOf, ProtectPcs, EntryPcs,
                ClosePcs
<1>2. Leaves(Cmd, obj)
  BY <1>1, LeavesAsIs
<1>3. \A o \in Objs : positions[o].st # "CLOSED" =>
        obj[o].st # "CLOSED" /\ positions[o].booked = 0 /\ positions[o].qty > 0
  BY <1>1, <1>2 DEF Leaves
<1>4. Open => /\ ex = 0 \/ (positions[reg].st # "CLOSED" /\ ex = positions[reg].qty - CutOf(Cmd))
              /\ positions[reg].st = "ACTIVE" /\ ex > 0 => sl
  BY <1>1, <1>2 DEF Leaves, Open
<1>5. Cmd.pc = "logging" /\ positions[Cmd.o].st = "CLOSED" => positions[Cmd.o].booked = 0
  <2>1. \A o \in Objs : obj[o].st # "CLOSED" => obj[o].booked = 0
    BY DEF Parts, Agree
  <2>2. \A o \in Objs : positions[o].booked = obj[o].booked
    BY <1>1
  <2> QED
    BY <1>1, <1>2, <2>1, <2>2 DEF Leaves
<1>6. Leaves(Cmd, positions)
  BY <1>3, <1>4, <1>5 DEF Leaves
<1> QED
  BY <1>1, <1>6, LoopEnds DEF Finish

\* A protection.
LEMMA ProtectInStep ==
  ASSUME Parts, ~amiss', NEW t \in Tasks, Protect(t)
  PROVE  Parts'
<1>0. /\ t = "loop" /\ Loop.pc \in ProtectPcs /\ Loop = task[t]
      /\ Loop \in TaskState /\ ex \in Nat /\ sl \in BOOLEAN
      /\ obj \in [Objs -> Record] /\ reg \in Objs /\ reg # 0 /\ Loop.o = reg
      /\ (sl => ex > 0) /\ (Loop.ok => Loop.pc \in {"verified", "reverified"})
      /\ Records /\ Watching
  BY OnlyLoopProtects, Actors
     DEF Parts, Records, Trading, Agree, Loop, ProtectPcs, EntryPcs
<1>a. /\ obj[reg] \in Record /\ (Open <=> obj[reg].st # "CLOSED")
  BY <1>0 DEF Open
<1>b. ASSUME NEW pc \in Pcs, pc \in ProtectPcs \ {"flattened"}, Goes(t, pc),
             UNCHANGED <<ex, reg, obj>>, sl' \in BOOLEAN, sl => sl', sl' => ex > 0
      PROVE  Parts'
  <2> DEFINE r == [Loop EXCEPT !.pc = pc, !.got = 0, !.ok = FALSE]
  <2>1. FALSE \in BOOLEAN /\ 0 \in Int
    OBVIOUS
  <2>2. r \in TaskState
    BY <1>0, <1>b, <2>1, MovedOn, Zenon
  <2>3. r.pc = pc /\ r.o = Loop.o /\ ~r.ok
    BY <1>0 DEF TaskState
  <2>4. Becomes("loop", r)
    BY <1>0, <1>b DEF Goes
  <2> HIDE DEF r
  <2> QED
    BY <1>0, <1>b, <2>2, <2>3, <2>4, LoopMoves DEF ProtectPcs, EntryPcs
<1>1. CASE Confirm(t)
  <2>1. /\ \E s \in {ex, 0} : Becomes("loop", [Loop EXCEPT !.pc = "confirmed", !.got = s])
        /\ UNCHANGED <<ex, sl, reg, obj>> /\ Loop.pc = "confirm"
    BY <1>0, <1>1 DEF Confirm
  <2>2. PICK s \in {ex, 0} : Becomes("loop", [Loop EXCEPT !.pc = "confirmed", !.got = s])
    BY <2>1
  <2> DEFINE r == [Loop EXCEPT !.pc = "confirmed", !.got = s]
  <2>3. r \in TaskState /\ r.pc = "confirmed" /\ r.o = Loop.o /\ ~r.ok
    <3>1. s \in Int /\ "confirmed" \in Pcs /\ ~Loop.ok
      BY <1>0, <2>1, <2>2 DEF Pcs, ProtectPcs
    <3>2. r \in TaskState
      BY <1>0, <3>1 DEF TaskState
    <3> QED
      BY <1>0, <3>1, <3>2 DEF TaskState
  <2>4. Becomes("loop", r)
    BY <2>2
  <2> HIDE DEF r
  <2> QED
    BY <1>0, <2>1, <2>3, <2>4, LoopMoves DEF EntryPcs
<1>2. CASE Confirmed(t)
  <2>1. /\ Goes("loop", "verify") /\ UNCHANGED <<ex, sl, reg>> /\ Loop.pc = "confirmed"
        /\ obj' = IF Loop.got > 0 THEN [obj EXCEPT ![reg].qty = Loop.got] ELSE obj
        /\ Notes(Loop.got > 0 /\ obj[reg].st # "CLOSED" /\ obj[reg].qty # Loop.got)
    BY <1>0, <1>2 DEF Confirmed
  <2>2. obj[reg].st # "CLOSED" /\ Loop.got > 0 => Loop.got = obj[reg].qty
    BY <2>1 DEF Notes
  <2>3. /\ task' \in [Tasks -> TaskState] /\ Cmd' = Cmd /\ Watching'
        /\ Loop'.pc = "verify" /\ Loop'.o = Loop.o /\ ~Loop'.ok
        /\ \A u \in Tasks : task'[u].ok => task'[u].pc \in {"verified", "reverified"}
    BY <1>0, <2>1, GoesStep DEF Pcs, ProtectPcs
  <2>4. /\ obj' \in [Objs -> Record] /\ \A o \in Objs : o # reg => obj'[o] = obj[o]
        /\ obj'[reg].st = obj[reg].st /\ obj'[reg].booked = obj[reg].booked
        /\ obj'[reg].src = obj[reg].src
        /\ obj[reg].st # "CLOSED" => obj'[reg].qty = obj[reg].qty
    <3>1. Loop.got \in Int
      BY <1>0 DEF TaskState
    <3>2. CASE Loop.got > 0
      <4>1. obj' = [obj EXCEPT ![reg].qty = Loop.got]
        BY <2>1, <3>2
      <4> QED
        BY <1>0, <2>2, <3>1, <3>2, <4>1 DEF Record
    <3>3. CASE ~(Loop.got > 0)
      BY <1>0, <2>1, <3>3
    <3> QED
      BY <3>2, <3>3
  <2>5. \A o \in Objs : /\ obj'[o].st = obj[o].st /\ obj'[o].booked = obj[o].booked
                        /\ obj[o].st # "CLOSED" => obj'[o].qty = obj[o].qty
    BY <2>4
  <2>6. /\ Open' <=> Open
        /\ BotIn({"ACTIVE"})' <=> BotIn({"ACTIVE"})
        /\ Open => obj'[reg].qty = obj[reg].qty
    BY <1>0, <2>1, <2>4 DEF Open, BotIn
  <2>7. CutOf(Loop) = 0 /\ CutOf(Loop)' = 0 /\ CutOf(Cmd)' = CutOf(Cmd)
    BY <2>1, <2>3 DEF CutOf
  <2>8. Records' /\ Trading' /\ Commanded'
    BY <1>0, <2>1, <2>3, <2>4 DEF Parts, Records, Trading, Commanded, EntryPcs
  <2>9. Closing(Loop)' /\ Apart'
    BY <2>3 DEF Closing, Apart
  <2>10. Closing(Cmd)'
    <3>1. Cmd.pc \in ClosePcs => Cmd.o \in Objs
      BY DEF Parts, Commanded, ClosePcs
    <3>2. CASE Cmd.pc \in ClosePcs
      BY <2>1, <2>3, <2>5, <3>1, <3>2 DEF Parts, Closing
    <3>3. CASE Cmd.pc \notin ClosePcs
      BY <2>3, <3>3 DEF Closing, ClosePcs
    <3> QED
      BY <3>2, <3>3
  <2>11. Agree'
    BY <2>1, <2>3, <2>5, <2>6, <2>7 DEF Parts, Agree
  <2> QED
    BY <2>3, <2>8, <2>9, <2>10, <2>11 DEF Parts
<1>3. CASE Verify(t)
  <2> DEFINE next == IF Loop.pc = "verify" THEN "verified" ELSE "reverified"
  <2>1. /\ UNCHANGED <<ex, sl, reg, obj>> /\ Loop.pc \in {"verify", "reverify"}
        /\ \E ok \in {sl, FALSE} : Becomes("loop", [Loop EXCEPT !.pc = next, !.ok = ok])
    BY <1>0, <1>3 DEF Verify, TaskState
  <2>2. PICK ok \in BOOLEAN : /\ Becomes("loop", [Loop EXCEPT !.pc = next, !.ok = ok])
                              /\ ok => sl
    BY <1>0, <2>1
  <2>3. /\ next \in Pcs /\ next \in {"verified", "reverified"}
    BY DEF Pcs, ProtectPcs
  <2> HIDE DEF next
  <2> DEFINE r == [Loop EXCEPT !.pc = next, !.ok = ok]
  <2>4. r \in TaskState /\ r.pc = next /\ r.o = Loop.o /\ (r.ok <=> ok)
    BY <1>0, <2>2, <2>3 DEF TaskState
  <2>5. Becomes("loop", r)
    BY <2>2
  <2> HIDE DEF r
  <2> QED
    BY <1>0, <2>1, <2>2, <2>3, <2>4, <2>5, LoopMoves DEF EntryPcs
<1>4. CASE Activate(t)
  <2> DEFINE positions == [obj EXCEPT ![reg].st = "ACTIVE"]
  <2>1. /\ Finish("loop", positions) /\ UNCHANGED <<ex, sl, reg>> /\ Loop.ok
        /\ Notes(obj[reg].st = "CLOSED")
    BY <1>0, <1>4 DEF Activate
  <2>2. obj[reg].st # "CLOSED" /\ (sl \/ ex = 0)
    BY <2>1 DEF Notes, Parts, Trading
  <2>3. /\ positions \in [Objs -> Record] /\ \A o \in Objs : o # reg => positions[o] = obj[o]
        /\ positions[reg].st = "ACTIVE" /\ positions[reg].qty = obj[reg].qty
        /\ positions[reg].booked = obj[reg].booked
    BY <1>0 DEF Record
  <2> HIDE DEF positions
  <2> QED
    BY <1>0, <2>1, <2>2, <2>3, ProtectEnds
<1>5. CASE Unverified(t)
  <2>1. "set" \in Pcs /\ "set" \in ProtectPcs \ {"flattened"}
    BY DEF Pcs, ProtectPcs
  <2> QED
    BY <1>0, <1>5, <1>b, <2>1 DEF Unverified
<1>6. CASE SetStop(t)
  <2>1. "reverify" \in Pcs /\ "reverify" \in ProtectPcs \ {"flattened"}
    BY DEF Pcs, ProtectPcs
  <2>2. /\ Goes(t, "reverify") /\ UNCHANGED <<ex, reg, obj>> /\ ex > 0 /\ sl' \in {TRUE, sl}
    BY <1>6 DEF SetStop
  <2>3. sl' \in BOOLEAN /\ (sl => sl')
    <3>1. TRUE \in BOOLEAN
      OBVIOUS
    <3>2. CASE sl' = TRUE
      BY <3>1, <3>2
    <3>3. CASE sl' = sl
      BY <1>0, <3>3
    <3> QED
      BY <2>2, <3>2, <3>3
  <2> QED
    BY <1>b, <2>1, <2>2, <2>3
<1>7. CASE SetStopRaises(t) \/ ProtectRaises(t) \/ FlattenRaises(t)
  <2>1. Finish("loop", obj) /\ UNCHANGED <<ex, sl, reg>>
    BY <1>0, <1>7 DEF SetStopRaises, ProtectRaises, FlattenRaises
  <2> QED
    BY <1>0, <2>1, ProtectEnds
<1>8. CASE Flatten(t)
  <2> DEFINE r == [Loop EXCEPT !.pc = "flattening", !.qty = obj[reg].qty]
  <2>1. Becomes("loop", r) /\ UNCHANGED <<ex, sl, reg, obj>> /\ Loop.pc = "reverified" /\ ~Loop.ok
    BY <1>0, <1>8 DEF Flatten
  <2>2. "flattening" \in Pcs /\ obj[reg].qty \in Int
    BY <1>a DEF Pcs, ProtectPcs, Record
  <2>3. r \in TaskState /\ r.pc = "flattening" /\ r.o = Loop.o /\ ~r.ok
    BY <1>0, <2>1, <2>2 DEF TaskState
  <2> HIDE DEF r
  <2> QED
    BY <1>0, <2>1, <2>3, LoopMoves DEF EntryPcs
<1>9. CASE Flattened(t)
  <2> DEFINE positions == [obj EXCEPT ![reg].st = "CLOSED"]
  <2>1. /\ Loop.pc = "flattened" /\ UNCHANGED <<ex, sl, reg>>
        /\ Finish("loop", IF Loop.got > 0 THEN positions ELSE obj)
    BY <1>0, <1>9 DEF Flattened
  <2>2. CASE Loop.got > 0
    <3>1. ex = 0 /\ Finish("loop", positions)
      BY <2>1, <2>2 DEF Parts, Trading
    <3>2. /\ positions \in [Objs -> Record] /\ \A o \in Objs : o # reg => positions[o] = obj[o]
          /\ positions[reg].st = "CLOSED" /\ positions[reg].booked = obj[reg].booked
          /\ positions[reg].qty = obj[reg].qty
      BY <1>0 DEF Record
    <3> HIDE DEF positions
    <3> QED
      BY <1>0, <2>1, <3>1, <3>2, ProtectEnds
  <2>3. CASE ~(Loop.got > 0)
    <3>1. Finish("loop", obj)
      BY <2>1, <2>3
    <3> QED
      BY <1>0, <2>1, <3>1, ProtectEnds
  <2> QED
    BY <2>2, <2>3
<1> QED
  BY <1>1, <1>2, <1>3, <1>4, <1>5, <1>6, <1>7, <1>8, <1>9 DEF Protect

-----------------------------------------------------------------------------
\* The trading loop decides an exit, sends it or does not, or reduces.
LEMMA ManageInStep ==
  ASSUME Parts, Manage
  PROVE  Parts'
<1>0. /\ Records /\ Watching /\ Loop \in TaskState /\ Cmd \in TaskState
      /\ ex \in Nat /\ sl \in BOOLEAN /\ reg \in {0} \cup Objs /\ obj \in [Objs -> Record]
      /\ (sl => ex > 0) /\ 0 \notin Objs
  BY Actors, ObjsHaveThree DEF Parts, Records, Agree, Loop, Cmd
<1>a. \A o \in Objs : obj[o].qty \in Int
  BY <1>0 DEF Record
<1>b. TRUE \in BOOLEAN /\ FALSE \in BOOLEAN
  OBVIOUS
<1>1. CASE Exit
  <2> DEFINE r == [Idle EXCEPT !.pc = "exiting", !.o = reg]
  <2>1. /\ Loop.pc = "idle" /\ UNCHANGED <<ex, sl, reg>> /\ Becomes("loop", r)
        /\ reg \in Objs /\ reg # 0 /\ obj[reg].st = "ACTIVE"
        /\ obj' = [obj EXCEPT ![reg].st = "CLOSING"]
    BY <1>0, <1>1 DEF Exit, BotIn, Loop
  <2>2. r \in TaskState /\ r.pc = "exiting" /\ r.o = reg /\ ~r.ok
    <3>1. "exiting" \in Pcs /\ reg \in {0} \cup Objs
      BY <1>0 DEF Pcs
    <3> QED
      BY <3>1, Begun
  <2> HIDE DEF r
  <2>3. /\ task' \in [Tasks -> TaskState] /\ Loop' = r /\ Cmd' = Cmd /\ Watching'
        /\ \A u \in Tasks : task'[u].ok => task'[u].pc \in {"verified", "reverified"}
    BY <1>0, <2>1, <2>2, LoopStep
  <2>4. /\ obj' \in [Objs -> Record] /\ \A o \in Objs : o # reg => obj'[o] = obj[o]
        /\ obj'[reg].st = "CLOSING" /\ obj'[reg].booked = obj[reg].booked
        /\ obj'[reg].qty = obj[reg].qty
    BY <1>0, <2>1 DEF Record
  <2>5. \A o \in Objs : /\ obj'[o].qty = obj[o].qty /\ obj'[o].booked = obj[o].booked
                        /\ obj'[o].st # "CLOSED" <=> obj[o].st # "CLOSED"
    BY <2>1, <2>4
  <2>6. Open /\ Open' /\ ~BotIn({"ACTIVE"})'
    BY <2>1, <2>4 DEF Open, BotIn
  <2>7. CutOf(Loop) = 0 /\ CutOf(Loop)' = 0 /\ CutOf(Cmd)' = CutOf(Cmd)
    BY <2>1, <2>2, <2>3 DEF CutOf
  <2>8. Records' /\ Trading' /\ Commanded'
    BY <1>0, <2>1, <2>2, <2>3, <2>4 DEF Parts, Records, Trading, Commanded, EntryPcs
  <2>9. Closing(Loop)' /\ Apart'
    BY <2>2, <2>3 DEF Closing, Apart
  <2>10. Closing(Cmd)'
    <3>1. Cmd.pc \in ClosePcs => Cmd.o \in Objs
      BY DEF Parts, Commanded, ClosePcs
    <3>2. CASE Cmd.pc \in ClosePcs
      BY <2>1, <2>3, <2>5, <3>1, <3>2 DEF Parts, Closing
    <3>3. CASE Cmd.pc \notin ClosePcs
      BY <2>3, <3>3 DEF Closing, ClosePcs
    <3> QED
      BY <3>2, <3>3
  <2>11. Agree'
    BY <2>1, <2>3, <2>5, <2>6, <2>7 DEF Parts, Agree
  <2> QED
    BY <2>3, <2>8, <2>9, <2>10, <2>11 DEF Parts
<1>2. ASSUME NEW o \in Objs, NEW q \in Int, NEW full \in BOOLEAN,
             SendClose("loop", o, q, full), UNCHANGED <<ex, sl, reg, obj>>,
             Loop.pc \in {"idle", "exiting"}, o = reg
      PROVE  Parts'
  <2>1. PICK r \in TaskState : /\ Becomes("loop", r)
                               /\ r.pc = "closing" /\ r.o = o /\ ~r.ok
    BY <1>2, BegunClose
  <2>2. reg # 0
    BY <1>0, <1>2
  <2> QED
    BY <1>0, <1>2, <2>1, <2>2, LoopMoves DEF EntryPcs
<1>3. CASE SendExit
  <2>1. Loop.pc = "exiting" /\ UNCHANGED <<ex, sl, reg, obj>>
    BY <1>3 DEF SendExit, Loop
  <2>2. Loop.o = reg /\ reg \in Objs
    BY <1>0, <2>1 DEF Parts, Trading, EntryPcs
  <2>3. SendClose("loop", reg, obj[reg].qty, TRUE)
    BY <1>3, <2>2 DEF SendExit, Loop
  <2>4. obj[reg].qty \in Int
    BY <1>a, <2>2
  <2> QED
    BY <1>2, <1>b, <2>1, <2>2, <2>3, <2>4
<1>4. CASE Reduce
  <2>1. PICK q \in 1 .. obj[reg].qty - 1 : SendClose("loop", reg, q, FALSE)
    BY <1>4 DEF Reduce
  <2>2. reg \in Objs /\ Loop.pc = "idle" /\ UNCHANGED <<ex, sl, reg, obj>>
    BY <1>0, <1>4 DEF Reduce, BotIn, Loop
  <2>3. q \in Int
    BY <1>a, <2>1, <2>2
  <2> QED
    BY <1>2, <1>b, <2>1, <2>2, <2>3
<1>5. CASE ExitUnsent
  <2>1. /\ Loop.pc = "exiting" /\ Becomes("loop", Idle) /\ obj' = Kept("loop", obj)
        /\ UNCHANGED <<ex, sl, reg>>
    BY <1>5 DEF ExitUnsent, Loop
  <2>2. Leaves(Cmd, obj)
    BY <2>1, LeavesAsIs DEF CutOf
  <2> QED
    BY <1>0, <2>1, <2>2, LoopEnds
<1> QED
  BY <1>1, <1>3, <1>4, <1>5 DEF Manage

\* A command asks for a close.
LEMMA CommandInStep ==
  ASSUME Parts, Command
  PROVE  Parts'
<1>0. /\ Records /\ Watching /\ reg \in {0} \cup Objs /\ obj \in [Objs -> Record]
  BY DEF Parts, Records
<1>1. PICK q \in 1 .. obj[reg].qty : SendClose("cmd", reg, q, q = obj[reg].qty)
  BY DEF Command
<1>2. reg \in Objs /\ Cmd.pc = "idle" /\ UNCHANGED <<ex, sl, reg, obj>>
  BY <1>0 DEF Command, BotIn, Cmd
<1>3. q \in Int
  BY <1>0, <1>1, <1>2 DEF Record
<1>4. PICK r \in TaskState : /\ Becomes("cmd", r)
                             /\ r.pc = "closing" /\ r.o = reg /\ ~r.ok
  <2> DEFINE full == (q = obj[reg].qty)
  <2>1. full \in BOOLEAN /\ SendClose("cmd", reg, q, full)
    BY <1>1
  <2> HIDE DEF full
  <2> QED
    BY <1>2, <1>3, <2>1, BegunClose
<1>5. /\ task' \in [Tasks -> TaskState] /\ Cmd' = r /\ Loop' = Loop /\ Watching'
      /\ \A u \in Tasks : task'[u].ok => task'[u].pc \in {"verified", "reverified"}
  BY <1>0, <1>4, CmdStep
<1>6. CutOf(Cmd) = 0 /\ CutOf(Cmd)' = 0 /\ CutOf(Loop)' = CutOf(Loop)
  BY <1>2, <1>4, <1>5 DEF CutOf
<1>7. Records' /\ Trading' /\ Commanded'
  BY <1>2, <1>4, <1>5 DEF Parts, Records, Trading, Commanded, ClosePcs, Open
<1>8. Closing(Loop)' /\ Closing(Cmd)' /\ Apart'
  BY <1>2, <1>4, <1>5 DEF Parts, Closing, Apart
<1>9. Agree'
  BY <1>2, <1>5, <1>6 DEF Parts, Agree, Open, BotIn
<1> QED
  BY <1>5, <1>7, <1>8, <1>9 DEF Parts

\* The answer g to an order for record o: already flat, or lots that an open record
\* has asked for, all of them if the order was to close the position.
Executed(g, o, all) ==
  /\ ex' \in Nat
  /\ sl' \in BOOLEAN
  /\ sl' <=> sl /\ ex' > 0
  /\ \/ g = Flat /\ ex = 0 /\ ex' = 0
     \/ /\ g \in Nat /\ g <= ex /\ ex' = ex - g
        /\ g > 0 => obj[o].st # "CLOSED"
        /\ g > 0 /\ all => ex' = 0

LEMMA Executes ==
  ASSUME NEW t, task[t] \in TaskState, Execute(t), ~amiss', ex \in Nat, sl \in BOOLEAN,
         sl => ex > 0
  PROVE  \E g \in Int : \E r \in TaskState :
           /\ Becomes(t, r)
           /\ Executed(g, task[t].o, task[t].full \/ task[t].pc = "flattening")
           /\ r.pc = IF task[t].pc = "closing" THEN "closed" ELSE "flattened"
           /\ r.got = g /\ r.o = task[t].o
           /\ (r.full <=> task[t].full) /\ (r.ok <=> task[t].ok)
<1> DEFINE done == IF task[t].pc = "closing" THEN "closed" ELSE "flattened"
           all == task[t].full \/ task[t].pc = "flattening"
<1>1. task[t].qty \in Int /\ task[t].pc \in {"closing", "flattening"}
  BY DEF TaskState, Execute
<1>2. done \in Pcs /\ (done = "flattened" <=> task[t].pc = "flattening")
  BY <1>1 DEF Pcs, ClosePcs, ProtectPcs
<1>3. PICK g \in Int :
        Becomes(t, [task[t] EXCEPT !.pc = done, !.got = g]) /\ Executed(g, task[t].o, all)
  <2>1. CASE ex = 0
    <3>1. Flat \in Int
      BY DEF Flat
    <3>2. Becomes(t, [task[t] EXCEPT !.pc = done, !.got = Flat]) /\ ex' = 0 /\ sl' = sl
      BY <2>1 DEF Execute
    <3>3. Executed(Flat, task[t].o, all)
      BY <2>1, <3>2 DEF Executed
    <3> QED
      BY <3>1, <3>2, <3>3
  <2>2. CASE ex # 0
    <3> DEFINE most == Min({task[t].qty, ex})
               left == task[t].full \/ done = "flattened"
    <3>1. most \in {task[t].qty, ex} /\ most <= ex
      <4>1. \E x \in {task[t].qty, ex} : \A y \in {task[t].qty, ex} : x <= y
        BY <1>1
      <4> QED
        BY <4>1 DEF Min
    <3>2. PICK f \in IF "partial" \in Faults THEN 0..most ELSE {most} :
            /\ task[t].qty > 0 /\ ex' = ex - f /\ sl' = (sl /\ ex - f > 0)
            /\ Becomes(t, [task[t] EXCEPT !.pc = done, !.got = f])
            /\ Notes(f > 0 /\ (obj[task[t].o].st = "CLOSED" \/ (left /\ f < ex)))
      BY <2>2 DEF Execute, Shrinks
    <3> HIDE DEF most
    <3>3. f \in Nat /\ f <= ex
      BY <1>1, <2>2, <3>1, <3>2
    <3>4. sl' \in BOOLEAN /\ (sl' <=> sl /\ ex' > 0)
      <4>1. (sl /\ ex - f > 0) \in BOOLEAN
        OBVIOUS
      <4> QED
        BY <3>2, <4>1
    <3>5. f > 0 => obj[task[t].o].st # "CLOSED" /\ ~(left /\ f < ex)
      BY <3>2 DEF Notes
    <3>6. all => left
      BY <1>2
    <3> HIDE DEF left
    <3>7. ex' \in Nat /\ (f > 0 /\ all => ex' = 0)
      BY <3>2, <3>3, <3>5, <3>6
    <3>8. Executed(f, task[t].o, all)
      BY <3>2, <3>3, <3>4, <3>5, <3>7 DEF Executed
    <3>9. f \in Int /\ Becomes(t, [task[t] EXCEPT !.pc = done, !.got = f])
      BY <3>2, <3>3
    <3> QED
      BY <3>8, <3>9
  <2> QED
    BY <2>1, <2>2
<1> HIDE DEF done, all
<1> DEFINE r == [task[t] EXCEPT !.pc = done, !.got = g]
<1>4. r \in TaskState
  BY <1>2 DEF TaskState
<1>5. /\ r.pc = done /\ r.got = g /\ r.o = task[t].o
      /\ (r.full <=> task[t].full) /\ (r.ok <=> task[t].ok)
  BY DEF TaskState
<1>6. Becomes(t, r) /\ Executed(g, task[t].o, all)
  BY <1>3
<1> HIDE DEF r
<1> QED
  BY <1>4, <1>5, <1>6 DEF done, all

LEMMA ExecuteInStep ==
  ASSUME Parts, ~amiss', NEW t \in Tasks, Execute(t)
  PROVE  Parts'
<1>0. /\ Records /\ Watching /\ Loop \in TaskState /\ Cmd \in TaskState
      /\ ex \in Nat /\ sl \in BOOLEAN /\ obj \in [Objs -> Record] /\ (sl => ex > 0)
      /\ UNCHANGED <<reg, obj>> /\ task[t].pc \in {"closing", "flattening"} /\ ~task[t].ok
      /\ task[t] \in TaskState /\ reg \in {0} \cup Objs /\ 0 \notin Objs
  BY Actors, ObjsHaveThree DEF Parts, Records, Agree, Loop, Cmd, Execute
<1>1. t \in {"loop", "cmd"}
  BY <1>0, Actors DEF Parts, Watching
<1>2. PICK g \in Int : \E r \in TaskState :
           /\ Becomes(t, r)
           /\ Executed(g, task[t].o, task[t].full \/ task[t].pc = "flattening")
           /\ r.pc = IF task[t].pc = "closing" THEN "closed" ELSE "flattened"
           /\ r.got = g /\ r.o = task[t].o
           /\ (r.full <=> task[t].full) /\ (r.ok <=> task[t].ok)
  BY <1>0, Executes
<1>3. PICK r \in TaskState :
           /\ Becomes(t, r)
           /\ Executed(g, task[t].o, task[t].full \/ task[t].pc = "flattening")
           /\ r.pc = IF task[t].pc = "closing" THEN "closed" ELSE "flattened"
           /\ r.got = g /\ r.o = task[t].o
           /\ (r.full <=> task[t].full) /\ (r.ok <=> task[t].ok)
  BY <1>2
<1>4. r.pc \in {"closed", "flattened"} /\ ~r.ok
  BY <1>0, <1>3
<1>5. /\ ex' \in Nat /\ sl' \in BOOLEAN /\ (sl' <=> sl /\ ex' > 0) /\ ex' <= ex
      /\ (g = Flat /\ ex = 0 /\ ex' = 0) \/ (g \in Nat /\ g <= ex /\ ex' = ex - g)
      /\ (g = Flat => ex' = 0)
      /\ (g > 0 => obj[task[t].o].st # "CLOSED")
      /\ (g > 0 /\ (task[t].full \/ task[t].pc = "flattening") => ex' = 0)
  BY <1>0, <1>3 DEF Executed, Flat
<1>6. \A o \in Objs : obj[o].qty \in Int
  BY <1>0 DEF Record
<1>7. (Open' <=> Open) /\ (BotIn({"ACTIVE"})' <=> BotIn({"ACTIVE"}))
  BY <1>0 DEF Open, BotIn
<1>8. BotIn({"ACTIVE"}) /\ ex' > 0 => sl'
  BY <1>0, <1>5 DEF Parts, Agree
<1>9. CutOf(Loop) \in Int /\ CutOf(Cmd) \in Int
  BY <1>0 DEF CutOf, TaskState
<1>10. CASE t = "loop"
  <2>1. /\ task' \in [Tasks -> TaskState] /\ Loop' = r /\ Cmd' = Cmd /\ Watching'
        /\ \A u \in Tasks : task'[u].ok => task'[u].pc \in {"verified", "reverified"}
    BY <1>0, <1>3, <1>4, <1>10, LoopStep
  <2>2. task[t] = Loop /\ Loop.pc \in {"closing", "flattening"}
    BY <1>0, <1>10 DEF Loop
  <2>3. Loop.o = reg /\ reg # 0 /\ reg \in Objs /\ r.o = reg
    BY <1>0, <1>3, <2>2 DEF Parts, Trading, EntryPcs
  <2>4. Records' /\ Commanded'
    BY <1>0, <1>5, <2>1 DEF Parts, Records, Commanded
  <2>5. Trading'
    <3>1. r.pc = "flattened" /\ r.got > 0 => ex' = 0
      BY <1>3, <1>5, <2>2
    <3> QED
      BY <1>0, <1>4, <2>1, <2>3, <3>1 DEF Trading, EntryPcs
  <2>6. Closing(Loop)' /\ Apart'
    <3>1. r.pc = "closed" => r.got \in Nat \cup {Flat}
      BY <1>3, <1>5
    <3>2. r.got = Flat \/ (r.full /\ r.got > 0) => ex' = 0
      <4>1. r.full => task[t].full
        BY <1>3
      <4>2. r.got = g
        BY <1>3
      <4> QED
        BY <1>5, <4>1, <4>2
    <3> QED
      BY <1>4, <2>1, <3>1, <3>2 DEF Closing, Apart
  <2>7. Closing(Cmd)'
    BY <1>0, <1>5, <2>1 DEF Parts, Closing
  <2>8. CutOf(Loop) = 0 /\ CutOf(Cmd)' = CutOf(Cmd)
        /\ CutOf(Loop)' = IF r.pc = "closed" /\ g > 0 THEN g ELSE 0
    BY <1>0, <1>3, <2>1, <2>2, <2>3 DEF CutOf
  <2>9. Agree'
    <3>1. ~Open => ex = 0
      BY <2>2 DEF Parts, Agree
    <3>2. ~Open => ex' = 0
      BY <1>0, <1>5, <3>1
    <3>3. Open => ex = 0 \/ ex = obj[reg].qty - CutOf(Cmd)
      BY <1>6, <1>9, <2>3, <2>8 DEF Parts, Agree
    <3>4. r.pc = "flattened" /\ g > 0 => ex' = 0
      BY <1>3, <1>5, <2>2
    <3>5. Open => ex' = 0 \/ ex' = (obj[reg].qty - CutOf(Loop)') - CutOf(Cmd)
      <4>1. CASE r.pc = "closed" /\ g > 0
        BY <1>0, <1>5, <1>6, <1>9, <2>3, <2>8, <3>3, <4>1 DEF Flat
      <4>2. CASE ~(r.pc = "closed" /\ g > 0)
        <5>1. CutOf(Loop)' = 0
          BY <2>8, <4>2
        <5>2. ex' = 0 \/ ex' = ex
          BY <1>0, <1>4, <1>5, <3>4, <4>2
        <5> QED
          BY <1>0, <1>6, <1>9, <2>3, <3>3, <5>1, <5>2
      <4> QED
        BY <4>1, <4>2
    <3> QED
      BY <1>0, <1>5, <1>7, <1>8, <2>8, <3>2, <3>5 DEF Parts, Agree
  <2> QED
    BY <2>1, <2>4, <2>5, <2>6, <2>7, <2>9 DEF Parts
<1>11. CASE t = "cmd"
  <2>1. /\ task' \in [Tasks -> TaskState] /\ Cmd' = r /\ Loop' = Loop /\ Watching'
        /\ \A u \in Tasks : task'[u].ok => task'[u].pc \in {"verified", "reverified"}
    BY <1>0, <1>3, <1>4, <1>11, CmdStep
  <2>2. task[t] = Cmd /\ Cmd.pc = "closing" /\ r.pc = "closed" /\ Cmd.o \in Objs /\ r.o = Cmd.o
    BY <1>0, <1>3, <1>11 DEF Cmd, Parts, Commanded, ClosePcs
  <2>3. g > 0 => Cmd.o = reg /\ Open
    BY <1>0, <1>5, <2>2 DEF Parts, Agree, Open
  <2>4. Records' /\ Commanded'
    BY <1>0, <1>5, <2>1, <2>2 DEF Parts, Records, Commanded, ClosePcs
  <2>5. Trading'
    <3>1. Loop.ok => sl' \/ ex' = 0
      BY <1>0, <1>5 DEF Parts, Trading
    <3>2. Loop.pc = "flattened" /\ Loop.got > 0 => ex' = 0
      BY <1>0, <1>5 DEF Parts, Trading
    <3> QED
      BY <1>0, <1>7, <2>1, <3>1, <3>2 DEF Parts, Trading
  <2>6. Closing(Cmd)' /\ Apart'
    <3>1. r.got \in Nat \cup {Flat}
      BY <1>3, <1>5
    <3>2. r.got = Flat \/ (r.full /\ r.got > 0) => ex' = 0
      <4>1. r.full => task[t].full
        BY <1>3
      <4>2. r.got = g
        BY <1>3
      <4> QED
        BY <1>5, <4>1, <4>2
    <3> QED
      BY <2>1, <2>2, <3>1, <3>2 DEF Closing, Apart
  <2>7. Closing(Loop)'
    BY <1>0, <1>5, <2>1 DEF Parts, Closing
  <2>8. CutOf(Cmd) = 0 /\ CutOf(Loop)' = CutOf(Loop)
        /\ CutOf(Cmd)' = IF g > 0 THEN g ELSE 0
    BY <1>0, <1>3, <2>1, <2>2, <2>3 DEF CutOf
  <2>9. Agree'
    <3>1. ~Open => ex' = ex \/ ex' = 0
      BY <1>0, <1>5, <2>3
    <3>2. ~Open => ex' = 0 \/ (Loop.pc = "opened" /\ ex' = Loop.got)
      BY <3>1 DEF Parts, Agree
    <3>3. Open => ex = 0 \/ ex = obj[reg].qty - CutOf(Loop)
      BY <1>0, <1>6, <1>9, <2>8 DEF Parts, Agree, Open
    <3>4. Open => ex' = 0 \/ ex' = (obj[reg].qty - CutOf(Loop)) - CutOf(Cmd)'
      <4>0. Open => obj[reg].qty \in Int
        BY <1>0, <1>6 DEF Open
      <4>1. CASE g > 0
        BY <1>0, <1>5, <1>9, <2>8, <3>3, <4>0, <4>1 DEF Flat
      <4>2. CASE ~(g > 0)
        <5>2. ex' = 0 \/ ex' = ex
          BY <1>0, <1>5, <4>2
        <5> QED
          BY <1>0, <1>9, <2>8, <3>3, <4>0, <4>2, <5>2
      <4> QED
        BY <4>1, <4>2
    <3> QED
      BY <1>0, <1>5, <1>7, <1>8, <2>1, <2>8, <3>2, <3>4 DEF Parts, Agree
  <2> QED
    BY <2>1, <2>4, <2>5, <2>6, <2>7, <2>9 DEF Parts
<1> QED
  BY <1>1, <1>10, <1>11

\* What the answer to a close makes of an open record.
LEMMA ClosedTyped ==
  ASSUME NEW p \in Record, p.st # "CLOSED", NEW got \in Nat \cup {Flat}, got # 0,
         NEW full \in BOOLEAN
  PROVE  /\ Closed(p, got, full) \in Record
         /\ Closed(p, got, full).booked = p.booked
         /\ Closed(p, got, full).src = p.src
         /\ \/ Closed(p, got, full).st = "CLOSED" /\ (got = Flat \/ full \/ p.qty <= got)
            \/ /\ Closed(p, got, full).st = p.st
               /\ Closed(p, got, full).qty = p.qty - got
               /\ got \in Nat /\ ~full /\ got < p.qty
<1>1. p.qty \in Int /\ p.st \in {"PENDING", "ACTIVE", "CLOSING", "CLOSED"}
  BY DEF Record
<1>2. CASE got = Flat
  <2> DEFINE n == 0
             st == "CLOSED"
             c == [p EXCEPT !.st = st, !.qty = n]
  <2>1. Closed(p, got, full) = c
    BY <1>2, Zenon DEF Closed
  <2>2. n \in Int /\ st \in {"PENDING", "ACTIVE", "CLOSING", "CLOSED"} /\ st = "CLOSED"
    OBVIOUS
  <2> HIDE DEF n, st
  <2>3. c \in Record /\ c.st = st /\ c.booked = p.booked /\ c.src = p.src
    BY <2>2 DEF Record
  <2> HIDE DEF c
  <2> QED
    BY <1>2, <2>1, <2>2, <2>3
<1>3. CASE got \in Nat
  <2> DEFINE st == IF full \/ p.qty <= got THEN "CLOSED" ELSE p.st
  <2>1. got # Flat /\ p.qty - got \in Int
    BY <1>1, <1>3 DEF Flat
  <2>2. Closed(p, got, full) = [p EXCEPT !.qty = p.qty - got, !.st = st]
    BY <2>1, Zenon DEF Closed
  <2>3. st \in {"PENDING", "ACTIVE", "CLOSING", "CLOSED"}
    BY <1>1
  <2>4. \/ st = "CLOSED" /\ (full \/ p.qty <= got)
        \/ st = p.st /\ ~full /\ got < p.qty
    BY <1>1, <1>3
  <2> HIDE DEF st
  <2> DEFINE n == p.qty - got
             c == [p EXCEPT !.qty = n, !.st = st]
  <2>5. Closed(p, got, full) = c /\ n \in Int
    BY <2>1, <2>2, Zenon
  <2> HIDE DEF n
  <2>6. c \in Record /\ c.st = st /\ c.qty = n /\ c.booked = p.booked /\ c.src = p.src
    BY <2>3, <2>5 DEF Record
  <2> HIDE DEF c
  <2>7. n = p.qty - got
    BY DEF n
  <2> QED
    BY <1>3, <2>4, <2>5, <2>6, <2>7
<1> QED
  BY <1>2, <1>3

\* The tasks that close: the loop and a command.
LEMMA Closers ==
  ASSUME Parts, NEW t \in Tasks, task[t].pc \in ClosePcs
  PROVE  /\ t \in {"loop", "cmd"} /\ task[t].o \in Objs /\ task[t] \in TaskState
         /\ Closing(task[t])
         /\ t = "loop" => Loop.pc \in ClosePcs /\ Loop.o = reg
<1>1. t \in {"loop", "cmd"} /\ task[t] \in TaskState
  BY Actors DEF Parts, Watching, Records, ClosePcs
<1>2. Closing(task[t])
  BY <1>1 DEF Parts, Loop, Cmd
<1>3. t = "loop" => Loop.pc \in ClosePcs /\ Loop.o = reg /\ reg \in Objs
  BY ObjsHaveThree DEF Parts, Trading, Records, Loop, ClosePcs, EntryPcs
<1>4. t = "cmd" => Cmd.o \in Objs
  BY DEF Parts, Commanded, Cmd, ClosePcs
<1> QED
  BY <1>1, <1>2, <1>3, <1>4 DEF Loop, Cmd

\* A close that ends, with these records.
LEMMA CloseEnds ==
  ASSUME Parts, NEW t \in Tasks, task[t].pc \in ClosePcs,
         NEW positions \in [Objs -> Record], Finish(t, positions), UNCHANGED <<ex, sl, reg>>,
         t = "loop" => Leaves(Cmd, positions), t = "cmd" => Leaves(Loop, positions)
  PROVE  Parts'
<1>1. t \in {"loop", "cmd"} /\ (t = "loop" => Loop.pc # "opened")
  BY Closers DEF ClosePcs
<1>2. Becomes(t, Idle) /\ obj' = Kept(t, positions)
  BY DEF Finish
<1>3. CASE t = "loop"
  BY <1>1, <1>2, <1>3, LoopEnds
<1>4. CASE t = "cmd"
  BY <1>1, <1>2, <1>4, CmdEnds
<1> QED
  BY <1>1, <1>3, <1>4

\* Lots that are not yet in the record are those of an order that leaves something.
LEMMA EndsAsItIs ==
  ASSUME Parts, NEW t \in Tasks, task[t].pc \in ClosePcs, Finish(t, obj),
         UNCHANGED <<ex, sl, reg>>, CutOf(task[t]) = 0 \/ (Open => ex = 0)
  PROVE  Parts'
<1>1. /\ t = "loop" => Leaves(Cmd, obj)
      /\ t = "cmd" => Leaves(Loop, obj)
  BY LeavesAsIs DEF Loop, Cmd
<1>2. obj \in [Objs -> Record]
  BY DEF Parts, Records
<1> QED
  BY <1>1, <1>2, CloseEnds

LEMMA CloseIgnoredInStep ==
  ASSUME Parts, NEW t \in Tasks, CloseIgnored(t)
  PROVE  Parts'
<1>1. /\ task[t].pc = "closed" /\ task[t].pc \in ClosePcs /\ Finish(t, obj)
      /\ UNCHANGED <<ex, sl, reg>>
      /\ task[t].got = 0 \/ obj[task[t].o].st = "CLOSED"
  BY DEF CloseIgnored, ClosePcs
<1>2. CutOf(task[t]) = 0 \/ ~Open
  BY <1>1 DEF CutOf, Open
<1> QED
  BY <1>1, <1>2, EndsAsItIs

LEMMA CloseRaisesInStep ==
  ASSUME Parts, ~amiss', NEW t \in Tasks, CloseRaises(t)
  PROVE  Parts'
<1>1. /\ task[t].pc \in ClosePcs /\ Finish(t, obj) /\ UNCHANGED <<ex, sl, reg>>
      /\ Notes(task[t].pc = "closed" /\ task[t].got > 0 /\ ~task[t].full)
  BY DEF CloseRaises
<1>2. ~(task[t].pc = "closed" /\ task[t].got > 0 /\ ~task[t].full)
  BY <1>1 DEF Notes
<1>3. Closing(task[t])
  BY <1>1, Closers
<1>4. CutOf(task[t]) = 0 \/ (Open => ex = 0)
  BY <1>2, <1>3 DEF CutOf, Closing, Open
<1> QED
  BY <1>1, <1>4, EndsAsItIs

LEMMA BookInStep ==
  ASSUME Parts, NEW t \in Tasks, Book(t)
  PROVE  Parts'
<1> DEFINE o == task[t].o
           booked == [obj EXCEPT ![o].booked = Min({2, @ + 1})]
           positions == IF obj[o].st = "CLOSED" \/ task[t].got = Flat THEN booked ELSE obj
<1>0. /\ task[t].pc = "logging" /\ task[t].pc \in ClosePcs /\ Finish(t, positions)
      /\ UNCHANGED <<ex, sl, reg>> /\ obj \in [Objs -> Record]
  BY DEF Book, ClosePcs, Parts, Records
<1>1. /\ t \in {"loop", "cmd"} /\ o \in Objs /\ Closing(task[t])
  BY <1>0, Closers
<1>2. /\ CutOf(task[t]) = 0
      /\ t = "loop" => Leaves(Cmd, obj)
      /\ t = "cmd" => Leaves(Loop, obj)
  BY <1>0, LeavesAsIs DEF CutOf, Loop, Cmd
<1>3. CASE obj[o].st # "CLOSED"
  <2>1. Finish(t, obj)
    BY <1>0, <1>1, <1>3 DEF Closing
  <2> QED
    BY <1>0, <1>2, <2>1, EndsAsItIs
<1>4. CASE obj[o].st = "CLOSED"
  <2>1. positions = booked /\ obj[o].booked = 0
    BY <1>0, <1>1, <1>4 DEF Closing
  <2>2. Min({2, 0 + 1}) = 1
    <3>1. {2, 0 + 1} = {1, 2}
      OBVIOUS
    <3>2. \E x \in {1, 2} : \A y \in {1, 2} : x <= y
      OBVIOUS
    <3>3. Min({1, 2}) \in {1, 2} /\ Min({1, 2}) <= 1
      BY <3>2 DEF Min
    <3> QED
      BY <3>1, <3>3
  <2>3. booked = [obj EXCEPT ![o].booked = 1]
    BY <1>0, <1>1, <2>1, <2>2
  <2>4. /\ booked \in [Objs -> Record] /\ booked[o].st = "CLOSED"
        /\ booked[o].booked = 1
        /\ \A x \in Objs : x # o => booked[x] = obj[x]
    <3>1. obj[o] \in Record /\ 1 \in 0..1
      BY <1>0, <1>1
    <3> HIDE DEF booked, o
    <3> QED
      BY <1>0, <1>1, <1>4, <2>3, <3>1 DEF Record
  <2>5. Finish(t, booked)
    BY <1>0, <2>1
  <2> HIDE DEF booked, positions
  <2>6. ASSUME NEW u \in TaskState, Leaves(u, obj),
               u.pc = "logging" => u.o \in Objs /\ u.o # o
        PROVE  Leaves(u, booked)
    <3>1. \A x \in Objs : booked[x].st # "CLOSED" => booked[x] = obj[x]
      BY <1>4, <2>4
    <3>2. Open => reg \in Objs /\ booked[reg] = obj[reg]
      BY <1>4, <2>4 DEF Open, Parts, Records
    <3>3. u.pc = "logging" => booked[u.o] = obj[u.o]
      BY <2>4, <2>6
    <3> QED
      BY <2>6, <3>1, <3>2, <3>3 DEF Leaves
  <2>7. Cmd \in TaskState /\ Loop \in TaskState
    BY Actors DEF Parts, Records, Loop, Cmd
  <2>8. /\ t = "loop" /\ Cmd.pc = "logging" => Cmd.o \in Objs /\ Cmd.o # o
        /\ t = "cmd" /\ Loop.pc = "logging" => Loop.o \in Objs /\ Loop.o # o
    <3>1. /\ Cmd.pc = "logging" => Cmd.o \in Objs
          /\ Loop.pc = "logging" => Loop.o \in Objs
      BY Closers, Actors DEF Cmd, Loop, ClosePcs
    <3> QED
      BY <1>0, <1>4, <3>1 DEF Parts, Apart, Loop, Cmd
  <2>9. /\ t = "loop" => Leaves(Cmd, booked)
        /\ t = "cmd" => Leaves(Loop, booked)
    BY <1>2, <2>6, <2>7, <2>8
  <2> QED
    BY <1>0, <2>4, <2>5, <2>9, CloseEnds
<1> QED
  BY <1>3, <1>4

LEMMA CloseReturnsInStep ==
  ASSUME Parts, ~amiss', NEW t \in Tasks, CloseReturns(t)
  PROVE  Parts'
<1> DEFINE o == task[t].o
           p == obj[o]
           q == Closed(p, task[t].got, task[t].full)
           r == [task[t] EXCEPT !.pc = "logging"]
<1>0. /\ Records /\ Watching /\ Loop \in TaskState /\ Cmd \in TaskState
      /\ ex \in Nat /\ sl \in BOOLEAN /\ obj \in [Objs -> Record] /\ (sl => ex > 0)
      /\ reg \in {0} \cup Objs /\ 0 \notin Objs
  BY Actors, ObjsHaveThree DEF Parts, Records, Agree, Loop, Cmd
<1>1. /\ task[t].pc = "closed" /\ task[t].got # 0 /\ p.st # "CLOSED"
      /\ obj' = [obj EXCEPT ![o] = q] /\ Becomes(t, r) /\ UNCHANGED <<ex, sl, reg>>
  BY DEF CloseReturns
<1>2. /\ t \in {"loop", "cmd"} /\ o \in Objs /\ task[t] \in TaskState /\ Closing(task[t])
  BY <1>1, Closers DEF ClosePcs
<1>3. /\ o = reg /\ reg # 0 /\ Open /\ p \in Record /\ p.booked = 0 /\ p.qty > 0
      /\ p.qty \in Int
  BY <1>0, <1>1, <1>2 DEF Parts, Agree, Open, Record
<1>4. task[t].got \in Nat \cup {Flat} /\ task[t].full \in BOOLEAN
  BY <1>1, <1>2 DEF Closing, TaskState
<1>5. /\ q \in Record /\ q.booked = 0 /\ q.src = p.src
      /\ \/ q.st = "CLOSED" /\ (task[t].got = Flat \/ task[t].full \/ p.qty <= task[t].got)
         \/ /\ q.st = p.st /\ q.qty = p.qty - task[t].got
            /\ task[t].got \in Nat /\ ~task[t].full /\ task[t].got < p.qty
  BY <1>1, <1>3, <1>4, ClosedTyped
<1>6. /\ obj' \in [Objs -> Record] /\ obj'[reg] = q
      /\ \A x \in Objs : x # reg => obj'[x] = obj[x]
  BY <1>0, <1>1, <1>2, <1>3, <1>5
<1>7. /\ r \in TaskState /\ r.pc = "logging" /\ r.o = reg /\ r.got = task[t].got
      /\ (r.ok <=> task[t].ok)
  <2>1. "logging" \in Pcs
    BY DEF Pcs, ClosePcs
  <2> QED
    BY <1>2, <1>3, <2>1 DEF TaskState
<1>8. ~r.ok
  BY <1>1, <1>7 DEF Parts, Records
<1>9. q.st = "CLOSED" => \A u \in Tasks \ {t} : ~(task[u].pc = "logging" /\ task[u].o = reg)
  <2>1. Notes(/\ obj'[o].st = "CLOSED"
              /\ \E u \in Tasks \ {t} : task[u].pc = "logging" /\ task[u].o = o)
    BY DEF CloseReturns
  <2>2. obj'[o].st = "CLOSED" =>
          ~(\E u \in Tasks \ {t} : task[u].pc = "logging" /\ task[u].o = o)
    BY <2>1 DEF Notes
  <2> HIDE DEF o, q
  <2> QED
    BY <1>3, <1>6, <2>2
<1> HIDE DEF q, r
<1>10. CutOf(Loop) \in Nat /\ CutOf(Cmd) \in Nat
  <2>1. ASSUME NEW s \in TaskState PROVE CutOf(s) \in Nat
    BY DEF CutOf, TaskState
  <2> QED
    BY <1>0, <2>1
<1>11. CutOf(task[t]) = IF task[t].got > 0 THEN task[t].got ELSE 0
  BY <1>1, <1>3 DEF CutOf
<1>12. q.st = "CLOSED" => ex = 0
  <2>1. CASE task[t].got = Flat \/ (task[t].full /\ task[t].got > 0)
    BY <1>1, <1>2, <2>1 DEF Closing
  <2>2. CASE task[t].got > 0 /\ p.qty <= task[t].got
    <3>1. ex = 0 \/ ex = (p.qty - CutOf(Loop)) - CutOf(Cmd)
      BY <1>3 DEF Parts, Agree
    <3>2. CutOf(Loop) >= p.qty \/ CutOf(Cmd) >= p.qty
      BY <1>2, <1>3, <1>11, <2>2 DEF Loop, Cmd
    <3> QED
      BY <1>0, <1>3, <1>10, <3>1, <3>2
  <2> QED
    BY <1>1, <1>3, <1>4, <1>5, <2>1, <2>2
<1>13. /\ Open' <=> q.st # "CLOSED"
       /\ BotIn({"ACTIVE"})' => BotIn({"ACTIVE"}) /\ Open'
  BY <1>1, <1>3, <1>5, <1>6 DEF Open, BotIn
<1>14. \A x \in Objs : obj'[x].st # "CLOSED" =>
         /\ obj[x].st # "CLOSED" /\ x = reg /\ obj'[x].booked = 0 /\ obj'[x].qty > 0
  <2>1. \A x \in Objs : x # reg => obj'[x].st = "CLOSED"
    BY <1>6 DEF Parts, Agree
  <2>2. q.st # "CLOSED" => q.qty > 0
    BY <1>3, <1>5
  <2> QED
    BY <1>1, <1>3, <1>5, <1>6, <2>1, <2>2
<1>15. task[t].got = Flat => q.st = "CLOSED"
  BY <1>5 DEF Flat
<1>16. ASSUME NEW s \in TaskState, Closing(s), s.pc \in ClosePcs => s.o \in Objs,
              q.st = "CLOSED" => ~(s.pc = "logging" /\ s.o = reg)
       PROVE  /\ s.pc = "closed" /\ obj'[s.o].st # "CLOSED"
                /\ (s.got = Flat \/ (s.full /\ s.got > 0)) => ex = 0
              /\ s.pc = "logging" /\ obj'[s.o].st = "CLOSED" => obj'[s.o].booked = 0
              /\ s.pc = "logging" /\ s.got = Flat => obj'[s.o].st = "CLOSED"
  <2>1. CASE s.pc = "closed"
    BY <1>14, <1>16, <2>1 DEF Closing, ClosePcs
  <2>2. CASE s.pc = "logging" /\ s.o = reg
    BY <1>1, <1>3, <1>5, <1>6, <1>16, <2>2 DEF Closing
  <2>3. CASE s.pc = "logging" /\ s.o # reg
    BY <1>6, <1>16, <2>3 DEF Closing, ClosePcs
  <2> QED
    BY <2>1, <2>2, <2>3
<1>17. CASE t = "loop"
  <2>1. /\ task' \in [Tasks -> TaskState] /\ Loop' = r /\ Cmd' = Cmd /\ Watching'
        /\ \A u \in Tasks : task'[u].ok => task'[u].pc \in {"verified", "reverified"}
    BY <1>0, <1>1, <1>7, <1>8, <1>17, LoopStep
  <2>2. Loop = task[t] /\ (q.st = "CLOSED" => ~(Cmd.pc = "logging" /\ Cmd.o = reg))
    BY <1>9, <1>17, Actors DEF Loop, Cmd
  <2>3. Records' /\ Trading' /\ Commanded'
    BY <1>0, <1>1, <1>3, <1>6, <1>7, <1>8, <2>1
       DEF Parts, Records, Trading, Commanded, EntryPcs
  <2>4. Closing(Loop)'
    BY <1>5, <1>6, <1>7, <1>15, <2>1 DEF Closing
  <2>5. Closing(Cmd)'
    <3>1. Closing(Cmd) /\ (Cmd.pc \in ClosePcs => Cmd.o \in Objs)
      BY DEF Parts, Commanded, ClosePcs
    <3> QED
      BY <1>0, <1>1, <1>16, <2>1, <2>2, <3>1 DEF Closing
  <2>6. Apart'
    BY <1>6, <1>7, <2>1, <2>2 DEF Apart
  <2>7. Agree'
    <3>1. CutOf(Loop)' = 0 /\ CutOf(Cmd)' = CutOf(Cmd)
      BY <1>1, <1>7, <2>1 DEF CutOf
    <3>2. Open' => ex = 0 \/ ex = (obj'[reg].qty - 0) - CutOf(Cmd)
      BY <1>3, <1>4, <1>5, <1>6, <1>10, <1>11, <1>13, <2>2 DEF Parts, Agree
    <3> QED
      BY <1>1, <1>12, <1>13, <1>14, <2>1, <3>1, <3>2 DEF Parts, Agree
  <2> QED
    BY <2>1, <2>3, <2>4, <2>5, <2>6, <2>7 DEF Parts
<1>18. CASE t = "cmd"
  <2>1. /\ task' \in [Tasks -> TaskState] /\ Cmd' = r /\ Loop' = Loop /\ Watching'
        /\ \A u \in Tasks : task'[u].ok => task'[u].pc \in {"verified", "reverified"}
    BY <1>0, <1>1, <1>7, <1>8, <1>18, CmdStep
  <2>2. Cmd = task[t] /\ (q.st = "CLOSED" => ~(Loop.pc = "logging" /\ Loop.o = reg))
    BY <1>9, <1>18, Actors DEF Loop, Cmd
  <2>3. Records' /\ Trading' /\ Commanded'
    BY <1>0, <1>1, <1>2, <1>3, <1>6, <1>7, <1>13, <2>1
       DEF Parts, Records, Trading, Commanded, ClosePcs
  <2>4. Closing(Cmd)'
    BY <1>5, <1>6, <1>7, <1>15, <2>1 DEF Closing
  <2>5. Closing(Loop)'
    <3>1. Closing(Loop) /\ (Loop.pc \in ClosePcs => Loop.o \in Objs)
      BY Closers, Actors DEF Parts, Loop
    <3> QED
      BY <1>0, <1>1, <1>16, <2>1, <2>2, <3>1 DEF Closing
  <2>6. Apart'
    BY <1>6, <1>7, <2>1, <2>2 DEF Apart
  <2>7. Agree'
    <3>1. CutOf(Cmd)' = 0 /\ CutOf(Loop)' = CutOf(Loop)
      BY <1>1, <1>7, <2>1 DEF CutOf
    <3>2. Open' => ex = 0 \/ ex = (obj'[reg].qty - CutOf(Loop)) - 0
      BY <1>3, <1>4, <1>5, <1>6, <1>10, <1>11, <1>13, <2>2 DEF Parts, Agree
    <3> QED
      BY <1>1, <1>12, <1>13, <1>14, <2>1, <3>1, <3>2 DEF Parts, Agree
  <2> QED
    BY <2>1, <2>3, <2>4, <2>5, <2>6, <2>7 DEF Parts
<1> QED
  BY <1>2, <1>17, <1>18

-----------------------------------------------------------------------------
\* While no update is open, neither the loop nor a command has anything on the way.
LEMMA Settled ==
  ASSUME Balanced, Parts, ~Settling
  PROVE  /\ Loop.pc \in QuietPcs /\ Cmd.pc = "idle"
         /\ Open => ex = 0 \/ ex = obj[reg].qty
         /\ ~Open => ex = 0
<1>1. Updates("loop") = 0 /\ Updates("cmd") = 0
  BY DEF Balanced, UpdatesBalanced, Settling, Updates
<1>2. Loop.pc \in QuietPcs /\ Cmd.pc = "idle"
  BY <1>1 DEF Updates, Loop, Cmd, Parts, Commanded, ClosePcs
<1>3. CutOf(Loop) = 0 /\ CutOf(Cmd) = 0
  BY <1>2 DEF CutOf
<1>4. Open => obj[reg].qty \in Int
  BY DEF Open, Parts, Records, Record
<1> QED
  BY <1>2, <1>3, <1>4 DEF Parts, Agree

LEMMA ReconcileInStep ==
  ASSUME Balanced, Parts, ~amiss', NEW r \in Recs, Reconcile(r)
  PROVE  Parts'
<1>0. /\ Records /\ Watching /\ ex \in Nat /\ sl \in BOOLEAN
      /\ obj \in [Objs -> Record] /\ reg \in {0} \cup Objs /\ 0 \notin Objs
  BY ObjsHaveThree DEF Parts, Records
<1>a. Notes(Overtaken(r)) => task[r].got = ex
  BY DEF Notes, Overtaken
<1>b. ASSUME NEW n \in TaskState, Becomes(r, n), ~n.ok, n.pc \in {"idle", "snapped"}, n.o = 0,
             UNCHANGED <<ex, sl, reg, obj>>
      PROVE  Parts'
  <2>1. /\ task' \in [Tasks -> TaskState] /\ Loop' = Loop /\ Cmd' = Cmd /\ Watching'
        /\ \A u \in Tasks : task'[u].ok => task'[u].pc \in {"verified", "reverified"}
    BY <1>0, <1>b, RecStep
  <2>2. CutOf(Loop)' = CutOf(Loop) /\ CutOf(Cmd)' = CutOf(Cmd)
    BY <1>b, <2>1 DEF CutOf
  <2>3. Records' /\ Trading' /\ Commanded' /\ Apart'
    BY <1>b, <2>1 DEF Parts, Records, Trading, Commanded, Apart, Open
  <2>4. Closing(Loop)' /\ Closing(Cmd)'
    BY <1>b, <2>1 DEF Parts, Closing
  <2>5. Agree'
    BY <1>b, <2>1, <2>2 DEF Parts, Agree, Open, BotIn
  <2> QED
    BY <2>1, <2>3, <2>4, <2>5 DEF Parts
<1>1. CASE Snapshot(r)
  <2> DEFINE n == [Idle EXCEPT !.pc = "snapped", !.got = ex]
  <2>1. "snapped" \in Pcs /\ ex \in Int
    BY <1>0 DEF Pcs
  <2>2. n \in TaskState /\ n.pc = "snapped" /\ n.o = 0 /\ ~n.ok
    BY <2>1, IdleTyped DEF TaskState
  <2>3. Becomes(r, n) /\ UNCHANGED <<ex, sl, reg, obj>>
    BY <1>1 DEF Snapshot
  <2> HIDE DEF n
  <2> QED
    BY <1>b, <2>2, <2>3
<1>2. CASE Leave(r)
  BY <1>2, <1>b, IdleTyped DEF Leave
<1>3. CASE Gone(r)
  <2>1. /\ Open /\ ex = 0 /\ ~Settling /\ UNCHANGED <<ex, sl, reg>> /\ Becomes(r, Idle)
        /\ obj' = [obj EXCEPT ![reg].st = "CLOSED", ![reg].qty = 0]
    BY <1>3, <1>a DEF Gone
  <2>2. Loop.pc \in QuietPcs /\ Cmd.pc = "idle"
    BY <2>1, Settled
  <2>3. /\ task' \in [Tasks -> TaskState] /\ Loop' = Loop /\ Cmd' = Cmd /\ Watching'
        /\ \A u \in Tasks : task'[u].ok => task'[u].pc \in {"verified", "reverified"}
    BY <1>0, <2>1, RecStep, IdleTyped
  <2>4. reg \in Objs
    BY <1>0, <2>1 DEF Open
  <2>5. /\ obj' \in [Objs -> Record] /\ obj'[reg].st = "CLOSED"
        /\ \A o \in Objs : o # reg => obj'[o] = obj[o]
    <3> DEFINE closed == [obj EXCEPT ![reg].st = "CLOSED"]
    <3>1. /\ closed \in [Objs -> Record] /\ closed[reg].st = "CLOSED"
          /\ \A o \in Objs : o # reg => closed[o] = obj[o]
      BY <1>0, <2>4 DEF Record
    <3>2. obj' = [closed EXCEPT ![reg].qty = 0]
      BY <1>0, <2>1, <2>4
    <3> HIDE DEF closed
    <3> QED
      BY <2>4, <3>1, <3>2 DEF Record
  <2>6. \A o \in Objs : obj'[o].st = "CLOSED"
    BY <2>5 DEF Parts, Agree
  <2>7. ~Open' /\ ~BotIn({"ACTIVE"})'
    BY <2>1, <2>5 DEF Open, BotIn
  <2>8. Records' /\ Trading' /\ Commanded'
    BY <1>0, <2>1, <2>2, <2>3, <2>5 DEF Parts, Records, Trading, Commanded
  <2>9. Closing(Loop)' /\ Closing(Cmd)' /\ Apart'
    BY <2>2, <2>3 DEF Closing, Apart
  <2>10. Agree'
    BY <2>1, <2>6, <2>7 DEF Parts, Agree
  <2> QED
    BY <2>3, <2>8, <2>9, <2>10 DEF Parts
<1>4. CASE Adopt(r)
  BY <1>4, <1>a, Settled DEF Adopt
<1>5. CASE SyncAdopted(r)
  BY <1>0, <1>5 DEF SyncAdopted, Open, Record
<1>6. CASE Mismatch(r)
  BY <1>6, <1>a, Settled DEF Mismatch, Open, BotIn
<1> QED
  BY <1>1, <1>2, <1>3, <1>4, <1>5, <1>6 DEF Reconcile

\* The stop of the exchange leaves a flat position, which every part allows.
LEMMA SurroundingsInStep ==
  ASSUME Parts, ~amiss', StopFires \/ UserTrades \/ PauseExpires \/ UNCHANGED vars
  PROVE  Parts'
<1>0. /\ ex \in Nat /\ sl \in BOOLEAN /\ obj \in [Objs -> Record] /\ reg \in {0} \cup Objs
      /\ Loop \in TaskState /\ Cmd \in TaskState
  BY Actors DEF Parts, Records, Loop, Cmd
<1>1. CASE StopFires
  <2>1. /\ ex' = 0 /\ sl' = (sl /\ 0 > 0) /\ UNCHANGED <<reg, obj, task>>
    BY <1>1 DEF StopFires, Shrinks
  <2>2. ~sl' /\ sl' \in BOOLEAN
    <3> DEFINE b == (sl /\ 0 > 0)
    <3>1. b \in BOOLEAN /\ ~b
      OBVIOUS
    <3>2. sl' = b
      BY <2>1
    <3> HIDE DEF b
    <3> QED
      BY <3>1, <3>2, Zenon
  <2>3. Records' /\ Watching'
    BY <1>0, <2>1, <2>2 DEF Parts, Records, Watching
  <2>4. Loop' = Loop /\ Cmd' = Cmd
    BY <2>1 DEF Loop, Cmd
  <2>5. Trading' /\ Commanded' /\ Apart'
    BY <2>1, <2>4 DEF Parts, Trading, Commanded, Apart, Open
  <2>6. Closing(Loop)' /\ Closing(Cmd)'
    BY <2>1, <2>4 DEF Parts, Closing
  <2>7. Agree'
    BY <2>1, <2>2, <2>4 DEF Parts, Agree, Open
  <2> QED
    BY <2>3, <2>5, <2>6, <2>7 DEF Parts
<1>2. CASE UserTrades
  BY <1>2 DEF UserTrades, Notes
<1>3. CASE PauseExpires \/ UNCHANGED vars
  <2>1. UNCHANGED <<ex, sl, reg, obj, task>>
    BY <1>3 DEF PauseExpires, vars
  <2>2. Loop' = Loop /\ Cmd' = Cmd
    BY <2>1 DEF Loop, Cmd
  <2> QED
    BY <2>1, <2>2
       DEF Parts, Records, Watching, Trading, Commanded, Closing, Apart, Agree, CutOf, Open,
           BotIn
<1> QED
  BY <1>1, <1>2, <1>3

\* What amiss remembers it never forgets.
LEMMA Remembers == ASSUME [Next]_vars, amiss PROVE amiss'
<1>1. ASSUME NEW event, Notes(event) PROVE amiss'
  BY <1>1 DEF Notes
<1>2. CASE Enter
  BY <1>1, <1>2 DEF Enter, Approve, SendEntry, FillEntry, EntryUnfilled, EntryRaises, EntryFilled
<1>3. CASE Manage \/ Command
  BY <1>3 DEF Manage, Exit, SendExit, ExitUnsent, Reduce, Command
<1>4. ASSUME NEW t \in Tasks, Protect(t) PROVE amiss'
  <2>1. CASE Confirmed(t)
    BY <1>1, <2>1 DEF Confirmed
  <2>2. CASE Activate(t)
    BY <1>1, <2>2 DEF Activate
  <2>3. CASE ~Confirmed(t) /\ ~Activate(t)
    BY <1>4, <2>3 DEF Protect, Confirm, Verify, Unverified, SetStop, SetStopRaises,
                      ProtectRaises, Flatten, Flattened, FlattenRaises
  <2> QED
    BY <2>1, <2>2, <2>3
<1>5. ASSUME NEW t \in Tasks, Close(t) PROVE amiss'
  <2>1. CASE Execute(t)
    BY <1>1, <2>1 DEF Execute
  <2>2. CASE CloseReturns(t)
    BY <1>1, <2>2 DEF CloseReturns
  <2>3. CASE CloseRaises(t)
    BY <1>1, <2>3 DEF CloseRaises
  <2>4. CASE CloseIgnored(t) \/ Book(t)
    BY <2>4 DEF CloseIgnored, Book
  <2> QED
    BY <1>5, <2>1, <2>2, <2>3, <2>4 DEF Close
<1>6. ASSUME NEW r \in Recs, Reconcile(r) PROVE amiss'
  BY <1>1, <1>6 DEF Reconcile, Snapshot, Adopt, SyncAdopted, Mismatch, Gone, Leave
<1>7. CASE StopFires \/ UserTrades \/ PauseExpires \/ UNCHANGED vars
  BY <1>1, <1>7 DEF StopFires, UserTrades, PauseExpires, vars
<1> QED
  BY <1>2, <1>3, <1>4, <1>5, <1>6, <1>7 DEF Next

LEMMA NextInStep ==
  ASSUME SyncInv, [Next]_vars
  PROVE  SyncInv'
<1>1. Balanced'
  <2>1. CASE Next
    BY <2>1, NextKeeps DEF SyncInv
  <2>2. CASE UNCHANGED vars
    BY <2>2 DEF SyncInv, vars, Balanced, Shape, UpdatesBalanced, Updates
  <2> QED
    BY <2>1, <2>2
<1>2. ASSUME ~amiss' PROVE Parts'
  <2>0. Balanced /\ Parts
    BY <1>2, Remembers DEF SyncInv
  <2>1. CASE Enter
    BY <1>2, <2>0, <2>1, EnterInStep
  <2>2. CASE Manage \/ Command
    BY <2>0, <2>2, ManageInStep, CommandInStep
  <2>3. ASSUME NEW t \in Tasks, Protect(t) PROVE Parts'
    BY <1>2, <2>0, <2>3, ProtectInStep
  <2>4. ASSUME NEW t \in Tasks, Close(t) PROVE Parts'
    BY <1>2, <2>0, <2>4, ExecuteInStep, CloseIgnoredInStep, CloseReturnsInStep, BookInStep,
       CloseRaisesInStep DEF Close
  <2>5. ASSUME NEW r \in Recs, Reconcile(r) PROVE Parts'
    BY <1>2, <2>0, <2>5, ReconcileInStep
  <2>6. CASE StopFires \/ UserTrades \/ PauseExpires \/ UNCHANGED vars
    BY <1>2, <2>0, <2>6, SurroundingsInStep
  <2> QED
    BY <2>1, <2>2, <2>3, <2>4, <2>5, <2>6 DEF Next
<1> QED
  BY <1>1, <1>2 DEF SyncInv

\* For any number of concurrent reconciliations, any sizes and any faults, updates are
\* balanced, and until the first event that amiss remembers the records differ from the
\* exchange only by what an order on the way has executed.
THEOREM SyncInductive == Spec => []SyncInv
<1>1. Init => SyncInv
  BY BalancedInit, PartsInit DEF SyncInv
<1>2. SyncInv /\ [Next]_vars => SyncInv'
  BY NextInStep
<1> QED
  BY <1>1, <1>2, PTL DEF Spec

\* ReconciliationManager._reconcile_positions may read every difference between a
\* record and the exchange as somebody else's doing, because while no update is open
\* there is none: begin_position_update and end_position_update enclose what the bot
\* does to either side.  This holds through requests, events and logs that raise,
\* orders that execute in part and stops that fire, until the first of the events that
\* amiss remembers.
THEOREM StaysInStep == Spec => []InStep
<1>1. SyncInv => InStep
  <2> SUFFICES ASSUME SyncInv, ~amiss, ~Settling
               PROVE  IF BotIn({"PENDING", "ACTIVE", "CLOSING"})
                      THEN ex \in {0, obj[reg].qty}
                      ELSE ex = 0
    BY DEF InStep
  <2>1. Balanced /\ Parts
    BY DEF SyncInv
  <2>2. BotIn({"PENDING", "ACTIVE", "CLOSING"}) <=> Open
    BY <2>1, ObjsHaveThree DEF BotIn, Open, Parts, Records, Record
  <2> QED
    BY <2>1, <2>2, Settled
<1> QED
  BY <1>1, SyncInductive, PTL

\* An exit, a command, the exchange's stop and "already flat" answers race, and until
\* the first event that amiss remembers the result of a position reaches the cooldown
\* and the kill switch at most once, whichever of them closes it.
THEOREM BooksOnce == Spec => []BookedOnce
<1>1. SyncInv => BookedOnce
  BY DEF SyncInv, Parts, Records, Record, BookedOnce
<1> QED
  BY <1>1, SyncInductive, PTL

\* Until the first event that amiss remembers, handle_external_position is never called
\* on what the bot itself has opened.
THEOREM AdoptsForeignOnly == Spec => []AdoptsOnlyForeign
<1>1. SyncInv => AdoptsOnlyForeign
  BY DEF SyncInv, Parts, Records, Record, AdoptsOnlyForeign
<1> QED
  BY <1>1, SyncInductive, PTL

\* _activate is reached only by a stop that the exchange confirms, and until the first
\* event that amiss remembers nothing that follows -- a reduction, an exit, a command --
\* leaves lots without it.
THEOREM ActiveStaysProtected == Spec => []ActiveIsProtected
<1>1. SyncInv => ActiveIsProtected
  BY DEF SyncInv, Parts, Agree, ActiveIsProtected
<1> QED
  BY <1>1, SyncInductive, PTL

=============================================================================
