------------------------------ MODULE FixSession ------------------------------
(***************************************************************************)
(* One initiator FIX session of src/ismet/fix/session.py over any number   *)
(* of connections: logon, sequence numbers, gaps, resends, resets, logout. *)
(*                                                                         *)
(* Three tasks share the session: the runner with its read loop            *)
(* ("session"), the timer loop, and one caller of send_application or stop *)
(* ("app").  What a task has still to do between its awaits is a sequence  *)
(* of ops; one step executes one op.  An op that is part of a section      *)
(* under _send_lock has `keep` set until the last op of the section.       *)
(*                                                                         *)
(* Abstractions.  A message is its type, number, PossDup flag and one      *)
(* argument.  An administrative message is numbered and written in one     *)
(* step: the lock is held in between, and a write that is lost with its    *)
(* connection covers a crash in between.  Timeouts fire when nothing is on *)
(* its way, or early at the cost of one trouble.  A ResendRequest is       *)
(* answered in one step, under the lock.  max_reconnect_attempts,          *)
(* max_resend_requests and a failing store, which end the session, are     *)
(* left out.  The peer is external: an acceptor that drops what comes      *)
(* above a gap, keeps its numbers over connections, and after a reset of   *)
(* its own ignores everything up to our Logon.                             *)
(***************************************************************************)
EXTENDS Integers, Sequences, FiniteSets, SequencesExt, FiniteSetsExt, FixStore

CONSTANTS MaxTrouble,   \* drops, crashes, resets and early timeouts, together
          MaxOurs,      \* application messages the app sends
          MaxTheirs,    \* application messages the peer sends
          MaxNumber     \* where retries and reconnects stop; too high to be reached

ASSUME BoundsAreNaturals == {MaxTrouble, MaxOurs, MaxTheirs, MaxNumber} \subseteq Nat

Tasks == {"session", "timer", "app"}

VARIABLES
  disk,    \* the sequence row of the store
  mem,     \* the fields of FixSession
  todo,    \* what each task has still to do
  lock,    \* who holds _send_lock
  link,    \* the connection: up, and what is on its way in each direction
  peer,    \* the acceptor
  day,     \* the session period the clock gives
  config,  \* reset_on_logon
  seen,    \* history: what the application was owed and told
  budget   \* what is left of each bound

ourVars == <<disk, mem, todo, lock>>
vars == <<ourVars, link, peer, day, config, seen, budget>>

Spend(what) == budget[what] > 0 /\ budget' = [budget EXCEPT ![what] = @ - 1]

-------------------------------------------------------------------------------
\* Messages and ops.
NoMessage == [type |-> "", seq |-> 0, arg |-> 0, dup |-> FALSE, flag |-> FALSE, epoch |-> 0]
Msg(type, seq, arg) == [NoMessage EXCEPT !.type = type, !.seq = seq, !.arg = arg]
Dup(m) == [m EXCEPT !.dup = TRUE]

\* flag: ResetSeqNumFlag of a Logon, GapFillFlag of a SequenceReset, a defect of
\* an application message.
Flagged(m) == [m EXCEPT !.flag = TRUE]

Op(do, to) == [do |-> do, to |-> to, msg |-> NoMessage, keep |-> FALSE]
About(do, m) == [Op(do, 0) EXCEPT !.msg = m]
Send(type, arg) == About("send", Msg(type, 0, arg))
SendLogon(reset, epoch) ==
  About("send", [Msg("A", 0, 0) EXCEPT !.flag = reset, !.epoch = epoch])
Held(op) == [op EXCEPT !.keep = TRUE]
SyncRequest == Send("1", disk.epoch)
ResendRequest == Send("2", mem.nextIn)

Locked(op) == op.keep \/ op.do \in {"send", "store", "write", "resend"}

Logout == "5"
Live == {"SYNCING", "READY"}

\* The transaction an op runs in the store.  It runs on a worker thread, so it
\* commits even when the task that awaits it is cancelled.
Committed(op) ==
  CASE op.do = "send" -> AllocateOutbound(disk)
    [] op.do = "store" -> AllocateMessage(disk)
    [] op.do = "advance" -> SetNextInbound(disk, op.to)
    [] op.do = "reset" -> ResetSequences(disk, op.to)
    [] op.do = "complete" -> SetInboundComplete(disk, op.to = 1)
    [] op.do = "period" -> SetResetPeriod(disk, op.to)
    [] OTHER -> disk

FreshMemory(state) ==
  [state |-> state, nextIn |-> disk.in, synced |-> FALSE, asked |-> FALSE,
   target |-> 0, awaiting |-> NoPeriod, stopping |-> FALSE]
NoPeerLogon == [peer EXCEPT !.logged = "no", !.target = 0]
DownLink == [up |-> FALSE, toPeer |-> <<>>, toUs |-> <<>>]

Init ==
  /\ disk = NewSequence
  /\ mem = FreshMemory("DISCONNECTED")
  /\ todo = [t \in Tasks |-> <<>>]
  /\ lock = "free"
  /\ link = DownLink
  /\ peer = [in |-> 1, out |-> 1, epoch |-> 1, apps |-> {}, got |-> {}, target |-> 0,
             logged |-> "no", owes |-> FALSE, gaveUp |-> FALSE, reset |-> FALSE,
             refused |-> FALSE]
  /\ day = 1
  /\ config \in [reset : BOOLEAN]
  /\ seen = [pending |-> {}, silent |-> {}, sent |-> {}, aged |-> {}]
  /\ budget = [trouble |-> MaxTrouble, ours |-> MaxOurs, theirs |-> MaxTheirs]

-------------------------------------------------------------------------------
\* Executing ops.
At(t, do) == /\ todo[t] # <<>>
             /\ Head(todo[t]).do = do
             /\ Locked(Head(todo[t])) => lock \in {"free", t}

\* Task t is through with its op, and does `more` before what it had to do next.
Through(t, more) ==
  /\ disk' = Committed(Head(todo[t]))
  /\ todo' = [todo EXCEPT ![t] = more \o Tail(@)]
  /\ lock' = IF Head(todo[t]).keep THEN t ELSE IF lock = t THEN "free" ELSE lock

Remember(new) == mem' = new
Surroundings == <<link, peer, day, config, budget>>

\* _send_logon, under the lock: the period is read, and it decides on a reset.
ReportUnreadBeforeReset ==
  IF mem.nextIn > 1 /\ ~disk.complete THEN <<Held(Op("report", 0))>> ELSE <<>>
OwnEpoch == Max({disk.epoch, peer.epoch}) + 1
LogonSection(reset) ==
  (IF reset THEN ReportUnreadBeforeReset \o <<Held(Op("reset", OwnEpoch))>> ELSE <<>>)
    \o <<Held(Op("complete", 0)), SendLogon(reset, OwnEpoch)>>
StartLogon ==
  /\ At("session", "logon")
  /\ LET reset == config.reset /\ disk.period # day
     IN  /\ Through("session", LogonSection(reset))
         /\ Remember([mem EXCEPT !.awaiting = IF reset THEN day ELSE NoPeriod])
  /\ UNCHANGED <<Surroundings, seen>>

\* run_store(allocate_outbound), then the write, under one hold of the lock.
SendAdmin(t) ==
  /\ At(t, "send")
  /\ Through(t, <<>>)
  /\ LET m == Head(todo[t]).msg
     IN  /\ link' = IF ~link.up THEN link
                    ELSE [link EXCEPT !.toPeer = Append(@, [m EXCEPT !.seq = disk.out])]
         /\ Remember([mem EXCEPT !.asked = @ \/ (m.type = "1" /\ m.arg > 0)])
  /\ UNCHANGED <<peer, day, config, seen, budget>>

\* History: the numbers given to application messages; and what a reset takes out of
\* reach without a word, because nothing was ever read under the numbers in force.
SeenAfter(op) ==
  LET old == {p \in seen.pending : p.epoch < op.to}
  IN  CASE op.do = "store" -> [seen EXCEPT !.sent = @ \cup {disk.out}]
        [] op.do = "reset" -> [seen EXCEPT !.aged = {}, !.sent = {},
                                           !.silent = @ \cup IF mem.nextIn > 1 THEN {} ELSE old]
        [] OTHER -> seen

\* send_application: the message is kept before it is written, under one hold.
SlipLockNotHeld(op) == [op EXCEPT !.keep = FALSE]
KeptForWrite(op) == Held(op)
SendApplication ==
  /\ todo["app"] = <<>> /\ mem.state = "READY"
  /\ Spend("ours")
  /\ todo' = [todo EXCEPT !["app"] = <<KeptForWrite(Op("store", 0))>>]
  /\ UNCHANGED <<disk, mem, lock, link, peer, day, config, seen>>
StoreMessage ==
  /\ At("app", "store")
  /\ IF mem.state = "READY"
     THEN /\ Through("app", <<About("write", Msg("D", disk.out, 0))>>)
          /\ seen' = SeenAfter(Head(todo["app"]))
     ELSE /\ todo' = [todo EXCEPT !["app"] = <<>>]     \* require_ready raises
          /\ UNCHANGED <<disk, lock, seen>>
  /\ UNCHANGED <<mem, Surroundings>>
WriteMessage ==
  /\ At("app", "write")
  /\ Through("app", <<>>)
  /\ link' = IF ~link.up THEN link     \* AmbiguousOutcome
             ELSE [link EXCEPT !.toPeer = Append(@, Head(todo["app"]).msg)]
  /\ UNCHANGED <<mem, peer, day, config, seen, budget>>

\* _advance, with what it starts when it closes the gap, and _maybe_ready.
MaybeReady(m) == IF m.state = "SYNCING" /\ m.synced /\ m.target = 0
                 THEN [m EXCEPT !.state = "READY"] ELSE m
Advance ==
  /\ At("session", "advance")
  /\ LET to == Head(todo["session"]).to
         closes == mem.target # 0 /\ to > mem.target
     IN  /\ Through("session", IF closes /\ mem.state = "SYNCING" /\ ~mem.synced
                               THEN <<SyncRequest>> ELSE <<>>)
         /\ Remember(MaybeReady([mem EXCEPT !.nextIn = to,
                                            !.target = IF closes THEN 0 ELSE @]))
  /\ UNCHANGED <<Surroundings, seen>>

\* _reset_numbers.
ResetNumbers ==
  /\ At("session", "reset")
  /\ Through("session", <<>>)
  /\ seen' = SeenAfter(Head(todo["session"]))
  /\ Remember([mem EXCEPT !.nextIn = 1, !.target = 0])
  /\ UNCHANGED Surroundings

\* set_inbound_complete; _send_logon clears it and is LOGON_SENT from then on.
MarkComplete ==
  /\ At("session", "complete")
  /\ Through("session", <<>>)
  /\ Remember(IF Head(todo["session"]).to = 0 THEN [mem EXCEPT !.state = "LOGON_SENT"] ELSE mem)
  /\ UNCHANGED <<Surroundings, seen>>

\* _after_logon records the period a confirmed reset was for.
AfterLogon(period) ==
  (IF period = NoPeriod THEN <<>> ELSE <<Op("period", period)>>) \o <<SyncRequest>>
RecordPeriod ==
  /\ At("session", "period")
  /\ Through("session", <<>>)
  /\ UNCHANGED <<mem, Surroundings, seen>>

\* The listener: a message handled or reported as discarded, numbers reported as
\* skipped, and everything unread reported before a reset.
Id(m) == [epoch |-> m.epoch, seq |-> m.seq]
ListenerHears(t) ==
  \/ /\ At(t, "tell")
     /\ seen' = [seen EXCEPT !.pending = @ \ {Id(Head(todo[t]).msg)}]
  \/ /\ At(t, "skipped")
     /\ seen' = [seen EXCEPT !.pending =
                   {p \in @ : p.epoch # disk.epoch \/ p.seq >= Head(todo[t]).to}]
  \/ /\ At(t, "report")
     /\ seen' = [seen EXCEPT !.pending = {p \in @ : p.epoch = Head(todo[t]).to}]
Listen == /\ ListenerHears("session")
          /\ Through("session", <<>>)
          /\ UNCHANGED <<mem, Surroundings>>

\* _on_gap after the Logon or ResendRequest above the gap was taken care of.
NoteGap ==
  /\ At("session", "gap")
  /\ Through("session", IF mem.target = 0 THEN <<ResendRequest>> ELSE <<>>)
  /\ Remember([mem EXCEPT !.target = Max({@, Head(todo["session"]).to})])
  /\ UNCHANGED <<Surroundings, seen>>

\* _begin_logout.
BeginLogout ==
  /\ At("session", "logout")
  /\ Through("session", <<Send(Logout, 0)>>)
  /\ Remember([mem EXCEPT !.state = "LOGOUT_SENT"])
  /\ UNCHANGED <<Surroundings, seen>>

\* The frames of numbers begin..last again: a kept message each, PossDup, and one
\* gap fill for each run of numbers between them.
Again(begin, last, kept, epoch) ==
  LET starts == {s \in begin .. last : s \in kept \/ s = begin \/ s - 1 \in kept}
      next(s) == Min({k \in kept : k > s} \cup {last + 1})
      frame(s) == [Dup(IF s \in kept THEN Msg("D", s, 0) ELSE Flagged(Msg("4", s, next(s))))
                     EXCEPT !.epoch = epoch]
      order == SetToSortSeq(starts, <)
  IN  [i \in 1 .. Len(order) |-> frame(order[i])]

\* _resend: a message may be too old to be sent again, and is gap-filled instead.
Aged(stale) == [seen EXCEPT !.aged = @ \cup stale]
Resend ==
  /\ At("session", "resend")
  /\ Through("session", <<>>)
  /\ LET begin == Head(todo["session"]).to
         last == disk.out - 1
         stored == Messages(disk, begin, last)
     IN  \E stale \in SUBSET stored :
           /\ seen.aged \cap stored \subseteq stale
           /\ seen' = Aged(stale)
           /\ link' = [link EXCEPT !.toPeer =
                         @ \o Again(begin, last, stored \ stale, disk.epoch)]
  /\ UNCHANGED <<mem, peer, day, config, budget>>

-------------------------------------------------------------------------------
\* A connection ends: what was on its way is lost, and the reader and the timer
\* are cancelled.  A caller of send_application is not.
AfterDrop == IF mem.stopping THEN "STOPPED" ELSE "DISCONNECTED"
Disconnected(state) ==
  /\ link' = DownLink
  /\ peer' = NoPeerLogon
  /\ todo' = [t \in Tasks |-> IF t = "app" THEN todo[t] ELSE <<>>]
  /\ lock' = IF lock = "app" THEN lock ELSE "free"
  /\ mem' = [mem EXCEPT !.state = state, !.awaiting = NoPeriod]

Hangup ==
  /\ At("session", "hangup")
  /\ Disconnected(AfterDrop)
  /\ UNCHANGED <<disk, day, config, seen, budget>>
Fail ==
  /\ At("session", "fail")
  /\ Disconnected("FAILED")
  /\ UNCHANGED <<disk, day, config, seen, budget>>

\* The reader that is cancelled may have a transaction running, which commits.
LeftRunning(t) ==
  \/ UNCHANGED <<disk, seen>>
  \/ /\ todo[t] # <<>> /\ lock \in {"free", t}
     /\ disk' = Committed(Head(todo[t]))
     /\ seen' = SeenAfter(Head(todo[t]))
DropLink ==
  /\ link.up
  /\ Spend("trouble")
  /\ IF mem.state = "CONNECTING" THEN UNCHANGED <<disk, seen>> ELSE LeftRunning("session")
  /\ Disconnected(AfterDrop)
  /\ UNCHANGED <<day, config>>

\* The read loop takes the next message once the last is dealt with.
Read(m) ==
  /\ link.up /\ link.toUs # <<>> /\ todo["session"] = <<>>
  /\ m = Head(link.toUs)
  /\ link' = [link EXCEPT !.toUs = Tail(@)]
  /\ UNCHANGED <<disk, lock, peer, day, config, seen, budget>>
Then(ops) == todo' = [todo EXCEPT !["session"] = ops]
AdvanceFrom(m) == <<Op("advance", m.seq + 1)>>
Expected(m) == m.seq = mem.nextIn
Terminate == <<Send(Logout, 0), Op("hangup", 0)>>

\* send_reject, with the number of what is rejected.
Rejects(m) == <<Send("3", m.seq)>>

\* A CompID, SendingTime or OrigSendingTime problem: the message is rejected, and
\* reported if it is the one expected; some of these also end the connection.
Defective(m) == m.type = "D" /\ m.flag
Discard(m) == IF Expected(m) THEN <<About("tell", m)>> ELSE <<>>
HandleDefect(m) ==
  /\ Defective(m)
  /\ \E ending \in {<<>>, Terminate} :
       Then(Discard(m) \o Rejects(m)
              \o (IF Expected(m) THEN AdvanceFrom(m) ELSE <<>>) \o ending)
  /\ UNCHANGED mem

Sane(m) == ~Defective(m)
ConfirmsLogout(m) == mem.state = "LOGOUT_SENT" /\ m.type = Logout
HandleLogoutConfirmed(m) ==
  /\ Sane(m) /\ ConfirmsLogout(m)
  /\ Then((IF Expected(m) THEN AdvanceFrom(m) \o <<Op("complete", 1)>> ELSE <<>>)
            \o <<Op("hangup", 0)>>)
  /\ UNCHANGED mem

\* The first message after our Logon must be a Logon; a Logout refuses it.
HandleNoLogon(m) ==
  /\ mem.state = "LOGON_SENT" /\ m.type # "A" /\ Sane(m)
  /\ Then(IF m.type = Logout THEN <<Op("fail", 0)>> ELSE Terminate)
  /\ UNCHANGED mem

LogonReset(m) == m.type = "A" /\ m.flag
HandleResetConfirmed(m) ==
  /\ LogonReset(m) /\ mem.awaiting # NoPeriod /\ mem.state = "LOGON_SENT"
  /\ Then(<<Op("advance", 2), Op("confirmed", 0)>>)
  /\ UNCHANGED mem

\* _obey_peer_reset: report, then both numbers to 1 and our Logon, under the lock.
ReportLoss(m) == IF mem.nextIn > 1 THEN <<Op("report", m.epoch)>> ELSE <<>>
HandlePeerReset(m) ==
  /\ LogonReset(m) /\ ~(mem.awaiting # NoPeriod /\ mem.state = "LOGON_SENT")
  /\ Then(ReportLoss(m)
            \o <<Held(Op("reset", m.epoch)), Held(Op("advance", 2)),
                 SendLogon(TRUE, m.epoch), Op("afterLogon", 0)>>)
  /\ mem' = [mem EXCEPT !.synced = FALSE, !.asked = FALSE,
               !.state = IF @ \in Live \cup {"LOGON_SENT"} THEN "SYNCING" ELSE @]
\* _on_logon_confirmed after the advance, and _after_logon.
Confirm ==
  /\ At("session", "confirmed") \/ At("session", "afterLogon")
  /\ Through("session", AfterLogon(mem.awaiting))
  /\ Remember([mem EXCEPT !.awaiting = NoPeriod,
                 !.state = IF At("session", "confirmed") THEN "SYNCING" ELSE @])
  /\ UNCHANGED <<Surroundings, seen>>

\* SequenceReset-Reset: numbers the peer gives up are reported as lost.
Reset4(m) == m.type = "4" /\ ~m.flag
HandleSequenceReset(m) ==
  /\ Reset4(m) /\ mem.state # "LOGON_SENT"
  /\ Then(IF m.arg < mem.nextIn THEN Rejects(m)
          ELSE IF m.arg = mem.nextIn THEN <<>>
          ELSE <<Op("skipped", m.arg), Op("advance", m.arg)>>)
  /\ UNCHANGED mem

\* What is left goes by its number.
Numbered(m) == /\ Sane(m) /\ ~ConfirmsLogout(m) /\ ~LogonReset(m) /\ ~Reset4(m)
               /\ mem.state = "LOGON_SENT" => m.type = "A"
HandleTooLow(m) ==
  /\ Numbered(m) /\ m.seq < mem.nextIn
  /\ Then(IF m.dup THEN <<>> ELSE <<Send(Logout, 0), Op("fail", 0)>>)
  /\ UNCHANGED mem

SlipGapFirst(m) == <<>>
ResendAboveGap(m) == IF m.type = "2" /\ ~m.dup THEN <<Op("resend", m.arg)>> ELSE <<>>
HandleGap(m) ==
  /\ Numbered(m) /\ m.seq > mem.nextIn
  /\ Then(ResendAboveGap(m) \o <<Op("gap", m.seq)>>
            \o CASE m.type = "A" -> <<Op("afterLogon", 0)>>
                 [] m.type = Logout -> <<Op("logout", 0)>>
                 [] OTHER -> <<>>)
  /\ mem' = [mem EXCEPT !.state = IF m.type = "A" THEN "SYNCING" ELSE @]

\* The message expected next.
SlipAdvanceFirst(m) == AdvanceFrom(m) \o <<About("tell", m)>>
Deliver(m) == <<About("tell", m)>> \o AdvanceFrom(m)
GapFill(m) == IF m.arg > m.seq THEN <<Op("advance", m.arg)>> ELSE Rejects(m)
TestRequest(m) == <<Send("0", m.arg)>> \o AdvanceFrom(m)
Reaction(m) ==
  CASE m.type = "D" -> Deliver(m)
    [] m.type = "4" -> GapFill(m)
    [] m.type = "1" /\ ~m.dup -> TestRequest(m)
    [] m.type = "2" /\ ~m.dup -> <<Op("resend", m.arg)>> \o AdvanceFrom(m)
    [] m.type = Logout /\ ~m.dup -> AdvanceFrom(m) \o <<Op("complete", 1), Op("logout", 0)>>
    [] m.type = "A" /\ ~m.dup /\ mem.state = "LOGON_SENT" -> AdvanceFrom(m) \o <<Op("afterLogon", 0)>>
    [] OTHER -> AdvanceFrom(m)
Answers(m) == m.type = "0" /\ ~m.dup /\ mem.asked /\ m.arg = disk.epoch
HandleExpected(m) ==
  /\ Numbered(m) /\ Expected(m)
  /\ Then(Reaction(m))
  /\ mem' = [mem EXCEPT !.synced = @ \/ Answers(m), !.asked = @ /\ ~Answers(m),
               !.state = IF m.type = "A" /\ ~m.dup /\ @ = "LOGON_SENT" THEN "SYNCING" ELSE @]

Handle(m) ==
  \/ HandleDefect(m) \/ HandleLogoutConfirmed(m) \/ HandleNoLogon(m)
  \/ HandleResetConfirmed(m) \/ HandlePeerReset(m) \/ HandleSequenceReset(m)
  \/ HandleTooLow(m) \/ HandleGap(m) \/ HandleExpected(m)
ReadLoop == \E m \in ToSet(link.toUs) : Read(m) /\ Handle(m)

\* The application handler raises: the connection ends, to be delivered again.
HandlerFails ==
  /\ At("session", "tell")
  /\ Spend("trouble")
  /\ Disconnected(AfterDrop)
  /\ UNCHANGED <<disk, day, config, seen>>

-------------------------------------------------------------------------------
\* The timer loop.
Quiet == /\ link.toPeer = <<>> /\ link.toUs = <<>>
         /\ \A t \in Tasks : todo[t] = <<>>
Due == IF Quiet THEN UNCHANGED budget ELSE Spend("trouble")

TimerSends(op) ==
  /\ link.up /\ todo["timer"] = <<>> /\ mem.state \in Live
  /\ disk.out < MaxNumber
  /\ todo' = [todo EXCEPT !["timer"] = <<op>>]
  /\ UNCHANGED <<disk, mem, lock, link, peer, day, config, seen>>
\* _SYNC_RETRY_SECONDS: a peer may have gap-filled our TestRequest away.
SyncUnanswered == mem.state = "SYNCING" /\ mem.asked
RetrySync == SyncUnanswered /\ TimerSends(SyncRequest) /\ Due
RetryResend == mem.target # 0 /\ TimerSends(ResendRequest) /\ Due
Idle == \E op \in {Send("0", 0), Send("1", 0)} : TimerSends(op) /\ Spend("trouble")
GiveUp ==
  /\ link.up /\ mem.state \in {"LOGON_SENT", "LOGOUT_SENT", "SYNCING"}
  /\ IF mem.state = "SYNCING" THEN Spend("trouble") ELSE Due
  /\ Disconnected(AfterDrop)
  /\ UNCHANGED <<disk, day, config, seen>>
TimerLoop == RetrySync \/ RetryResend \/ Idle \/ GiveUp

-------------------------------------------------------------------------------
\* The life of the session object and of the process.
Connect ==
  /\ mem.state = "DISCONNECTED" /\ ~link.up
  /\ disk.out < MaxNumber
  /\ link' = [DownLink EXCEPT !.up = TRUE]
  /\ mem' = [mem EXCEPT !.state = "CONNECTING", !.synced = FALSE, !.asked = FALSE, !.target = 0]
  /\ todo' = [todo EXCEPT !["session"] = <<Held(Op("logon", 0))>>]
  /\ UNCHANGED <<disk, lock, peer, day, config, seen, budget>>

Stop ==
  /\ mem.state \in Live \cup {"LOGON_SENT", "CONNECTING"} /\ todo["app"] = <<>>
  /\ Spend("trouble")
  /\ IF mem.state \in Live
     THEN /\ mem' = [mem EXCEPT !.stopping = TRUE, !.state = "LOGOUT_SENT"]
          /\ todo' = [todo EXCEPT !["app"] = <<Send(Logout, 0)>>]
          /\ UNCHANGED <<disk, lock, link, peer, seen>>
     ELSE LeftRunning("session") /\ Disconnected("STOPPED")
  /\ UNCHANGED <<day, config>>
Start ==
  /\ mem.state = "STOPPED" /\ todo["app"] = <<>>
  /\ mem' = FreshMemory("DISCONNECTED")
  /\ UNCHANGED <<disk, todo, lock, link, peer, day, config, seen, budget>>

Crash ==
  /\ mem.state \notin {"STOPPED", "FAILED"}
  /\ Spend("trouble")
  /\ \E t \in Tasks : LeftRunning(t)
  /\ todo' = [t \in Tasks |-> <<>>]
  /\ lock' = "free"
  /\ link' = DownLink
  /\ peer' = NoPeerLogon
  /\ mem' = FreshMemory("STOPPED")
  /\ UNCHANGED <<day, config>>

NewDay ==
  /\ config.reset /\ Spend("trouble")
  /\ day' = day + 1
  /\ UNCHANGED <<ourVars, link, peer, config, seen>>

-------------------------------------------------------------------------------
\* The acceptor.
Answer(frames) == link' = [link EXCEPT !.toPeer = Tail(@), !.toUs = @ \o frames]
PeerTakes(m) == link.up /\ link.toPeer # <<>> /\ m = Head(link.toPeer)
OursIdle == UNCHANGED <<ourVars, day, config, seen>>

\* A reset of its own that we have not answered is asked for at the next Logon.
ResetDemand(epoch) == [Flagged(Msg("A", 1, 0)) EXCEPT !.epoch = epoch]
PeerLogon(m) ==
  /\ PeerTakes(m) /\ m.type = "A" /\ peer.logged = "no"
  /\ IF m.flag
     THEN /\ peer' = [peer EXCEPT !.in = 2, !.out = 2, !.epoch = m.epoch, !.apps = {},
                        !.got = {}, !.target = 0, !.logged = "yes", !.owes = FALSE]
          /\ Answer(<<ResetDemand(m.epoch)>>)
     ELSE IF peer.owes
     THEN /\ peer' = [peer EXCEPT !.logged = "resetting"]
          /\ Answer(<<ResetDemand(peer.epoch)>>)
     ELSE IF m.seq = peer.in
     THEN /\ peer' = [peer EXCEPT !.in = @ + 1, !.out = @ + 1, !.logged = "yes"]
          /\ Answer(<<Msg("A", peer.out, 0)>>)
     ELSE /\ m.seq > peer.in
          /\ peer' = [peer EXCEPT !.target = m.seq, !.out = @ + 2, !.logged = "yes"]
          /\ Answer(<<Msg("A", peer.out, 0), Msg("2", peer.out + 1, peer.in)>>)
  /\ OursIdle /\ UNCHANGED budget

\* It refuses a Logon that it could take, for a reason of its own, with a Logout.
PeerRefuses(m) ==
  /\ PeerTakes(m) /\ m.type = "A" /\ peer.logged = "no"
  /\ ~m.flag /\ ~peer.owes /\ m.seq = peer.in
  /\ Spend("trouble")
  /\ peer' = [peer EXCEPT !.in = @ + 1, !.out = @ + 1, !.logged = "out", !.refused = TRUE]
  /\ Answer(<<Msg(Logout, peer.out, 0)>>)
  /\ OursIdle

\* Our answer to its reset; what we sent before it had read the reset is ignored.
PeerResetAnswered(m) ==
  /\ PeerTakes(m) /\ peer.logged = "resetting"
  /\ peer' = IF LogonReset(m) THEN [peer EXCEPT !.in = 2, !.logged = "yes", !.owes = FALSE] ELSE peer
  /\ Answer(<<>>)
  /\ OursIdle /\ UNCHANGED budget

\* It hangs up on a first message that is no Logon, and gives up on a number
\* that is too low.
PeerHangsUp(m) ==
  /\ PeerTakes(m)
  /\ LET loggedOn == peer.logged \in {"yes", "closing"}
         tooLow == /\ loggedOn \/ (peer.logged = "no" /\ m.type = "A" /\ ~m.flag)
                   /\ m.seq < peer.in /\ ~m.dup
         closed == peer.logged = "closing" /\ m.type = Logout /\ m.seq >= peer.in
     IN  /\ tooLow \/ closed \/ (peer.logged = "no" /\ m.type # "A")
         /\ peer' = [NoPeerLogon EXCEPT !.gaveUp = @ \/ tooLow,
                                        !.in = IF closed /\ m.seq = @ THEN @ + 1 ELSE @]
  /\ link' = DownLink
  /\ todo' = [t \in Tasks |-> IF t = "app" THEN todo[t] ELSE <<>>]
  /\ lock' = IF lock = "app" THEN lock ELSE "free"
  /\ mem' = [mem EXCEPT !.state = AfterDrop, !.awaiting = NoPeriod]
  /\ UNCHANGED <<disk, day, config, seen, budget>>

\* It answers a ResendRequest from its log, or by giving up what it has lost.
PeerAgain(begin) ==
  IF begin >= peer.out THEN <<>>
  ELSE Again(begin, peer.out - 1, peer.apps \cap (begin .. peer.out - 1), peer.epoch)
PeerReply(m) ==
  CASE m.type = "1" -> <<Msg("0", peer.out, m.arg)>>
    [] m.type = Logout -> <<Msg(Logout, peer.out, 0)>>
    [] OTHER -> <<>>
PeerReads(m) ==
  /\ PeerTakes(m) /\ peer.logged \in {"yes", "closing"} /\ m.seq >= peer.in
  /\ ~(peer.logged = "closing" /\ m.type = Logout)
  /\ \/ /\ m.seq = peer.in
        /\ LET reply == PeerReply(m)
               next == IF m.type = "4" THEN m.arg ELSE m.seq + 1
           IN  /\ peer' = [peer EXCEPT !.in = next, !.out = @ + Len(reply),
                             !.got = IF m.type = "D" THEN @ \cup {m.seq} ELSE @,
                             !.target = IF next > @ THEN 0 ELSE @,
                             !.logged = IF m.type = Logout THEN "out" ELSE @]
               /\ Answer(reply \o (IF m.type = "2" THEN PeerAgain(m.arg) ELSE <<>>))
     \/ /\ m.seq > peer.in
        /\ LET reply == (IF m.type = Logout THEN PeerReply(m) ELSE <<>>)
                          \o (IF peer.target = 0
                              THEN <<Msg("2", peer.out + (IF m.type = Logout THEN 1 ELSE 0), peer.in)>>
                              ELSE <<>>)
           IN  /\ peer' = [peer EXCEPT !.out = @ + Len(reply),
                             !.target = Max({@, m.seq}),
                             !.logged = IF m.type = Logout THEN "out" ELSE @]
               /\ Answer((IF m.type = "2" THEN PeerAgain(m.arg) ELSE <<>>) \o reply)
  /\ OursIdle /\ UNCHANGED budget
PeerIgnores(m) ==
  /\ PeerTakes(m)
  /\ \/ peer.logged \in {"yes", "closing"} /\ m.seq < peer.in /\ m.dup
     \/ peer.logged = "out"
  /\ Answer(<<>>) /\ UNCHANGED peer
  /\ OursIdle /\ UNCHANGED budget

PeerSays(frames) ==
  /\ link.up /\ peer.logged = "yes"
  /\ link' = [link EXCEPT !.toUs = @ \o frames]
  /\ UNCHANGED <<ourVars, day, config>>
PeerSends ==
  /\ Spend("theirs")
  /\ \E bad \in BOOLEAN :
       PeerSays(<<[Msg("D", peer.out, 0) EXCEPT !.flag = bad, !.epoch = peer.epoch]>>)
  /\ peer' = [peer EXCEPT !.out = @ + 1, !.apps = @ \cup {peer.out}]
  /\ seen' = [seen EXCEPT !.pending = @ \cup {[epoch |-> peer.epoch, seq |-> peer.out]}]
PeerLogsOut ==
  /\ Spend("trouble")
  /\ PeerSays(<<Msg(Logout, peer.out, 0)>>)
  /\ peer' = [peer EXCEPT !.out = @ + 1, !.logged = "closing"]
  /\ UNCHANGED seen
PeerResets ==
  /\ Spend("trouble")
  /\ PeerSays(<<ResetDemand(OwnEpoch)>>)
  /\ peer' = [peer EXCEPT !.in = 1, !.out = 2, !.epoch = OwnEpoch, !.apps = {}, !.got = {},
                !.target = 0, !.logged = "resetting", !.owes = TRUE, !.reset = TRUE]
  /\ UNCHANGED seen
PeerSkips ==
  /\ Spend("trouble")
  /\ PeerSays(<<Msg("4", peer.out, peer.out + 1)>>)
  /\ peer' = [peer EXCEPT !.out = @ + 1]
  /\ UNCHANGED seen
PeerTurn == \E m \in ToSet(link.toPeer) :
  \/ PeerLogon(m) \/ PeerResetAnswered(m) \/ PeerHangsUp(m) \/ PeerReads(m) \/ PeerIgnores(m)

-------------------------------------------------------------------------------
AppStep == StoreMessage \/ WriteMessage \/ SendAdmin("app")
TimerStep == SendAdmin("timer")
SessionStep ==
  \/ StartLogon \/ SendAdmin("session") \/ Advance \/ ResetNumbers \/ MarkComplete
  \/ RecordPeriod \/ Listen \/ NoteGap \/ BeginLogout \/ Resend \/ Confirm \/ Hangup \/ Fail

Fault ==
  \/ DropLink \/ HandlerFails \/ Stop \/ Crash \/ NewDay
  \/ PeerLogsOut \/ PeerResets \/ PeerSkips \/ \E m \in ToSet(link.toPeer) : PeerRefuses(m)
\* Nothing is left to do: the session failed, or idles until a heartbeat is due.
Done == mem.state = "FAILED" \/ (Quiet /\ mem.state = "READY") \/ disk.out >= MaxNumber
Rest == Done /\ UNCHANGED vars
Next ==
  \/ SessionStep \/ ReadLoop \/ TimerStep \/ TimerLoop \/ AppStep \/ SendApplication
  \/ Connect \/ Start \/ Fault \/ PeerTurn \/ PeerSends \/ Rest

Spec == Init /\ [][Next]_vars
FairSpec ==
  /\ Spec
  /\ WF_vars(SessionStep) /\ WF_vars(ReadLoop) /\ WF_vars(TimerStep) /\ WF_vars(AppStep)
  /\ WF_vars(Quiet /\ RetrySync) /\ WF_vars(Quiet /\ RetryResend) /\ WF_vars(Quiet /\ GiveUp)
  /\ WF_vars(Connect) /\ WF_vars(Start) /\ WF_vars(PeerTurn)
-------------------------------------------------------------------------------
CanBeAskedFor(p) == /\ p.epoch >= disk.epoch
                    /\ p.epoch = disk.epoch => p.seq >= disk.in

(* Every application message of the peer that was neither handled nor reported *)
(* as lost can still be asked for: it is not below the number expected next, and *)
(* it was sent under the numbers in force (_advance, _deliver, _discard and the *)
(* listener calls before a reset).  The exception: either side resets the numbers *)
(* before the first message under them was read, and the listener hears nothing *)
(* (_report_unread_before_reset, _obey_peer_reset). *)
InboundAccounted == \A p \in seen.pending \ seen.silent : CanBeAskedFor(p)

(* The docstring of FixSessionConfig says of every reset that, unless the last *)
(* connection ended in a Logout exchange that left inbound fully read, the *)
(* listener hears of what the reset discards: nothing is lost without a word. *)
ResetsAreHeard == \A p \in seen.pending : CanBeAskedFor(p)

(* A stored application message below the number the peer expects was received *)
(* or was gap-filled because of its age: no gap fill and no later number ever *)
(* passes over one (send_application, _resend). *)
OutboundAccounted ==
  peer.epoch = disk.epoch =>
    \A s \in seen.sent : s < peer.in => s \in peer.got \cup seen.aged

(* No application message is passed over unheard on either side, whatever is    *)
(* lost, resent, gap-filled or cut off by a crash, and whatever is reset once a  *)
(* message was read under the numbers that go.                                   *)
NothingIsPassedOver == InboundAccounted /\ OutboundAccounted

(* Unless the peer resets on its own, neither side ever sees a number that is *)
(* too low, which only an operator can repair (_fail_too_low, _send_lock): the *)
(* session fails only where the peer refused its Logon (_on_logon_refused). *)
FailsForCause == mem.state = "FAILED" => peer.refused
NeverTooLow == ~peer.reset => FailsForCause /\ ~peer.gaveUp

(* When the trouble is over the session is ready for good, with nothing owed in *)
(* either direction but what a reset took out of reach unread, unless the peer  *)
(* refused it (gaps on both sides, retries of the sync and resend requests). *)
Settled == /\ mem.state = "READY" /\ seen.pending \subseteq seen.silent
           /\ seen.sent \subseteq peer.got \cup seen.aged
Converges == <>[]((mem.state = "FAILED" /\ peer.refused) \/ Settled)
===============================================================================
