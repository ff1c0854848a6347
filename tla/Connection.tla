----------------------------- MODULE Connection -----------------------------
(***************************************************************************)
(* One client connection: net.Session (internal/net/session.go), the four  *)
(* goroutines that touch it and the two bounded channels between them.     *)
(*                                                                         *)
(*   acceptor   Server.AcceptLoop: starts the session, hands it over       *)
(*   reader     Session.readLoop: TCP -> InQueue                           *)
(*   writer     Session.writeLoop: OutQueue -> TCP                         *)
(*   loop       the game loop: InputSystem.Update and OutputSystem.Update  *)
(*                                                                         *)
(* Every one of them may call Close, and sync.Once lets the first do it    *)
(* while the others wait.  A packet is the number of its place in the      *)
(* stream of its direction; the ciphers of both sides keep a running key,  *)
(* so a packet that is lost, doubled or moved garbles all that follow.     *)
(* What handlers do with a packet, and to other sessions, is in Login.     *)
(***************************************************************************)
EXTENDS Naturals, SequencesExt

CONSTANTS
    InSize,         \* config in_queue_size
    OutSize,        \* config out_queue_size
    MaxPerTick,     \* config max_packets_per_tick
    MaxIn,          \* bound: packets the client sends
    MaxOut          \* bound: packets sent to the client

ASSUME ConnectionAssumption ==
    /\ InSize \in Nat \ {0} /\ OutSize \in Nat \ {0} /\ MaxPerTick \in Nat \ {0}
    /\ MaxIn \in Nat /\ MaxOut \in Nat

VARIABLES
    pc,         \* what each goroutine is doing
    back,       \* where acceptor and loop go on after Close
    place,      \* "new", "queued" (newConns), "stored", "refused" or "gone"
    closed,     \* Session.closed
    closer,     \* the goroutine that runs the body of closeOnce, or "nobody"
    hungUp,     \* closeCh and conn are closed, closeOnce is over
    received,   \* packets read from TCP
    inQueue,    \* Session.InQueue
    handled,    \* history: packets given to Registry.Dispatch
    quota,      \* packets this Update may still take
    sent,       \* history: packets that Send accepted
    outBuf,     \* Session.outBuf
    outQueue,   \* Session.OutQueue
    batch,      \* packets writeBatch has taken
    written,    \* packets written to TCP
    cleanups    \* history: calls of handleDisconnect

closeVars == <<closed, closer, hungUp>>
inVars == <<received, inQueue, handled>>
outVars == <<sent, outBuf, outQueue, batch, written>>
hostVars == <<place, quota, cleanups>>
vars == <<pc, back, closeVars, inVars, outVars, hostVars>>

Goroutine == {"acceptor", "reader", "writer", "loop"}
Nobody == "nobody"

\* What the game loop does at this session; then all that a goroutine may be doing.
AtTheSession == {"drain", "flush", "last drain", "last flush"}
Doing == {"start", "handover", "read", "push", "wait", "drain", "elsewhere",
          "closing", "done"} \cup AtTheSession

Go(g, from, to) == pc[g] = from /\ pc' = [pc EXCEPT ![g] = to]
\* g calls Close and goes on at next.
CallClose(g, from, next) ==
    /\ Go(g, from, "closing")
    /\ back' = [back EXCEPT ![g] = next]

UpTo(n) == [k \in 1..n |-> k]
-----------------------------------------------------------------------------
(* Close *)

\* The first caller sets closed; FlushOutput, Send and the game loop see it.
EnterClose(g) ==
    /\ pc[g] = "closing" /\ closer = Nobody
    /\ closed' = TRUE /\ closer' = g
    /\ UNCHANGED <<pc, back, hungUp, inVars, outVars, hostVars>>

\* Then closeCh and the connection are closed: whoever waits on them wakes up.
HangUp(g) ==
    /\ closer = g /\ ~hungUp
    /\ hungUp' = TRUE
    /\ UNCHANGED <<pc, back, closed, closer, inVars, outVars, hostVars>>

LeaveClose(g) ==
    /\ hungUp
    /\ Go(g, "closing", back[g])
    /\ UNCHANGED <<back, closeVars, inVars, outVars, hostVars>>

Close(g) == EnterClose(g) \/ HangUp(g) \/ LeaveClose(g)
-----------------------------------------------------------------------------
(* AcceptLoop *)

\* Start: the init packet is written and the two goroutines are launched.
Start ==
    /\ pc["acceptor"] = "start"
    /\ \/ /\ pc' = [pc EXCEPT !["acceptor"] = "handover", !["reader"] = "read",
                              !["writer"] = "wait"]
          /\ UNCHANGED back
       \/ CallClose("acceptor", "start", "handover")
    /\ UNCHANGED <<closeVars, inVars, outVars, hostVars>>

\* newConns takes the session, or is full and the session is refused.
HandOver ==
    /\ \/ /\ Go("acceptor", "handover", "done")
          /\ place' = "queued"
          /\ UNCHANGED back
       \/ /\ CallClose("acceptor", "handover", "done")
          /\ place' = "refused"
    /\ UNCHANGED <<closeVars, inVars, outVars, quota, cleanups>>

-----------------------------------------------------------------------------
(* readLoop *)

ReadFrame ==
    /\ ~hungUp /\ received < MaxIn
    /\ Go("reader", "read", "push")
    /\ received' = received + 1
    /\ UNCHANGED <<back, closeVars, inQueue, handled, outVars, hostVars>>

\* The client or the network breaks the connection, a packet is beyond the rate
\* limit, or the session is closed.
ReadFails ==
    /\ CallClose("reader", "read", "done")
    /\ UNCHANGED <<closeVars, inVars, outVars, hostVars>>

\* The reader waits for a place in InQueue ...
Push ==
    /\ Len(inQueue) < InSize
    /\ Go("reader", "push", "read")
    /\ inQueue' = Append(inQueue, received)
    /\ UNCHANGED <<back, closeVars, received, handled, outVars, hostVars>>

\* ... or for the session to be closed.
PushInterrupted ==
    /\ hungUp
    /\ CallClose("reader", "push", "done")
    /\ UNCHANGED <<closeVars, inVars, outVars, hostVars>>

-----------------------------------------------------------------------------
(* writeLoop *)

\* The first packet of a batch, then all that OutQueue holds by then.
TakeOut ==
    /\ outQueue # <<>>
    /\ \/ Go("writer", "wait", "drain")
       \/ Go("writer", "drain", "drain")
    /\ batch' = Append(batch, Head(outQueue))
    /\ outQueue' = Tail(outQueue)
    /\ UNCHANGED <<back, closeVars, inVars, sent, outBuf, written, hostVars>>

WriteBatch ==
    /\ outQueue = <<>> /\ ~hungUp
    /\ Go("writer", "drain", "wait")
    /\ written' = written \o batch
    /\ batch' = <<>>
    /\ UNCHANGED <<back, closeVars, inVars, sent, outBuf, outQueue, hostVars>>

\* The connection is broken, or ten seconds are over: part of the batch is out.
WriteFails ==
    /\ outQueue = <<>>
    /\ CallClose("writer", "drain", "done")
    /\ \E n \in 0..Len(batch) : written' = written \o SubSeq(batch, 1, n)
    /\ batch' = <<>>
    /\ UNCHANGED <<closeVars, inVars, sent, outBuf, outQueue, hostVars>>

WriterStops ==
    /\ hungUp
    /\ CallClose("writer", "wait", "done")
    /\ UNCHANGED <<closeVars, inVars, outVars, hostVars>>

-----------------------------------------------------------------------------
(* The game loop *)

\* Update takes the session from newConns.
AcceptSession ==
    /\ pc["loop"] = "elsewhere" /\ place = "queued"
    /\ place' = "stored"
    /\ UNCHANGED <<pc, back, closeVars, inVars, outVars, quota, cleanups>>

\* The range over the store reaches this session; IsClosed is asked once.
Visit ==
    /\ place = "stored"
    /\ Go("loop", "elsewhere", IF closed THEN "last drain" ELSE "drain")
    /\ quota' = MaxPerTick
    /\ UNCHANGED <<back, closeVars, inVars, outVars, place, cleanups>>

\* Send: a closed session takes nothing more.
Send(n) ==
    IF closed THEN UNCHANGED <<sent, outBuf>>
    ELSE /\ sent + n <= MaxOut
         /\ sent' = sent + n
         /\ outBuf' = outBuf \o [k \in 1..n |-> sent + k]

Draining == pc["loop"] \in {"drain", "last drain"}

\* A packet is dispatched; its handler may answer, or close the session.
Dispatch ==
    /\ Draining /\ quota > 0 /\ inQueue # <<>>
    /\ quota' = quota - 1
    /\ handled' = Append(handled, Head(inQueue))
    /\ inQueue' = Tail(inQueue)
    /\ \/ \E n \in 0..1 : Send(n) /\ UNCHANGED <<pc, back>>
       \/ CallClose("loop", pc["loop"], pc["loop"]) /\ UNCHANGED <<sent, outBuf>>
    /\ UNCHANGED <<closeVars, received, outQueue, batch, written, place, cleanups>>

DrainEnds ==
    /\ quota = 0 \/ inQueue = <<>>
    /\ \/ Go("loop", "drain", "flush")
       \/ Go("loop", "last drain", "last flush")
    /\ UNCHANGED <<back, closeVars, inVars, outVars, hostVars>>

\* Handlers of other sessions and the systems of phases 1 to 3 send too.
Broadcast ==
    /\ pc["loop"] = "elsewhere"
    /\ Send(1)
    /\ UNCHANGED <<pc, back, closeVars, inVars, outQueue, batch, written, hostVars>>

\* Phase 4: OutputSystem flushes every session of the store.
Output ==
    /\ place = "stored"
    /\ Go("loop", "elsewhere", "flush")
    /\ UNCHANGED <<back, closeVars, inVars, outVars, hostVars>>

Flushing == pc["loop"] \in {"flush", "last flush"}

\* FlushOutput, one packet: the writer may take some between two of them.
FlushPacket ==
    /\ Flushing /\ outBuf # <<>> /\ Len(outQueue) < OutSize
    /\ outQueue' = Append(outQueue, Head(outBuf))
    /\ outBuf' = Tail(outBuf)
    /\ UNCHANGED <<pc, back, closeVars, inVars, sent, batch, written, hostVars>>

\* Fault: the game loop waits for a place in OutQueue.
FlushWaits == FALSE /\ UNCHANGED vars
\* Fault: a packet that finds OutQueue full is dropped.
FlushDrops ==
    /\ Flushing /\ outBuf # <<>> /\ Len(outQueue) = OutSize
    /\ outBuf' = Tail(outBuf)
    /\ UNCHANGED <<pc, back, closeVars, inVars, sent, outQueue, batch, written, hostVars>>
\* OutQueue is full: the slow client is disconnected and the buffer emptied.
FlushOverflows ==
    /\ Flushing /\ outBuf # <<>> /\ Len(outQueue) = OutSize
    /\ outBuf' = <<>>
    /\ CallClose("loop", pc["loop"], pc["loop"])
    /\ UNCHANGED <<closeVars, inVars, sent, outQueue, batch, written, hostVars>>

FlushEnds ==
    /\ outBuf = <<>>
    /\ Go("loop", "flush", "elsewhere")
    /\ UNCHANGED <<back, closeVars, inVars, outVars, hostVars>>

\* Fault: the session stays in the store.
DisconnectAgain ==
    /\ outBuf = <<>>
    /\ Go("loop", "last flush", "elsewhere")
    /\ cleanups' = cleanups + 1
    /\ cleanups < 2
    /\ UNCHANGED <<back, closeVars, inVars, outVars, place, quota>>
\* After the last flush: handleDisconnect, and the session leaves the store.
Disconnect ==
    /\ outBuf = <<>>
    /\ Go("loop", "last flush", "elsewhere")
    /\ cleanups' = cleanups + 1
    /\ place' = "gone"
    /\ UNCHANGED <<back, closeVars, inVars, outVars, quota>>

-----------------------------------------------------------------------------
Init ==
    /\ pc = [g \in Goroutine |->
                CASE g = "acceptor" -> "start"
                  [] g = "loop" -> "elsewhere"
                  [] OTHER -> "done"]
    /\ back = [g \in Goroutine |-> "done"]
    /\ place = "new"
    /\ closed = FALSE /\ closer = Nobody /\ hungUp = FALSE
    /\ received = 0 /\ inQueue = <<>> /\ handled = <<>>
    /\ quota = 0
    /\ sent = 0 /\ outBuf = <<>> /\ outQueue = <<>> /\ batch = <<>> /\ written = <<>>
    /\ cleanups = 0

Acceptor == Start \/ HandOver \/ Close("acceptor")
Reader == ReadFrame \/ ReadFails \/ Push \/ PushInterrupted \/ Close("reader")
Writer == TakeOut \/ WriteBatch \/ WriteFails \/ WriterStops \/ Close("writer")
\* What the loop does once it is at this session.
AtSession ==
    \/ Dispatch \/ DrainEnds
    \/ FlushPacket \/ FlushOverflows \/ FlushEnds \/ Disconnect
    \/ Close("loop")
Loop == AcceptSession \/ Visit \/ Broadcast \/ Output \/ AtSession

Next == Acceptor \/ Reader \/ Writer \/ Loop

(***************************************************************************)
(* The runtime schedules every goroutine that can go on.  Nothing makes a  *)
(* client send: the reader must act only on a packet it holds, or once the *)
(* connection is closed and its read fails.  Each Update takes all new     *)
(* sessions and ranges over the whole store, and Updates never end.        *)
(***************************************************************************)
Fairness ==
    /\ WF_vars(Acceptor)
    /\ WF_vars(Push \/ PushInterrupted \/ Close("reader"))
    /\ WF_vars(hungUp /\ ReadFails)
    /\ WF_vars(Writer)
    /\ WF_vars(AtSession)
    /\ SF_vars(AcceptSession)
    /\ SF_vars(Visit)
    /\ SF_vars(Output)

Spec == Init /\ [][Next]_vars /\ Fairness
-----------------------------------------------------------------------------
(* Properties *)

PlacesOK ==
    /\ pc \in [Goroutine -> Doing] /\ back \in [Goroutine -> Doing]
    /\ pc["acceptor"] \in {"start", "handover", "closing", "done"}
    /\ pc["reader"] \in {"read", "push", "closing", "done"}
    /\ pc["writer"] \in {"wait", "drain", "closing", "done"}
    /\ pc["loop"] \in {"elsewhere", "closing"} \cup AtTheSession
    /\ place \in {"new", "queued", "stored", "refused", "gone"}

FlagsOK ==
    /\ closer \in Goroutine \cup {Nobody}
    /\ closed \in BOOLEAN /\ hungUp \in BOOLEAN
    /\ closed <=> closer # Nobody
    /\ hungUp => closed

QueuesOK ==
    /\ received \in Nat /\ quota \in Nat /\ sent \in Nat
    /\ inQueue \in Seq(Nat) /\ Len(inQueue) <= InSize
    /\ outQueue \in Seq(Nat) /\ Len(outQueue) <= OutSize
    /\ handled \in Seq(Nat) /\ outBuf \in Seq(Nat)
    /\ batch \in Seq(Nat) /\ written \in Seq(Nat)

\* The goroutines are where their code can be, and no channel holds more than it may.
TypeOK == PlacesOK /\ FlagsOK /\ QueuesOK

\* The packet the reader has read and not yet queued.
InHand == IF pc["reader"] = "push" THEN <<received>> ELSE <<>>

\* The game loop handles the client's packets in the order they were sent, each
\* once, and while the reader runs none is missing: what is not handled yet is
\* queued or in the reader's hand.
InputInOrder ==
    /\ IsPrefix(handled \o inQueue, UpTo(received))
    /\ pc["reader"] \in {"read", "push"} =>
          handled \o inQueue \o InHand = UpTo(received)

\* What is on the wire is what was sent, in order, with nothing left out in
\* between; while the session is open it will all get there.
OutputInOrder ==
    /\ IsPrefix(written, UpTo(sent))
    /\ closer = Nobody /\ (\A g \in Goroutine : pc[g] # "closing") =>
          written \o batch \o outQueue \o outBuf = UpTo(sent)

\* Both: the ciphers of the two directions never get out of step (session.go:122,188).
PacketsInOrder == TypeOK /\ InputInOrder /\ OutputInOrder

\* The player is taken out of the world once, whoever closed the session and
\* however often Close was called.
CleanedUpOnce ==
    /\ cleanups = IF place = "gone" THEN 1 ELSE 0
    /\ cleanups > 0 => closed

\* A session that is closed, from whichever side and however far it had got, is
\* refused or cleaned up; and its goroutines end, wherever they were waiting.
ClosedComesToAnEnd ==
    /\ closed ~> place \in {"refused", "gone"}
    /\ closed ~> pc["reader"] = "done" /\ pc["writer"] = "done"

\* The game loop never waits for a client, but always gets on with other things
\* (session.go:122); and every packet that was read is handled, every packet that
\* was sent is written, unless the session closes.
EverybodyGetsOn ==
    /\ []<>(pc["loop"] = "elsewhere")
    /\ \A n \in 1..MaxIn : received >= n ~> Len(handled) >= n \/ closed
    /\ \A n \in 1..MaxOut : sent >= n ~> Len(written) >= n \/ closed

\* What the goroutines owe each other: the way to the end, and the way on.
NobodyIsStuck == ClosedComesToAnEnd /\ EverybodyGetsOn
=============================================================================
