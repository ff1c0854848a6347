-------------------------- MODULE ConnectionProofs --------------------------
(***************************************************************************)
(* Proofs about Connection: no packet of either direction is lost, doubled *)
(* or moved while it matters, and a session is cleaned up once, for queues *)
(* of every size, every rate and any number of packets.                    *)
(***************************************************************************)
EXTENDS Connection, SequenceTheorems, TLAPS

\* What a goroutine does, or will once Close lets it go on.
Whereabouts(g) == IF pc[g] = "closing" THEN back[g] ELSE pc[g]

\* What each goroutine is doing tells how far the session has got.
Control ==
    /\ pc["acceptor"] = "closing" => back["acceptor"] \in {"handover", "done"}
    /\ pc["reader"] = "closing" => back["reader"] = "done"
    /\ pc["writer"] = "closing" => back["writer"] = "done"
    /\ pc["loop"] = "closing" => back["loop"] \in AtTheSession
    /\ place = "new" <=> Whereabouts("acceptor") \in {"start", "handover"}
    /\ Whereabouts("loop") \in AtTheSession => place = "stored"
    /\ Whereabouts("loop") \in {"last drain", "last flush"} => closed
    /\ pc["acceptor"] = "start" => pc["reader"] = "done" /\ pc["writer"] = "done"
    /\ pc["writer"] = "done" => pc["acceptor"] \in {"start", "closing"} \/ hungUp
    /\ cleanups = IF place = "gone" THEN 1 ELSE 0
    /\ place = "gone" => closed

\* The client's packets: handled, then queued, then in the reader's hand.
InputKept ==
    /\ \A k \in 1..Len(handled) : handled[k] = k
    /\ \A k \in 1..Len(inQueue) : inQueue[k] = Len(handled) + k
    /\ Len(handled) + Len(inQueue) <= received
    /\ pc["reader"] = "read" \/ pc["acceptor"] = "start" => Len(handled) + Len(inQueue) = received
    /\ pc["reader"] = "push" => Len(handled) + Len(inQueue) + 1 = received

\* The writer still writes, or will.
WriterLives == pc["writer"] \in {"wait", "drain"} \/ pc["acceptor"] = "start"

\* The session is closed, or the loop is about to close it.
Ending == closed \/ pc["loop"] = "closing"

\* Packets on their way to the client.
OnTheWay == Len(batch) + Len(outQueue) + Len(outBuf)

\* The packets to the client: written, then in the writer's batch, in OutQueue and in
\* outBuf.  A writer that gave up leaves a gap after what is written, and writes no more.
OutputKept ==
    /\ \A k \in 1..Len(written) : written[k] = k
    /\ Len(written) <= sent
    /\ WriterLives =>
          /\ \A k \in 1..Len(batch) : batch[k] = Len(written) + k
          /\ \A k \in 1..Len(outQueue) : outQueue[k] = Len(written) + Len(batch) + k
          /\ \A k \in 1..Len(outBuf) :
                outBuf[k] = Len(written) + Len(batch) + Len(outQueue) + k
          /\ Len(written) + OnTheWay <= sent
          /\ Ending \/ Len(written) + OnTheWay = sent

CInv == TypeOK /\ Control /\ InputKept /\ OutputKept

-----------------------------------------------------------------------------
(* The goroutines, one action at a time *)

\* g alone goes on, to a place there is.
LEMMA GoFacts ==
    ASSUME PlacesOK, NEW g \in Goroutine, NEW from, NEW to \in Doing, Go(g, from, to)
    PROVE  /\ pc \in [Goroutine -> Doing] /\ pc' \in [Goroutine -> Doing]
           /\ pc[g] = from /\ pc'[g] = to
           /\ \A h \in Goroutine \ {g} : pc'[h] = pc[h]
BY DEF Go, PlacesOK

LEMMA ControlFrame ==
    ASSUME Control, pc' = pc, back' = back, place' = place, cleanups' = cleanups,
           closed => closed', hungUp => hungUp'
    PROVE  Control'
BY DEF Control, Whereabouts

LEMMA PlacesStep ==
    ASSUME PlacesOK, Control, [Next]_vars
    PROVE  PlacesOK'
<1> USE DEF PlacesOK, Control, Goroutine, Doing, AtTheSession, closeVars, inVars, outVars, hostVars, CallClose
<1>1. CASE Start
    <2>1. UNCHANGED place
        BY <1>1 DEF Start
    <2>2. CASE CallClose("acceptor", "start", "handover")
        BY <2>1, <2>2 DEF Go
    <2>3. CASE ~CallClose("acceptor", "start", "handover")
        <3>1. /\ pc' = [pc EXCEPT !["acceptor"] = "handover", !["reader"] = "read",
                                  !["writer"] = "wait"]
              /\ back' = back
            BY <1>1, <2>3 DEF Start
        <3>. QED
            BY <2>1, <3>1
    <2>. QED
        BY <2>2, <2>3
<1>2. CASE HandOver
    <2>1. CASE Go("acceptor", "handover", "done") /\ place' = "queued" /\ back' = back
        BY <2>1 DEF Go
    <2>2. CASE CallClose("acceptor", "handover", "done") /\ place' = "refused"
        BY <2>2 DEF Go
    <2>. QED
        BY <1>2, <2>1, <2>2 DEF HandOver
<1>3. CASE ReadFrame
    BY <1>3 DEF ReadFrame, Go
<1>4. CASE ReadFails
    BY <1>4 DEF ReadFails, Go
<1>5. CASE Push
    BY <1>5 DEF Push, Go
<1>6. CASE PushInterrupted
    BY <1>6 DEF PushInterrupted, Go
<1>7. CASE TakeOut
    <2>1. place' = place /\ back' = back
        BY <1>7 DEF TakeOut
    <2>2. Go("writer", "wait", "drain") \/ Go("writer", "drain", "drain")
        BY <1>7 DEF TakeOut
    <2>. QED
        BY <2>1, <2>2 DEF Go
<1>8. CASE WriteBatch
    BY <1>8 DEF WriteBatch, Go
<1>9. CASE WriteFails
    BY <1>9 DEF WriteFails, Go
<1>10. CASE WriterStops
    BY <1>10 DEF WriterStops, Go
<1>11. CASE AcceptSession
    BY <1>11 DEF AcceptSession, Go
<1>12. CASE Visit
    BY <1>12 DEF Visit, Go
<1>13. CASE Broadcast
    BY <1>13 DEF Broadcast, Go, Send
<1>14. CASE Output
    BY <1>14 DEF Output, Go
<1>15. CASE Dispatch
    <2>1. place' = place /\ pc["loop"] \in {"drain", "last drain"}
        BY <1>15 DEF Dispatch, Draining
    <2>2. CASE UNCHANGED <<pc, back>>
        BY <2>1, <2>2
    <2>3. CASE CallClose("loop", pc["loop"], pc["loop"])
        BY <2>1, <2>3 DEF Go
    <2>. QED
        BY <1>15, <2>2, <2>3 DEF Dispatch
<1>16. CASE DrainEnds
    <2>1. place' = place /\ back' = back
        BY <1>16 DEF DrainEnds
    <2>2. Go("loop", "drain", "flush") \/ Go("loop", "last drain", "last flush")
        BY <1>16 DEF DrainEnds
    <2>. QED
        BY <2>1, <2>2 DEF Go
<1>17. CASE FlushPacket
    BY <1>17 DEF FlushPacket, Go, Flushing
<1>18. CASE FlushOverflows
    BY <1>18 DEF FlushOverflows, Go, Flushing
<1>19. CASE FlushEnds
    BY <1>19 DEF FlushEnds, Go
<1>20. CASE Disconnect
    BY <1>20 DEF Disconnect, Go
<1>21. ASSUME NEW g \in Goroutine, EnterClose(g)
      PROVE  PlacesOK'
    BY <1>21 DEF EnterClose, Go
<1>22. ASSUME NEW g \in Goroutine, HangUp(g)
      PROVE  PlacesOK'
    BY <1>22 DEF HangUp, Go
<1>23. ASSUME NEW g \in Goroutine, LeaveClose(g)
      PROVE  PlacesOK'
    BY <1>23 DEF LeaveClose, Go
<1>24. CASE UNCHANGED vars
    BY <1>24 DEF vars
<1>. QED
    BY <1>1, <1>2, <1>3, <1>4, <1>5, <1>6, <1>7, <1>8, <1>9, <1>10, <1>11,
       <1>12, <1>13, <1>14, <1>15, <1>16, <1>17, <1>18, <1>19, <1>20, <1>21,
       <1>22, <1>23, <1>24
       DEF Next, Acceptor, Reader, Writer, Loop, AtSession, Close, Goroutine

\* Close is over for all once it is for one.
LEMMA FlagsStep ==
    ASSUME FlagsOK, [Next]_vars
    PROVE  FlagsOK'
<1> USE DEF FlagsOK, Goroutine, Nobody, closeVars, inVars, outVars, hostVars, CallClose
<1>1. CASE Start
    BY <1>1 DEF Start, Go
<1>2. CASE HandOver
    BY <1>2 DEF HandOver, Go
<1>3. CASE ReadFrame
    BY <1>3 DEF ReadFrame, Go
<1>4. CASE ReadFails
    BY <1>4 DEF ReadFails, Go
<1>5. CASE Push
    BY <1>5 DEF Push, Go
<1>6. CASE PushInterrupted
    BY <1>6 DEF PushInterrupted, Go
<1>7. CASE TakeOut
    BY <1>7 DEF TakeOut, Go
<1>8. CASE WriteBatch
    BY <1>8 DEF WriteBatch, Go
<1>9. CASE WriteFails
    BY <1>9 DEF WriteFails, Go
<1>10. CASE WriterStops
    BY <1>10 DEF WriterStops, Go
<1>11. CASE AcceptSession
    BY <1>11 DEF AcceptSession, Go
<1>12. CASE Visit
    BY <1>12 DEF Visit, Go
<1>13. CASE Broadcast
    BY <1>13 DEF Broadcast, Go, Send
<1>14. CASE Output
    BY <1>14 DEF Output, Go
<1>15. CASE Dispatch
    BY <1>15 DEF Dispatch, Go, Draining, Send
<1>16. CASE DrainEnds
    BY <1>16 DEF DrainEnds, Go
<1>17. CASE FlushPacket
    BY <1>17 DEF FlushPacket, Go, Flushing
<1>18. CASE FlushOverflows
    BY <1>18 DEF FlushOverflows, Go, Flushing
<1>19. CASE FlushEnds
    BY <1>19 DEF FlushEnds, Go
<1>20. CASE Disconnect
    BY <1>20 DEF Disconnect, Go
<1>21. ASSUME NEW g \in Goroutine, EnterClose(g)
      PROVE  FlagsOK'
    BY <1>21 DEF EnterClose, Go
<1>22. ASSUME NEW g \in Goroutine, HangUp(g)
      PROVE  FlagsOK'
    BY <1>22 DEF HangUp, Go
<1>23. ASSUME NEW g \in Goroutine, LeaveClose(g)
      PROVE  FlagsOK'
    BY <1>23 DEF LeaveClose, Go
<1>24. CASE UNCHANGED vars
    BY <1>24 DEF vars
<1>. QED
    BY <1>1, <1>2, <1>3, <1>4, <1>5, <1>6, <1>7, <1>8, <1>9, <1>10, <1>11,
       <1>12, <1>13, <1>14, <1>15, <1>16, <1>17, <1>18, <1>19, <1>20, <1>21,
       <1>22, <1>23, <1>24
       DEF Next, Acceptor, Reader, Writer, Loop, AtSession, Close, Goroutine

LEMMA ControlStep ==
    ASSUME PlacesOK, FlagsOK, Control, [Next]_vars
    PROVE  Control'
<1> USE DEF PlacesOK, FlagsOK, Control, Goroutine, Doing, AtTheSession, Nobody, Whereabouts, closeVars, inVars, outVars, hostVars, CallClose
<1>1. CASE Start
    BY <1>1 DEF Start, Go
<1>2. CASE HandOver
    BY <1>2 DEF HandOver, Go
<1>3. CASE ReadFrame
    BY <1>3 DEF ReadFrame, Go
<1>4. CASE ReadFails
    BY <1>4 DEF ReadFails, Go
<1>5. CASE Push
    BY <1>5 DEF Push, Go
<1>6. CASE PushInterrupted
    BY <1>6 DEF PushInterrupted, Go
<1>7. CASE TakeOut
    <2>1. place' = place /\ back' = back /\ cleanups' = cleanups
        BY <1>7 DEF TakeOut
    <2>2. Go("writer", "wait", "drain") \/ Go("writer", "drain", "drain")
        BY <1>7 DEF TakeOut
    <2>3. (closed => closed') /\ (hungUp => hungUp')
        BY <1>7 DEF TakeOut
    <2>4. /\ pc["writer"] \in {"wait", "drain"} /\ pc'["writer"] = "drain"
          /\ \A h \in Goroutine \ {"writer"} : pc'[h] = pc[h]
        BY <2>2, GoFacts
    <2>. QED
        BY <2>1, <2>3, <2>4
<1>8. CASE WriteBatch
    BY <1>8 DEF WriteBatch, Go
<1>9. CASE WriteFails
    BY <1>9 DEF WriteFails, Go
<1>10. CASE WriterStops
    BY <1>10 DEF WriterStops, Go
<1>11. CASE AcceptSession
    BY <1>11 DEF AcceptSession, Go
<1>12. CASE Visit
    BY <1>12 DEF Visit, Go
<1>13. CASE Broadcast
    BY <1>13 DEF Broadcast, Go, Send
<1>14. CASE Output
    BY <1>14 DEF Output, Go
<1>15. CASE Dispatch
    BY <1>15 DEF Dispatch, Go, Draining, Send
<1>16. CASE DrainEnds
    BY <1>16 DEF DrainEnds, Go
<1>17. CASE FlushPacket
    BY <1>17 DEF FlushPacket, Go, Flushing
<1>18. CASE FlushOverflows
    BY <1>18 DEF FlushOverflows, Go, Flushing
<1>19. CASE FlushEnds
    BY <1>19 DEF FlushEnds, Go
<1>20. CASE Disconnect
    <2>1. place' = "gone" /\ back' = back /\ cleanups' = cleanups + 1
        BY <1>20 DEF Disconnect
    <2>2. (closed => closed') /\ (hungUp => hungUp')
        BY <1>20 DEF Disconnect
    <2>3. /\ pc["loop"] = "last flush" /\ pc'["loop"] = "elsewhere"
          /\ \A h \in Goroutine \ {"loop"} : pc'[h] = pc[h]
        BY <1>20, GoFacts DEF Disconnect
    <2>4. closed /\ place = "stored"
        BY <2>3
    <2>5. closed'
        BY <2>2, <2>4, Zenon
    <2>6. cleanups = 0
        BY <2>4
    <2>7. cleanups' = 1
        BY ONLY <2>1, <2>6
    <2>. QED
        BY <2>1, <2>2, <2>3, <2>4, <2>5, <2>7
<1>21. ASSUME NEW g \in Goroutine, EnterClose(g)
      PROVE  Control'
    <2>1. pc' = pc /\ back' = back /\ place' = place /\ cleanups' = cleanups
        BY <1>21 DEF EnterClose
    <2>2. (closed => closed') /\ (hungUp => hungUp')
        BY <1>21 DEF EnterClose
    <2>. QED
        BY <2>1, <2>2, ControlFrame
<1>22. ASSUME NEW g \in Goroutine, HangUp(g)
      PROVE  Control'
    <2>1. pc' = pc /\ back' = back /\ place' = place /\ cleanups' = cleanups
        BY <1>22 DEF HangUp
    <2>2. (closed => closed') /\ (hungUp => hungUp')
        BY <1>22 DEF HangUp
    <2>. QED
        BY <2>1, <2>2, ControlFrame
<1>23. ASSUME NEW g \in Goroutine, LeaveClose(g)
      PROVE  Control'
    BY <1>23 DEF LeaveClose, Go
<1>24. CASE UNCHANGED vars
    <2>1. pc' = pc /\ back' = back /\ place' = place /\ cleanups' = cleanups
        BY <1>24 DEF vars
    <2>2. (closed => closed') /\ (hungUp => hungUp')
        BY <1>24 DEF vars
    <2>. QED
        BY <2>1, <2>2, ControlFrame
<1>. QED
    BY <1>1, <1>2, <1>3, <1>4, <1>5, <1>6, <1>7, <1>8, <1>9, <1>10, <1>11,
       <1>12, <1>13, <1>14, <1>15, <1>16, <1>17, <1>18, <1>19, <1>20, <1>21,
       <1>22, <1>23, <1>24
       DEF Next, Acceptor, Reader, Writer, Loop, AtSession, Close, Goroutine

-----------------------------------------------------------------------------
(* The queues *)

LEMMA AppendFacts ==
    ASSUME NEW s \in Seq(Nat), NEW n \in Nat
    PROVE  /\ Append(s, n) \in Seq(Nat) /\ Len(Append(s, n)) = Len(s) + 1
           /\ \A k \in 1..(Len(s) + 1) : Append(s, n)[k] = IF k <= Len(s) THEN s[k] ELSE n
OBVIOUS

LEMMA TailFacts ==
    ASSUME NEW s \in Seq(Nat), s # <<>>
    PROVE  /\ Tail(s) \in Seq(Nat) /\ Len(Tail(s)) = Len(s) - 1 /\ Len(s) \in Nat \ {0}
           /\ Head(s) = s[1] /\ Head(s) \in Nat
           /\ \A k \in 1..(Len(s) - 1) : Tail(s)[k] = s[k + 1]
OBVIOUS

LEMMA ConcatFacts ==
    ASSUME NEW s \in Seq(Nat), NEW t \in Seq(Nat)
    PROVE  /\ s \o t \in Seq(Nat) /\ Len(s \o t) = Len(s) + Len(t)
           /\ \A k \in 1..(Len(s) + Len(t)) :
                 (s \o t)[k] = IF k <= Len(s) THEN s[k] ELSE t[k - Len(s)]
OBVIOUS

LEMMA SubSeqFacts ==
    ASSUME NEW s \in Seq(Nat), NEW n \in 0..Len(s)
    PROVE  /\ SubSeq(s, 1, n) \in Seq(Nat) /\ Len(SubSeq(s, 1, n)) = n
           /\ \A k \in 1..n : SubSeq(s, 1, n)[k] = s[k]
OBVIOUS

\* A session that is open takes n packets more, and numbers them; a closed one none.
LEMMA SendFacts ==
    ASSUME QueuesOK, NEW n \in Nat, Send(n)
    PROVE  /\ sent' \in Nat /\ outBuf' \in Seq(Nat)
           /\ \/ closed /\ sent' = sent /\ outBuf' = outBuf
              \/ /\ ~closed /\ sent' = sent + n /\ Len(outBuf') = Len(outBuf) + n
                 /\ \A k \in 1..(Len(outBuf) + n) :
                       outBuf'[k] = IF k <= Len(outBuf) THEN outBuf[k]
                                    ELSE sent + (k - Len(outBuf))
<1>1. CASE closed
    BY <1>1 DEF Send, QueuesOK
<1>2. CASE ~closed
    <2> DEFINE t == [k \in 1..n |-> sent + k]
    <2>1. t \in Seq(Nat) /\ Len(t) = n /\ \A k \in 1..n : t[k] = sent + k
        BY DEF QueuesOK
    <2>2. sent' = sent + n /\ outBuf' = outBuf \o t
        BY <1>2 DEF Send
    <2>3. outBuf \in Seq(Nat) /\ Len(outBuf) \in Nat /\ sent \in Nat
        BY DEF QueuesOK
    <2> HIDE DEF t
    <2>4. /\ outBuf' \in Seq(Nat) /\ Len(outBuf') = Len(outBuf) + n
          /\ \A k \in 1..(Len(outBuf) + n) :
                outBuf'[k] = IF k <= Len(outBuf) THEN outBuf[k] ELSE t[k - Len(outBuf)]
        BY <2>1, <2>2, <2>3, ConcatFacts
    <2>5. \A k \in 1..(Len(outBuf) + n) : k > Len(outBuf) => k - Len(outBuf) \in 1..n
        BY <2>3
    <2>6. /\ sent' = sent + n /\ Len(outBuf') = Len(outBuf) + n /\ sent' \in Nat
          /\ \A k \in 1..(Len(outBuf) + n) :
                outBuf'[k] = IF k <= Len(outBuf) THEN outBuf[k]
                             ELSE sent + (k - Len(outBuf))
        BY <2>1, <2>2, <2>3, <2>4, <2>5
    <2>. QED
        BY <1>2, <2>4, <2>6
<1>. QED
    BY <1>1, <1>2

LEMMA QueuesFrame ==
    ASSUME QueuesOK, quota' \in Nat, UNCHANGED inVars, UNCHANGED outVars
    PROVE  QueuesOK'
BY DEF QueuesOK, inVars, outVars

LEMMA QueuesStep ==
    ASSUME QueuesOK, [Next]_vars
    PROVE  QueuesOK'
<1> USE DEF QueuesOK, closeVars, inVars, outVars, hostVars, CallClose
<1>1. CASE Start
    BY <1>1 DEF Start, Go
<1>2. CASE HandOver
    BY <1>2 DEF HandOver, Go
<1>3. CASE ReadFrame
    BY <1>3 DEF ReadFrame, Go
<1>4. CASE ReadFails
    BY <1>4 DEF ReadFails, Go
<1>5. CASE Push
    <2>1. inQueue' = Append(inQueue, received) /\ Len(inQueue) < InSize
        BY <1>5 DEF Push
    <2>2. /\ UNCHANGED <<received, handled, quota>> /\ UNCHANGED outVars
        BY <1>5 DEF Push
    <2>. QED
        BY <2>1, <2>2, AppendFacts, ConnectionAssumption DEF QueuesOK
<1>6. CASE PushInterrupted
    BY <1>6 DEF PushInterrupted, Go
<1>7. CASE TakeOut
    <2>1. batch' = Append(batch, Head(outQueue)) /\ outQueue' = Tail(outQueue) /\ outQueue # <<>>
        BY <1>7 DEF TakeOut
    <2>2. /\ UNCHANGED inVars /\ UNCHANGED <<sent, outBuf, written, quota>>
        BY <1>7 DEF TakeOut
    <2>. QED
        BY <2>1, <2>2, AppendFacts, TailFacts, ConnectionAssumption DEF QueuesOK
<1>8. CASE WriteBatch
    BY <1>8 DEF WriteBatch, Go
<1>9. CASE WriteFails
    BY <1>9 DEF WriteFails, Go
<1>10. CASE WriterStops
    BY <1>10 DEF WriterStops, Go
<1>11. CASE AcceptSession
    BY <1>11 DEF AcceptSession, Go
<1>12. CASE Visit
    BY <1>12, ConnectionAssumption, QueuesFrame DEF Visit
<1>13. CASE Broadcast
    <2>1. Send(1) /\ UNCHANGED <<outQueue, batch, written, quota>> /\ UNCHANGED inVars
        BY <1>13 DEF Broadcast
    <2>. QED
        BY <2>1, SendFacts DEF QueuesOK
<1>14. CASE Output
    BY <1>14 DEF Output, Go
<1>15. CASE Dispatch
    <2>1. /\ inQueue # <<>> /\ inQueue' = Tail(inQueue)
          /\ handled' = Append(handled, Head(inQueue)) /\ quota > 0 /\ quota' = quota - 1
          /\ UNCHANGED <<received, outQueue, batch, written>>
        BY <1>15 DEF Dispatch
    <2>2. sent' \in Nat /\ outBuf' \in Seq(Nat)
        BY <1>15, SendFacts DEF Dispatch, QueuesOK
    <2>. QED
        BY <2>1, <2>2, AppendFacts, TailFacts, ConnectionAssumption DEF QueuesOK
<1>16. CASE DrainEnds
    BY <1>16 DEF DrainEnds, Go
<1>17. CASE FlushPacket
    <2>1. /\ outBuf # <<>> /\ Len(outQueue) < OutSize
          /\ outQueue' = Append(outQueue, Head(outBuf)) /\ outBuf' = Tail(outBuf)
          /\ UNCHANGED <<sent, batch, written, quota>> /\ UNCHANGED inVars
        BY <1>17 DEF FlushPacket
    <2>. QED
        BY <2>1, AppendFacts, TailFacts, ConnectionAssumption DEF QueuesOK
<1>18. CASE FlushOverflows
    <2>1. outBuf' = <<>> /\ UNCHANGED <<sent, outQueue, batch, written, quota>> /\ UNCHANGED inVars
        BY <1>18 DEF FlushOverflows
    <2>. QED
        BY <2>1 DEF QueuesOK
<1>19. CASE FlushEnds
    BY <1>19 DEF FlushEnds, Go
<1>20. CASE Disconnect
    BY <1>20 DEF Disconnect, Go
<1>21. ASSUME NEW g \in Goroutine, EnterClose(g)
      PROVE  QueuesOK'
    BY <1>21 DEF EnterClose, Go
<1>22. ASSUME NEW g \in Goroutine, HangUp(g)
      PROVE  QueuesOK'
    BY <1>22 DEF HangUp, Go
<1>23. ASSUME NEW g \in Goroutine, LeaveClose(g)
      PROVE  QueuesOK'
    BY <1>23 DEF LeaveClose, Go
<1>24. CASE UNCHANGED vars
    BY <1>24 DEF vars
<1> HIDE DEF QueuesOK
<1>. QED
    BY <1>1, <1>2, <1>3, <1>4, <1>5, <1>6, <1>7, <1>8, <1>9, <1>10, <1>11,
       <1>12, <1>13, <1>14, <1>15, <1>16, <1>17, <1>18, <1>19, <1>20, <1>21,
       <1>22, <1>23, <1>24
       DEF Next, Acceptor, Reader, Writer, Loop, AtSession, Close, Goroutine

-----------------------------------------------------------------------------
(* The client's packets *)

LEMMA InputFrame ==
    ASSUME InputKept, UNCHANGED inVars,
           pc'["reader"] = "read" => pc["reader"] = "read" \/ pc["acceptor"] = "start",
           pc'["acceptor"] = "start" => pc["acceptor"] = "start",
           pc'["reader"] = "push" => pc["reader"] = "push"
    PROVE  InputKept'
BY DEF InputKept, inVars

\* What the loop and the writer do leaves the others where they are.
LEMMA LoopAlone ==
    ASSUME PlacesOK,
           \/ AcceptSession \/ Visit \/ Broadcast \/ Output \/ Dispatch \/ DrainEnds
           \/ FlushPacket \/ FlushOverflows \/ FlushEnds \/ Disconnect
    PROVE  \A h \in {"acceptor", "reader", "writer"} : pc'[h] = pc[h]
<1> USE DEF Goroutine, Doing, AtTheSession
<1>1. CASE AcceptSession
    BY <1>1 DEF AcceptSession
<1>2. CASE Visit
    <2>1. Go("loop", "elsewhere", IF closed THEN "last drain" ELSE "drain")
        BY <1>2 DEF Visit, CallClose
    <2>. QED
        BY <2>1, GoFacts
<1>3. CASE Broadcast
    BY <1>3 DEF Broadcast
<1>4. CASE Output
    <2>1. Go("loop", "elsewhere", "flush")
        BY <1>4 DEF Output, CallClose
    <2>. QED
        BY <2>1, GoFacts
<1>5. CASE Dispatch
    <2>1. UNCHANGED pc \/ Go("loop", pc["loop"], "closing")
        BY <1>5 DEF Dispatch, CallClose
    <2>. QED
        BY <2>1, GoFacts
<1>6. CASE DrainEnds
    <2>1. Go("loop", "drain", "flush") \/ Go("loop", "last drain", "last flush")
        BY <1>6 DEF DrainEnds, CallClose
    <2>. QED
        BY <2>1, GoFacts
<1>7. CASE FlushPacket
    BY <1>7 DEF FlushPacket
<1>8. CASE FlushOverflows
    <2>1. Go("loop", pc["loop"], "closing")
        BY <1>8 DEF FlushOverflows, CallClose
    <2>. QED
        BY <2>1, GoFacts
<1>9. CASE FlushEnds
    <2>1. Go("loop", "flush", "elsewhere")
        BY <1>9 DEF FlushEnds, CallClose
    <2>. QED
        BY <2>1, GoFacts
<1>10. CASE Disconnect
    <2>1. Go("loop", "last flush", "elsewhere")
        BY <1>10 DEF Disconnect, CallClose
    <2>. QED
        BY <2>1, GoFacts
<1>. QED
    BY <1>1, <1>2, <1>3, <1>4, <1>5, <1>6, <1>7, <1>8, <1>9, <1>10

LEMMA WriterAlone ==
    ASSUME PlacesOK, TakeOut \/ WriteBatch \/ WriteFails \/ WriterStops
    PROVE  \A h \in {"acceptor", "reader", "loop"} : pc'[h] = pc[h]
<1>1. \E from \in Doing, to \in Doing : Go("writer", from, to)
    BY DEF TakeOut, WriteBatch, WriteFails, WriterStops, CallClose, Doing
<1>. QED
    BY <1>1, GoFacts DEF Goroutine

LEMMA InputStep ==
    ASSUME PlacesOK, Control, QueuesOK, InputKept, [Next]_vars
    PROVE  InputKept'
<1>1. CASE Start
    <2>1. pc["acceptor"] = "start" /\ pc["reader"] = "done" /\ UNCHANGED inVars
        BY <1>1 DEF Start, Control
    <2>2. pc'["acceptor"] \in {"handover", "closing"} /\ pc'["reader"] \in {"done", "read"}
        BY <1>1, <2>1 DEF Start, CallClose, Go, PlacesOK, Goroutine
    <2>. QED
        BY <2>1, <2>2, InputFrame
<1>2. CASE HandOver
    <2>1. Go("acceptor", "handover", "done") \/ Go("acceptor", "handover", "closing")
        BY <1>2 DEF HandOver, CallClose
    <2>2. UNCHANGED inVars
        BY <1>2 DEF HandOver
    <2>3. pc'["acceptor"] # "start" /\ pc'["reader"] = pc["reader"]
        BY <2>1, GoFacts DEF Goroutine, Doing
    <2>. QED
        BY <2>2, <2>3, InputFrame
<1>3. CASE ReadFrame
    <2>1. received' = received + 1 /\ UNCHANGED <<inQueue, handled>> /\ Go("reader", "read", "push")
        BY <1>3 DEF ReadFrame
    <2>2. pc["reader"] = "read" /\ pc'["reader"] = "push" /\ pc'["acceptor"] = pc["acceptor"]
        BY <2>1, GoFacts DEF Goroutine, Doing
    <2>3. pc["acceptor"] # "start"
        BY <2>2 DEF Control
    <2>4. received \in Nat /\ Len(handled) + Len(inQueue) = received
        BY <2>2 DEF InputKept, QueuesOK
    <2>5. Len(handled) \in Nat /\ Len(inQueue) \in Nat
        BY DEF QueuesOK
    <2>6. \A k \in 1..Len(handled) : handled[k] = k
        BY DEF InputKept
    <2>7. \A k \in 1..Len(inQueue) : inQueue[k] = Len(handled) + k
        BY DEF InputKept
    <2>. QED
        BY <2>1, <2>2, <2>3, <2>4, <2>5, <2>6, <2>7 DEF InputKept
<1>4. CASE ReadFails
    <2>1. Go("reader", "read", "closing") /\ UNCHANGED inVars
        BY <1>4 DEF ReadFails, CallClose
    <2>2. pc'["reader"] = "closing" /\ pc'["acceptor"] = pc["acceptor"]
        BY <2>1, GoFacts DEF Goroutine, Doing
    <2>. QED
        BY <2>1, <2>2, InputFrame
<1>5. CASE Push
    <2>1. inQueue' = Append(inQueue, received) /\ UNCHANGED <<received, handled>> /\ Go("reader", "push", "read")
        BY <1>5 DEF Push
    <2>2. pc["reader"] = "push" /\ pc'["reader"] = "read" /\ pc'["acceptor"] = pc["acceptor"]
        BY <2>1, GoFacts DEF Goroutine, Doing
    <2>3. /\ Len(inQueue') = Len(inQueue) + 1
          /\ \A k \in 1..(Len(inQueue) + 1) :
                inQueue'[k] = IF k <= Len(inQueue) THEN inQueue[k] ELSE received
        BY <2>1, AppendFacts DEF QueuesOK
    <2>4. Len(handled) + Len(inQueue) + 1 = received
        BY <2>2 DEF InputKept
    <2>5. Len(handled) \in Nat /\ Len(inQueue) \in Nat
        BY DEF QueuesOK
    <2>6. pc["acceptor"] # "start"
        BY <2>2 DEF Control
    <2>7. \A k \in 1..Len(handled) : handled'[k] = k
        BY <2>1 DEF InputKept
    <2>8. \A k \in 1..Len(inQueue) : inQueue[k] = Len(handled) + k
        BY DEF InputKept
    <2>9. \A k \in 1..Len(inQueue') : inQueue'[k] = Len(handled) + k
        BY <2>3, <2>4, <2>5, <2>8
    <2>. QED
        BY <2>1, <2>2, <2>3, <2>4, <2>5, <2>6, <2>7, <2>9 DEF InputKept
<1>6. CASE PushInterrupted
    <2>1. Go("reader", "push", "closing") /\ UNCHANGED inVars
        BY <1>6 DEF PushInterrupted, CallClose
    <2>2. pc'["reader"] = "closing" /\ pc'["acceptor"] = pc["acceptor"]
        BY <2>1, GoFacts DEF Goroutine, Doing
    <2>. QED
        BY <2>1, <2>2, InputFrame
<1>7. CASE TakeOut
    BY <1>7, WriterAlone, InputFrame DEF TakeOut
<1>8. CASE WriteBatch
    BY <1>8, WriterAlone, InputFrame DEF WriteBatch
<1>9. CASE WriteFails
    BY <1>9, WriterAlone, InputFrame DEF WriteFails
<1>10. CASE WriterStops
    BY <1>10, WriterAlone, InputFrame DEF WriterStops
<1>11. CASE AcceptSession
    BY <1>11, LoopAlone, InputFrame DEF AcceptSession
<1>12. CASE Visit
    BY <1>12, LoopAlone, InputFrame DEF Visit
<1>13. CASE Broadcast
    BY <1>13, LoopAlone, InputFrame DEF Broadcast
<1>14. CASE Output
    BY <1>14, LoopAlone, InputFrame DEF Output
<1>15. CASE Dispatch
    <2>1. /\ inQueue # <<>> /\ inQueue' = Tail(inQueue)
          /\ handled' = Append(handled, Head(inQueue)) /\ received' = received
        BY <1>15 DEF Dispatch
    <2>2. pc'["reader"] = pc["reader"] /\ pc'["acceptor"] = pc["acceptor"]
        BY <1>15, LoopAlone
    <2>3. /\ Len(inQueue) \in Nat \ {0} /\ Len(handled) \in Nat
          /\ Len(inQueue') = Len(inQueue) - 1 /\ Len(handled') = Len(handled) + 1
        BY <2>1, TailFacts, AppendFacts DEF QueuesOK
    <2>4. \A k \in 1..Len(inQueue') : inQueue'[k] = Len(handled') + k
        <3>1. \A k \in 1..(Len(inQueue) - 1) : inQueue'[k] = inQueue[k + 1]
            BY <2>1, TailFacts DEF QueuesOK
        <3>. QED
            BY <2>3, <3>1 DEF InputKept
    <2>5. \A k \in 1..Len(handled') : handled'[k] = k
        <3>1. \A k \in 1..(Len(handled) + 1) :
                 handled'[k] = IF k <= Len(handled) THEN handled[k] ELSE inQueue[1]
            BY <2>1, TailFacts, AppendFacts DEF QueuesOK
        <3>2. inQueue[1] = Len(handled) + 1
            BY <2>3 DEF InputKept
        <3>. QED
            BY <2>3, <3>1, <3>2 DEF InputKept
    <2>. QED
        BY <2>1, <2>2, <2>3, <2>4, <2>5 DEF InputKept
<1>16. CASE DrainEnds
    BY <1>16, LoopAlone, InputFrame DEF DrainEnds
<1>17. CASE FlushPacket
    BY <1>17, LoopAlone, InputFrame DEF FlushPacket
<1>18. CASE FlushOverflows
    BY <1>18, LoopAlone, InputFrame DEF FlushOverflows
<1>19. CASE FlushEnds
    BY <1>19, LoopAlone, InputFrame DEF FlushEnds
<1>20. CASE Disconnect
    BY <1>20, LoopAlone, InputFrame DEF Disconnect
<1>21. ASSUME NEW g \in Goroutine, EnterClose(g)
      PROVE  InputKept'
    BY <1>21, InputFrame DEF EnterClose
<1>22. ASSUME NEW g \in Goroutine, HangUp(g)
      PROVE  InputKept'
    BY <1>22, InputFrame DEF HangUp
<1>23. ASSUME NEW g \in Goroutine, LeaveClose(g)
      PROVE  InputKept'
    <2>1. UNCHANGED inVars /\ Go(g, "closing", back[g])
        BY <1>23 DEF LeaveClose
    <2>. QED
        BY <2>1, InputFrame DEF Control, PlacesOK, Goroutine, Go
<1>24. CASE UNCHANGED vars
    BY <1>24, InputFrame DEF vars
<1>. QED
    BY <1>1, <1>2, <1>3, <1>4, <1>5, <1>6, <1>7, <1>8, <1>9, <1>10, <1>11,
       <1>12, <1>13, <1>14, <1>15, <1>16, <1>17, <1>18, <1>19, <1>20, <1>21,
       <1>22, <1>23, <1>24
       DEF Next, Acceptor, Reader, Writer, Loop, AtSession, Close, Goroutine

-----------------------------------------------------------------------------
(* The packets to the client *)

LEMMA OutputFrame ==
    ASSUME OutputKept, UNCHANGED outVars, WriterLives' => WriterLives, Ending => Ending'
    PROVE  OutputKept'
BY DEF OutputKept, OnTheWay, outVars

LEMMA ReaderAlone ==
    ASSUME PlacesOK, ReadFrame \/ ReadFails \/ Push \/ PushInterrupted
    PROVE  \A h \in {"acceptor", "writer", "loop"} : pc'[h] = pc[h]
<1>1. \E from \in Doing, to \in Doing : Go("reader", from, to)
    BY DEF ReadFrame, ReadFails, Push, PushInterrupted, CallClose, Doing
<1>. QED
    BY <1>1, GoFacts DEF Goroutine

LEMMA EndingKept ==
    ASSUME PlacesOK, FlagsOK, [Next]_vars
    PROVE  Ending => Ending'
<1>1. CASE Start
    <2>1. closed' = closed
        BY <1>1 DEF Start, closeVars
    <2>2. pc'["loop"] = pc["loop"]
        BY <1>1 DEF Start, CallClose, Go, PlacesOK, Goroutine
    <2>. QED
        BY <2>1, <2>2 DEF Ending
<1>2. CASE HandOver
    <2>1. closed' = closed
        BY <1>2 DEF HandOver, closeVars
    <2>2. pc'["loop"] = pc["loop"]
        BY <1>2 DEF HandOver, CallClose, Go, PlacesOK, Goroutine
    <2>. QED
        BY <2>1, <2>2 DEF Ending
<1>3. CASE ReadFrame
    <2>1. closed' = closed
        BY <1>3 DEF ReadFrame, closeVars
    <2>2. pc'["loop"] = pc["loop"]
        BY <1>3, ReaderAlone
    <2>. QED
        BY <2>1, <2>2 DEF Ending
<1>4. CASE ReadFails
    <2>1. closed' = closed
        BY <1>4 DEF ReadFails, closeVars
    <2>2. pc'["loop"] = pc["loop"]
        BY <1>4, ReaderAlone
    <2>. QED
        BY <2>1, <2>2 DEF Ending
<1>5. CASE Push
    <2>1. closed' = closed
        BY <1>5 DEF Push, closeVars
    <2>2. pc'["loop"] = pc["loop"]
        BY <1>5, ReaderAlone
    <2>. QED
        BY <2>1, <2>2 DEF Ending
<1>6. CASE PushInterrupted
    <2>1. closed' = closed
        BY <1>6 DEF PushInterrupted, closeVars
    <2>2. pc'["loop"] = pc["loop"]
        BY <1>6, ReaderAlone
    <2>. QED
        BY <2>1, <2>2 DEF Ending
<1>7. CASE TakeOut
    <2>1. closed' = closed
        BY <1>7 DEF TakeOut, closeVars
    <2>2. pc'["loop"] = pc["loop"]
        BY <1>7, WriterAlone
    <2>. QED
        BY <2>1, <2>2 DEF Ending
<1>8. CASE WriteBatch
    <2>1. closed' = closed
        BY <1>8 DEF WriteBatch, closeVars
    <2>2. pc'["loop"] = pc["loop"]
        BY <1>8, WriterAlone
    <2>. QED
        BY <2>1, <2>2 DEF Ending
<1>9. CASE WriteFails
    <2>1. closed' = closed
        BY <1>9 DEF WriteFails, closeVars
    <2>2. pc'["loop"] = pc["loop"]
        BY <1>9, WriterAlone
    <2>. QED
        BY <2>1, <2>2 DEF Ending
<1>10. CASE WriterStops
    <2>1. closed' = closed
        BY <1>10 DEF WriterStops, closeVars
    <2>2. pc'["loop"] = pc["loop"]
        BY <1>10, WriterAlone
    <2>. QED
        BY <2>1, <2>2 DEF Ending
<1>11. CASE AcceptSession
    <2>1. closed' = closed
        BY <1>11 DEF AcceptSession, closeVars
    <2>2. pc["loop"] # "closing"
        BY <1>11 DEF AcceptSession, CallClose, Go
    <2>. QED
        BY <2>1, <2>2 DEF Ending
<1>12. CASE Visit
    <2>1. closed' = closed
        BY <1>12 DEF Visit, closeVars
    <2>2. pc["loop"] # "closing"
        BY <1>12 DEF Visit, CallClose, Go
    <2>. QED
        BY <2>1, <2>2 DEF Ending
<1>13. CASE Broadcast
    <2>1. closed' = closed
        BY <1>13 DEF Broadcast, closeVars
    <2>2. pc["loop"] # "closing"
        BY <1>13 DEF Broadcast, CallClose, Go
    <2>. QED
        BY <2>1, <2>2 DEF Ending
<1>14. CASE Output
    <2>1. closed' = closed
        BY <1>14 DEF Output, closeVars
    <2>2. pc["loop"] # "closing"
        BY <1>14 DEF Output, CallClose, Go
    <2>. QED
        BY <2>1, <2>2 DEF Ending
<1>15. CASE Dispatch
    <2>1. closed' = closed
        BY <1>15 DEF Dispatch, closeVars
    <2>2. pc["loop"] # "closing"
        BY <1>15 DEF Dispatch, CallClose, Go, Draining
    <2>. QED
        BY <2>1, <2>2 DEF Ending
<1>16. CASE DrainEnds
    <2>1. closed' = closed
        BY <1>16 DEF DrainEnds, closeVars
    <2>2. pc["loop"] # "closing"
        BY <1>16 DEF DrainEnds, CallClose, Go
    <2>. QED
        BY <2>1, <2>2 DEF Ending
<1>17. CASE FlushPacket
    <2>1. closed' = closed
        BY <1>17 DEF FlushPacket, closeVars
    <2>2. pc'["loop"] = pc["loop"]
        BY <1>17 DEF FlushPacket
    <2>. QED
        BY <2>1, <2>2 DEF Ending
<1>18. CASE FlushOverflows
    <2>1. closed' = closed
        BY <1>18 DEF FlushOverflows, closeVars
    <2>2. pc["loop"] # "closing"
        BY <1>18 DEF FlushOverflows, CallClose, Go, Flushing
    <2>. QED
        BY <2>1, <2>2 DEF Ending
<1>19. CASE FlushEnds
    <2>1. closed' = closed
        BY <1>19 DEF FlushEnds, closeVars
    <2>2. pc["loop"] # "closing"
        BY <1>19 DEF FlushEnds, CallClose, Go
    <2>. QED
        BY <2>1, <2>2 DEF Ending
<1>20. CASE Disconnect
    <2>1. closed' = closed
        BY <1>20 DEF Disconnect, closeVars
    <2>2. pc["loop"] # "closing"
        BY <1>20 DEF Disconnect, CallClose, Go
    <2>. QED
        BY <2>1, <2>2 DEF Ending
<1>21. ASSUME NEW g \in Goroutine, EnterClose(g)
      PROVE  Ending => Ending'
    BY <1>21 DEF EnterClose, Ending
<1>22. ASSUME NEW g \in Goroutine, HangUp(g)
      PROVE  Ending => Ending'
    <2>1. closed' = closed /\ pc' = pc
        BY <1>22 DEF HangUp, EnterClose
    <2>. QED
        BY <2>1 DEF Ending
<1>23. ASSUME NEW g \in Goroutine, LeaveClose(g)
      PROVE  Ending => Ending'
    <2>1. closed' = closed /\ hungUp
        BY <1>23 DEF LeaveClose, closeVars
    <2>2. closed
        BY <2>1, Zenon DEF FlagsOK
    <2>. QED
        BY <2>1, <2>2 DEF Ending
<1>24. CASE UNCHANGED vars
    <2>1. closed' = closed
        BY <1>24 DEF vars, closeVars
    <2>2. pc'["loop"] = pc["loop"]
        BY <1>24 DEF vars
    <2>. QED
        BY <2>1, <2>2 DEF Ending
<1>. QED
    BY <1>1, <1>2, <1>3, <1>4, <1>5, <1>6, <1>7, <1>8, <1>9, <1>10, <1>11,
       <1>12, <1>13, <1>14, <1>15, <1>16, <1>17, <1>18, <1>19, <1>20, <1>21,
       <1>22, <1>23, <1>24
       DEF Next, Acceptor, Reader, Writer, Loop, AtSession, Close, Goroutine

LEMMA OutputSend ==
    ASSUME QueuesOK, OutputKept, NEW n \in Nat, Send(n), ~Ending \/ closed,
           UNCHANGED <<written, batch, outQueue>>, WriterLives' => WriterLives, Ending => Ending'
    PROVE  OutputKept'
<1>1. /\ Len(written) \in Nat /\ Len(batch) \in Nat /\ Len(outQueue) \in Nat
      /\ Len(outBuf) \in Nat /\ sent \in Nat
    BY DEF QueuesOK
<1>2. CASE closed /\ sent' = sent /\ outBuf' = outBuf
    BY <1>2, OutputFrame DEF outVars
<1>3. CASE /\ ~closed /\ sent' = sent + n /\ Len(outBuf') = Len(outBuf) + n
           /\ \A k \in 1..(Len(outBuf) + n) :
                 outBuf'[k] = IF k <= Len(outBuf) THEN outBuf[k] ELSE sent + (k - Len(outBuf))
    <2>1. SUFFICES ASSUME WriterLives
                   PROVE  /\ \A k \in 1..Len(outBuf') :
                                outBuf'[k] = Len(written) + Len(batch) + Len(outQueue) + k
                          /\ Len(written) + (Len(batch) + Len(outQueue) + Len(outBuf')) = sent'
        BY <1>1, <1>3 DEF OutputKept, OnTheWay
    <2> ~Ending
        BY <1>3, Zenon
    <2>2. Len(written) + (Len(batch) + Len(outQueue) + Len(outBuf)) = sent
        BY <2>1 DEF OutputKept, OnTheWay
    <2>3. \A k \in 1..Len(outBuf) :
             outBuf[k] = Len(written) + Len(batch) + Len(outQueue) + k
        BY <2>1 DEF OutputKept
    <2>4. /\ sent' = sent + n /\ Len(outBuf') = Len(outBuf) + n
          /\ \A k \in 1..(Len(outBuf) + n) :
                 outBuf'[k] = IF k <= Len(outBuf) THEN outBuf[k] ELSE sent + (k - Len(outBuf))
        BY <1>3
    <2>5. \A k \in 1..Len(outBuf') :
             outBuf'[k] = Len(written) + Len(batch) + Len(outQueue) + k
        <3> SUFFICES ASSUME NEW k \in 1..(Len(outBuf) + n)
                     PROVE  outBuf'[k] = Len(written) + Len(batch) + Len(outQueue) + k
            BY <2>4
        <3>1. CASE k <= Len(outBuf)
            BY <1>1, <2>3, <2>4, <3>1
        <3>2. CASE k > Len(outBuf)
            <4>1. outBuf'[k] = sent + (k - Len(outBuf))
                BY <1>1, <2>4, <3>2
            <4>. QED
                BY <1>1, <2>2, <4>1
        <3>. QED
            BY <1>1, <3>1, <3>2
    <2>6. Len(written) + (Len(batch) + Len(outQueue) + Len(outBuf')) = sent'
        BY <1>1, <2>2, <2>4
    <2>. QED
        BY <2>5, <2>6
<1>. QED
    BY <1>2, <1>3, SendFacts

LEMMA OutputStep ==
    ASSUME PlacesOK, FlagsOK, QueuesOK, Control, OutputKept, [Next]_vars
    PROVE  OutputKept'
<1>1. CASE Start
    <2>1. UNCHANGED outVars /\ pc["acceptor"] = "start"
        BY <1>1 DEF Start
    <2>. QED
        BY <2>1, EndingKept, OutputFrame DEF WriterLives
<1>2. CASE HandOver
    <2>1. UNCHANGED outVars
        BY <1>2 DEF HandOver
    <2>2. pc'["writer"] = pc["writer"] /\ (pc'["acceptor"] = "start" => pc["acceptor"] = "start")
        BY <1>2, GoFacts DEF HandOver, CallClose, Goroutine, Doing
    <2>. QED
        BY <2>1, <2>2, EndingKept, OutputFrame DEF WriterLives
<1>3. CASE ReadFrame
    <2>1. UNCHANGED outVars
        BY <1>3 DEF ReadFrame
    <2>2. pc'["writer"] = pc["writer"] /\ (pc'["acceptor"] = "start" => pc["acceptor"] = "start")
        BY <1>3, ReaderAlone
    <2>. QED
        BY <2>1, <2>2, EndingKept, OutputFrame DEF WriterLives
<1>4. CASE ReadFails
    <2>1. UNCHANGED outVars
        BY <1>4 DEF ReadFails
    <2>2. pc'["writer"] = pc["writer"] /\ (pc'["acceptor"] = "start" => pc["acceptor"] = "start")
        BY <1>4, ReaderAlone
    <2>. QED
        BY <2>1, <2>2, EndingKept, OutputFrame DEF WriterLives
<1>5. CASE Push
    <2>1. UNCHANGED outVars
        BY <1>5 DEF Push
    <2>2. pc'["writer"] = pc["writer"] /\ (pc'["acceptor"] = "start" => pc["acceptor"] = "start")
        BY <1>5, ReaderAlone
    <2>. QED
        BY <2>1, <2>2, EndingKept, OutputFrame DEF WriterLives
<1>6. CASE PushInterrupted
    <2>1. UNCHANGED outVars
        BY <1>6 DEF PushInterrupted
    <2>2. pc'["writer"] = pc["writer"] /\ (pc'["acceptor"] = "start" => pc["acceptor"] = "start")
        BY <1>6, ReaderAlone
    <2>. QED
        BY <2>1, <2>2, EndingKept, OutputFrame DEF WriterLives
<1>7. CASE TakeOut
    <2>1. /\ outQueue # <<>> /\ batch' = Append(batch, Head(outQueue)) /\ outQueue' = Tail(outQueue)
          /\ UNCHANGED <<sent, written, outBuf>>
        BY <1>7 DEF TakeOut
    <2>2. WriterLives
        BY <1>7 DEF TakeOut, Go, WriterLives
    <2>3. /\ Len(written) \in Nat /\ Len(batch) \in Nat /\ Len(outQueue) \in Nat \ {0}
          /\ Len(outBuf) \in Nat /\ sent \in Nat
        BY <2>1, TailFacts DEF QueuesOK
    <2>4. Len(batch') = Len(batch) + 1 /\ Len(outQueue') = Len(outQueue) - 1
        BY <2>1, TailFacts, AppendFacts DEF QueuesOK
    <2>5. /\ \A k \in 1..(Len(batch) + 1) :
                batch'[k] = IF k <= Len(batch) THEN batch[k] ELSE outQueue[1]
          /\ \A k \in 1..(Len(outQueue) - 1) : outQueue'[k] = outQueue[k + 1]
        BY <2>1, TailFacts, AppendFacts DEF QueuesOK
    <2>6. /\ \A k \in 1..Len(batch) : batch[k] = Len(written) + k
          /\ \A k \in 1..Len(outQueue) : outQueue[k] = Len(written) + Len(batch) + k
        BY <2>2 DEF OutputKept
    <2>7. /\ \A k \in 1..Len(batch') : batch'[k] = Len(written) + k
          /\ \A k \in 1..Len(outQueue') : outQueue'[k] = Len(written) + Len(batch') + k
        <3>1. outQueue[1] = Len(written) + Len(batch) + 1
            BY <2>3, <2>6
        <3>2. ASSUME NEW k \in 1..(Len(batch) + 1)
              PROVE  batch'[k] = Len(written) + k
            <4>1. CASE k <= Len(batch)
                BY <2>3, <2>5, <2>6, <4>1
            <4>2. CASE k = Len(batch) + 1
                BY <2>3, <2>5, <3>1, <4>2
            <4>. QED
                BY <2>3, <4>1, <4>2
        <3>3. \A k \in 1..Len(outQueue') : k + 1 \in 1..Len(outQueue)
            BY <2>3, <2>4
        <3>. QED
            BY <2>3, <2>4, <2>5, <2>6, <3>2, <3>3
    <2>8. /\ Len(written) + Len(batch') + Len(outQueue') = Len(written) + Len(batch) + Len(outQueue)
          /\ Len(written) + (Len(batch') + Len(outQueue') + Len(outBuf))
                = Len(written) + (Len(batch) + Len(outQueue) + Len(outBuf))
        BY <2>3, <2>4
    <2>. QED
        BY <2>1, <2>2, <2>7, <2>8, EndingKept DEF OutputKept, OnTheWay
<1>8. CASE WriteBatch
    <2>1. written' = written \o batch /\ batch' = <<>> /\ UNCHANGED <<sent, outBuf, outQueue>>
        BY <1>8 DEF WriteBatch
    <2>2. WriterLives
        BY <1>8 DEF WriteBatch, Go, WriterLives
    <2>3. /\ Len(written) \in Nat /\ Len(batch) \in Nat /\ Len(outQueue) \in Nat
          /\ Len(outBuf) \in Nat /\ sent \in Nat
        BY DEF QueuesOK
    <2>4. /\ Len(written') = Len(written) + Len(batch) /\ Len(batch') = 0
          /\ \A k \in 1..(Len(written) + Len(batch)) :
                written'[k] = IF k <= Len(written) THEN written[k] ELSE batch[k - Len(written)]
        BY <2>1, ConcatFacts DEF QueuesOK
    <2>5. /\ \A k \in 1..Len(written) : written[k] = k
          /\ \A k \in 1..Len(batch) : batch[k] = Len(written) + k
        BY <2>2 DEF OutputKept
    <2>6. \A k \in 1..Len(written') : written'[k] = k
        BY <2>3, <2>4, <2>5
    <2>7. Len(written') + (Len(batch') + Len(outQueue) + Len(outBuf))
             = Len(written) + (Len(batch) + Len(outQueue) + Len(outBuf))
        BY <2>3, <2>4
    <2>8. Len(written) + (Len(batch) + Len(outQueue) + Len(outBuf)) <= sent
        BY <2>2 DEF OutputKept, OnTheWay
    <2>9. Len(written') <= sent
        BY <2>3, <2>4, <2>8
    <2>10. Len(written) + Len(batch) = Len(written') + Len(batch')
        BY <2>3, <2>4
    <2>. QED
        BY <2>1, <2>2, <2>3, <2>4, <2>6, <2>7, <2>8, <2>9, <2>10, EndingKept DEF OutputKept, OnTheWay
<1>9. CASE WriteFails
    <2>1. PICK n \in 0..Len(batch) : written' = written \o SubSeq(batch, 1, n)
        BY <1>9 DEF WriteFails
    <2>2. sent' = sent /\ WriterLives
        BY <1>9 DEF WriteFails, CallClose, Go, WriterLives
    <2>3. ~WriterLives'
        <3>1. pc["writer"] = "drain" /\ pc'["writer"] = "closing" /\ pc'["acceptor"] = pc["acceptor"]
            BY <1>9, GoFacts DEF WriteFails, CallClose, Goroutine, Doing
        <3>. QED
            BY <3>1 DEF WriterLives, Control
    <2>4. Len(written) \in Nat /\ Len(batch) \in Nat /\ sent \in Nat
        BY DEF QueuesOK
    <2>5. /\ Len(written') = Len(written) + n
          /\ \A k \in 1..(Len(written) + n) :
                written'[k] = IF k <= Len(written) THEN written[k] ELSE batch[k - Len(written)]
        <3> DEFINE t == SubSeq(batch, 1, n)
        <3>1. t \in Seq(Nat) /\ Len(t) = n /\ \A k \in 1..n : t[k] = batch[k]
            BY <2>1, SubSeqFacts DEF QueuesOK
        <3>2. written' = written \o t
            BY <2>1
        <3> HIDE DEF t
        <3>3. /\ Len(written') = Len(written) + n
              /\ \A k \in 1..(Len(written) + n) :
                    written'[k] = IF k <= Len(written) THEN written[k] ELSE t[k - Len(written)]
            BY <3>1, <3>2, ConcatFacts DEF QueuesOK
        <3>4. \A k \in 1..(Len(written) + n) : k > Len(written) => k - Len(written) \in 1..n
            BY <2>4
        <3>. QED
            BY <3>1, <3>3, <3>4
    <2>6. /\ \A k \in 1..Len(written) : written[k] = k
          /\ \A k \in 1..Len(batch) : batch[k] = Len(written) + k
          /\ Len(written) + (Len(batch) + Len(outQueue) + Len(outBuf)) <= sent
        BY <2>2 DEF OutputKept, OnTheWay
    <2>7. \A k \in 1..Len(written') : written'[k] = k
        BY <2>1, <2>4, <2>5, <2>6
    <2>8. Len(written') <= sent
        <3>1. Len(outQueue) \in Nat /\ Len(outBuf) \in Nat
            BY DEF QueuesOK
        <3>. QED
            BY <2>1, <2>4, <2>5, <2>6, <3>1
    <2>. QED
        BY <2>2, <2>3, <2>7, <2>8 DEF OutputKept
<1>10. CASE WriterStops
    <2>1. UNCHANGED outVars /\ pc["writer"] = "wait"
        BY <1>10 DEF WriterStops, CallClose, Go
    <2>. QED
        BY <2>1, EndingKept, OutputFrame DEF WriterLives
<1>11. CASE AcceptSession
    <2>1. UNCHANGED outVars
        BY <1>11 DEF AcceptSession
    <2>2. pc'["writer"] = pc["writer"] /\ (pc'["acceptor"] = "start" => pc["acceptor"] = "start")
        BY <1>11, LoopAlone
    <2>. QED
        BY <2>1, <2>2, EndingKept, OutputFrame DEF WriterLives
<1>12. CASE Visit
    <2>1. UNCHANGED outVars
        BY <1>12 DEF Visit
    <2>2. pc'["writer"] = pc["writer"] /\ (pc'["acceptor"] = "start" => pc["acceptor"] = "start")
        BY <1>12, LoopAlone
    <2>. QED
        BY <2>1, <2>2, EndingKept, OutputFrame DEF WriterLives
<1>13. CASE Broadcast
    <2>1. Send(1) /\ UNCHANGED <<written, batch, outQueue>> /\ pc' = pc
        BY <1>13 DEF Broadcast
    <2>2. ~Ending \/ closed
        BY <1>13 DEF Broadcast, Ending
    <2>3. WriterLives' => WriterLives
        BY <2>1 DEF WriterLives
    <2>. QED
        BY <2>1, <2>2, <2>3, EndingKept, OutputSend
<1>14. CASE Output
    <2>1. UNCHANGED outVars
        BY <1>14 DEF Output
    <2>2. pc'["writer"] = pc["writer"] /\ (pc'["acceptor"] = "start" => pc["acceptor"] = "start")
        BY <1>14, LoopAlone
    <2>. QED
        BY <2>1, <2>2, EndingKept, OutputFrame DEF WriterLives
<1>15. CASE Dispatch
    <2>1. UNCHANGED <<written, batch, outQueue>>
        BY <1>15 DEF Dispatch
    <2>2. ~Ending \/ closed
        BY <1>15 DEF Dispatch, Draining, Ending
    <2>3. WriterLives' => WriterLives
        BY <1>15, LoopAlone DEF WriterLives
    <2>4. CASE \E n \in 0..1 : Send(n)
        BY <2>1, <2>2, <2>3, <2>4, EndingKept, OutputSend
    <2>5. CASE UNCHANGED <<sent, outBuf>>
        BY <2>1, <2>3, <2>5, EndingKept, OutputFrame DEF outVars
    <2>. QED
        BY <1>15, <2>4, <2>5 DEF Dispatch
<1>16. CASE DrainEnds
    <2>1. UNCHANGED outVars
        BY <1>16 DEF DrainEnds
    <2>2. pc'["writer"] = pc["writer"] /\ (pc'["acceptor"] = "start" => pc["acceptor"] = "start")
        BY <1>16, LoopAlone
    <2>. QED
        BY <2>1, <2>2, EndingKept, OutputFrame DEF WriterLives
<1>17. CASE FlushPacket
    <2>1. /\ outBuf # <<>> /\ outQueue' = Append(outQueue, Head(outBuf)) /\ outBuf' = Tail(outBuf)
          /\ UNCHANGED <<sent, written, batch>> /\ pc' = pc
        BY <1>17 DEF FlushPacket
    <2>2. WriterLives' => WriterLives
        BY <2>1 DEF WriterLives
    <2>3. /\ Len(written) \in Nat /\ Len(batch) \in Nat /\ Len(outQueue) \in Nat
          /\ Len(outBuf) \in Nat \ {0} /\ sent \in Nat
        BY <2>1, TailFacts DEF QueuesOK
    <2>4. Len(outQueue') = Len(outQueue) + 1 /\ Len(outBuf') = Len(outBuf) - 1
        BY <2>1, TailFacts, AppendFacts DEF QueuesOK
    <2>5. /\ \A k \in 1..(Len(outQueue) + 1) :
                outQueue'[k] = IF k <= Len(outQueue) THEN outQueue[k] ELSE outBuf[1]
          /\ \A k \in 1..(Len(outBuf) - 1) : outBuf'[k] = outBuf[k + 1]
        BY <2>1, TailFacts, AppendFacts DEF QueuesOK
    <2>6. SUFFICES ASSUME WriterLives
                   PROVE  /\ \A k \in 1..Len(outQueue') : outQueue'[k] = Len(written) + Len(batch) + k
                          /\ \A k \in 1..Len(outBuf') :
                                outBuf'[k] = Len(written) + Len(batch) + Len(outQueue') + k
        <3>1. Len(written) + (Len(batch) + Len(outQueue') + Len(outBuf'))
                 = Len(written) + (Len(batch) + Len(outQueue) + Len(outBuf))
            BY <2>3, <2>4
        <3>. QED
            BY <2>1, <2>2, <3>1, EndingKept DEF OutputKept, OnTheWay
    <2>7. /\ \A k \in 1..Len(outQueue) : outQueue[k] = Len(written) + Len(batch) + k
          /\ \A k \in 1..Len(outBuf) :
                outBuf[k] = Len(written) + Len(batch) + Len(outQueue) + k
        BY <2>6 DEF OutputKept
    <2>8. outBuf[1] = Len(written) + Len(batch) + Len(outQueue) + 1
        BY <2>3, <2>7
    <2>9. ASSUME NEW k \in 1..(Len(outQueue) + 1)
          PROVE  outQueue'[k] = Len(written) + Len(batch) + k
        <3>1. CASE k <= Len(outQueue)
            BY <2>3, <2>5, <2>7, <3>1
        <3>2. CASE k = Len(outQueue) + 1
            BY <2>3, <2>5, <2>8, <3>2
        <3>. QED
            BY <2>3, <3>1, <3>2
    <2>10. \A k \in 1..Len(outBuf') : k + 1 \in 1..Len(outBuf)
        BY <2>3, <2>4
    <2>11. \A k \in 1..Len(outBuf') :
              outBuf'[k] = Len(written) + Len(batch) + Len(outQueue') + k
        BY <2>3, <2>4, <2>5, <2>7, <2>10
    <2>. QED
        BY <2>4, <2>9, <2>11
<1>18. CASE FlushOverflows
    <2>1. outBuf' = <<>> /\ UNCHANGED <<sent, written, batch, outQueue>>
        BY <1>18 DEF FlushOverflows
    <2>2. WriterLives' => WriterLives
        BY <1>18, LoopAlone DEF WriterLives
    <2>3. Ending'
        BY <1>18 DEF FlushOverflows, CallClose, Go, Ending, PlacesOK, Goroutine
    <2>4. Len(outBuf') = 0 /\ Len(outBuf) \in Nat
        BY <2>1 DEF QueuesOK
    <2>5. Len(written) \in Nat /\ Len(batch) \in Nat /\ Len(outQueue) \in Nat /\ sent \in Nat
        BY DEF QueuesOK
    <2>. QED
        BY <2>1, <2>2, <2>3, <2>4, <2>5 DEF OutputKept, OnTheWay
<1>19. CASE FlushEnds
    <2>1. UNCHANGED outVars
        BY <1>19 DEF FlushEnds
    <2>2. pc'["writer"] = pc["writer"] /\ (pc'["acceptor"] = "start" => pc["acceptor"] = "start")
        BY <1>19, LoopAlone
    <2>. QED
        BY <2>1, <2>2, EndingKept, OutputFrame DEF WriterLives
<1>20. CASE Disconnect
    <2>1. UNCHANGED outVars
        BY <1>20 DEF Disconnect
    <2>2. pc'["writer"] = pc["writer"] /\ (pc'["acceptor"] = "start" => pc["acceptor"] = "start")
        BY <1>20, LoopAlone
    <2>. QED
        BY <2>1, <2>2, EndingKept, OutputFrame DEF WriterLives
<1>21. ASSUME NEW g \in Goroutine, EnterClose(g)
      PROVE  OutputKept'
    <2>1. UNCHANGED outVars /\ pc' = pc
        BY <1>21 DEF EnterClose
    <2>. QED
        BY <2>1, EndingKept, OutputFrame DEF WriterLives
<1>22. ASSUME NEW g \in Goroutine, HangUp(g)
      PROVE  OutputKept'
    <2>1. UNCHANGED outVars /\ pc' = pc
        BY <1>22 DEF HangUp
    <2>. QED
        BY <2>1, EndingKept, OutputFrame DEF WriterLives
<1>23. ASSUME NEW g \in Goroutine, LeaveClose(g)
      PROVE  OutputKept'
    <2>1. UNCHANGED outVars /\ Go(g, "closing", back[g])
        BY <1>23 DEF LeaveClose
    <2>2. WriterLives' => WriterLives
        BY <2>1 DEF Go, WriterLives, PlacesOK, Control, Goroutine
    <2>. QED
        BY <2>1, <2>2, EndingKept, OutputFrame
<1>24. CASE UNCHANGED vars
    <2>1. UNCHANGED outVars /\ pc' = pc
        BY <1>24 DEF vars
    <2>. QED
        BY <2>1, EndingKept, OutputFrame DEF WriterLives
<1>. QED
    BY <1>1, <1>2, <1>3, <1>4, <1>5, <1>6, <1>7, <1>8, <1>9, <1>10, <1>11,
       <1>12, <1>13, <1>14, <1>15, <1>16, <1>17, <1>18, <1>19, <1>20, <1>21,
       <1>22, <1>23, <1>24
       DEF Next, Acceptor, Reader, Writer, Loop, AtSession, Close, Goroutine

-----------------------------------------------------------------------------
(* The theorems *)

LEMMA InitCInv == Init => CInv
<1> SUFFICES ASSUME Init PROVE CInv
    OBVIOUS
<1> USE DEF Init
<1>1. PlacesOK
    BY DEF PlacesOK, Goroutine, Doing, AtTheSession
<1>2. FlagsOK
    BY DEF FlagsOK, Goroutine, Nobody
<1>3. QueuesOK
    BY ConnectionAssumption DEF QueuesOK
<1>4. Control
    BY DEF Control, Whereabouts, Goroutine, AtTheSession
<1>5. InputKept
    <2>1. Len(handled) = 0 /\ Len(inQueue) = 0 /\ received = 0 /\ pc["reader"] = "done"
        BY DEF Goroutine
    <2>. QED
        BY <2>1 DEF InputKept
<1>6. OutputKept
    BY DEF OutputKept, OnTheWay
<1>. QED
    BY <1>1, <1>2, <1>3, <1>4, <1>5, <1>6 DEF CInv, TypeOK

LEMMA NextCInv == CInv /\ [Next]_vars => CInv'
BY PlacesStep, FlagsStep, QueuesStep, ControlStep, InputStep, OutputStep DEF CInv, TypeOK

\* What is numbered without a gap is a beginning of the stream.
LEMMA NumberedIsPrefix ==
    ASSUME NEW s \in Seq(Nat), NEW n \in Nat, Len(s) <= n, \A k \in 1..Len(s) : s[k] = k
    PROVE  IsPrefix(s, UpTo(n)) /\ (Len(s) = n => s = UpTo(n))
<1>1. UpTo(n) \in Seq(Nat) /\ Len(UpTo(n)) = n /\ \A k \in 1..n : UpTo(n)[k] = k
    BY DEF UpTo
<1> HIDE DEF UpTo
<1>2. SubSeq(s, 1, Len(s)) = SubSeq(UpTo(n), 1, Len(s))
    BY <1>1
<1>3. Len(s) = n => s = UpTo(n)
    BY <1>1, SeqEqual
<1>. QED
    BY <1>1, <1>2, <1>3 DEF IsPrefix

\* Two stretches of numbers, the second following on the first, are one.
LEMMA Joined ==
    ASSUME NEW s \in Seq(Nat), NEW t \in Seq(Nat),
           \A k \in 1..Len(s) : s[k] = k,
           \A k \in 1..Len(t) : t[k] = Len(s) + k
    PROVE  /\ s \o t \in Seq(Nat) /\ Len(s \o t) = Len(s) + Len(t)
           /\ \A k \in 1..Len(s \o t) : (s \o t)[k] = k
<1>1. /\ s \o t \in Seq(Nat) /\ Len(s \o t) = Len(s) + Len(t)
      /\ \A k \in 1..(Len(s) + Len(t)) :
            (s \o t)[k] = IF k <= Len(s) THEN s[k] ELSE t[k - Len(s)]
    BY ConcatFacts
<1>2. ASSUME NEW k \in 1..(Len(s) + Len(t))
      PROVE  (s \o t)[k] = k
    <2>1. Len(s) \in Nat /\ Len(t) \in Nat
        OBVIOUS
    <2>2. CASE k <= Len(s)
        BY <1>1, <2>1, <2>2
    <2>3. CASE k > Len(s)
        <3>1. k - Len(s) \in 1..Len(t)
            BY <2>1, <2>3
        <3>2. t[k - Len(s)] = Len(s) + (k - Len(s))
            BY <3>1
        <3>. QED
            BY <1>1, <2>1, <2>3, <3>2
    <2>. QED
        BY <2>1, <2>2, <2>3
<1>. QED
    BY <1>1, <1>2

LEMMA InputFollows == CInv => InputInOrder
<1> SUFFICES ASSUME CInv PROVE InputInOrder
    OBVIOUS
<1> DEFINE s == handled \o inQueue
<1>1. handled \in Seq(Nat) /\ inQueue \in Seq(Nat) /\ received \in Nat
    BY DEF CInv, TypeOK, QueuesOK
<1>2. /\ s \in Seq(Nat) /\ Len(s) = Len(handled) + Len(inQueue)
      /\ \A k \in 1..Len(s) : s[k] = k
    BY <1>1, Joined DEF CInv, InputKept
<1>3. Len(s) <= received
    BY <1>2 DEF CInv, InputKept
<1>4. IsPrefix(s, UpTo(received))
    <2> HIDE DEF s
    <2>. QED
        BY <1>1, <1>2, <1>3, NumberedIsPrefix
<1>5. CASE pc["reader"] = "read"
    <2>1. Len(s) = received /\ InHand = <<>>
        BY <1>2, <1>5 DEF CInv, InputKept, InHand
    <2>2. s \o InHand = s
        <3> HIDE DEF s
        <3>. QED
            BY <1>2, <2>1
    <2>3. s = UpTo(received)
        <3> HIDE DEF s
        <3>. QED
            BY <1>1, <1>2, <1>3, <2>1, NumberedIsPrefix
    <2>. QED
        BY <1>4, <2>2, <2>3 DEF InputInOrder
<1>6. CASE pc["reader"] = "push"
    <2>1. Len(s) + 1 = received /\ InHand = <<received>>
        BY <1>2, <1>6 DEF CInv, InputKept, InHand
    <2> DEFINE t == s \o InHand
    <2>2. t \in Seq(Nat) /\ Len(t) = received /\ \A k \in 1..Len(t) : t[k] = k
        <3>1. InHand \in Seq(Nat) /\ Len(InHand) = 1 /\ InHand[1] = received
            BY <1>1, <2>1
        <3> HIDE DEF s
        <3>2. \A k \in 1..Len(InHand) : InHand[k] = Len(s) + k
            BY <1>2, <2>1, <3>1
        <3>. QED
            BY <1>2, <2>1, <3>1, <3>2, Joined
    <2>3. t = UpTo(received)
        <3> HIDE DEF t
        <3>. QED
            BY <1>1, <2>2, NumberedIsPrefix
    <2>. QED
        BY <1>4, <1>6, <2>3 DEF InputInOrder
<1>7. CASE pc["reader"] \notin {"read", "push"}
    BY <1>4, <1>7 DEF InputInOrder
<1>. QED
    BY <1>5, <1>6, <1>7

LEMMA OutputFollows == CInv => OutputInOrder
<1> SUFFICES ASSUME CInv PROVE OutputInOrder
    OBVIOUS
<1>1. /\ written \in Seq(Nat) /\ batch \in Seq(Nat) /\ outQueue \in Seq(Nat)
      /\ outBuf \in Seq(Nat) /\ sent \in Nat
    BY DEF CInv, TypeOK, QueuesOK
<1>2. IsPrefix(written, UpTo(sent))
    BY <1>1, NumberedIsPrefix DEF CInv, OutputKept
<1>3. ASSUME closer = Nobody, \A g \in Goroutine : pc[g] # "closing"
      PROVE  written \o batch \o outQueue \o outBuf = UpTo(sent)
    <2> DEFINE s == written \o batch
               t == s \o outQueue
               u == t \o outBuf
    <2>1. ~closed
        BY <1>3 DEF CInv, TypeOK, FlagsOK
    <2>2. ~hungUp
        BY <2>1, Zenon DEF CInv, TypeOK, FlagsOK
    <2>3. pc["writer"] # "closing" /\ pc["acceptor"] # "closing" /\ pc["loop"] # "closing"
        BY <1>3 DEF Goroutine
    <2>4. pc["writer"] = "done" => pc["acceptor"] = "start"
        BY <2>2, <2>3 DEF CInv, Control
    <2>5. WriterLives
        BY <2>3, <2>4 DEF WriterLives, CInv, TypeOK, PlacesOK
    <2>6. ~Ending
        BY <2>1, <2>3, Zenon DEF Ending
    <2>7. /\ \A k \in 1..Len(written) : written[k] = k
          /\ \A k \in 1..Len(batch) : batch[k] = Len(written) + k
          /\ \A k \in 1..Len(outQueue) : outQueue[k] = Len(written) + Len(batch) + k
          /\ \A k \in 1..Len(outBuf) :
                outBuf[k] = Len(written) + Len(batch) + Len(outQueue) + k
          /\ Len(written) + (Len(batch) + Len(outQueue) + Len(outBuf)) = sent
        BY <2>5, <2>6 DEF CInv, OutputKept, OnTheWay
    <2>8. /\ s \in Seq(Nat) /\ Len(s) = Len(written) + Len(batch)
          /\ \A k \in 1..Len(s) : s[k] = k
        BY <1>1, <2>7, Joined
    <2>9. /\ t \in Seq(Nat) /\ Len(t) = Len(s) + Len(outQueue)
          /\ \A k \in 1..Len(t) : t[k] = k
        <3> HIDE DEF s
        <3>1. \A k \in 1..Len(outQueue) : outQueue[k] = Len(s) + k
            BY <2>7, <2>8
        <3>. QED
            BY <1>1, <2>8, <3>1, Joined
    <2>10. /\ u \in Seq(Nat) /\ Len(u) = Len(t) + Len(outBuf)
           /\ \A k \in 1..Len(u) : u[k] = k
        <3> HIDE DEF s, t
        <3>1. \A k \in 1..Len(outBuf) : outBuf[k] = Len(t) + k
            BY <2>7, <2>8, <2>9
        <3>. QED
            BY <1>1, <2>9, <3>1, Joined
    <2>11. Len(u) = sent
        <3>1. /\ Len(written) \in Nat /\ Len(batch) \in Nat /\ Len(outQueue) \in Nat
              /\ Len(outBuf) \in Nat
            BY <1>1
        <3> HIDE DEF s, t, u
        <3>. QED
            BY <2>7, <2>8, <2>9, <2>10, <3>1
    <2>12. u = UpTo(sent)
        <3> HIDE DEF u
        <3>1. Len(u) <= sent
            BY <1>1, <2>11
        <3>. QED
            BY <1>1, <2>10, <2>11, <3>1, NumberedIsPrefix
    <2>. QED
        BY <2>12
<1>. QED
    BY <1>2, <1>3 DEF OutputInOrder

\* However the four goroutines interleave, and whoever closes the session and when,
\* no packet of either direction is lost, doubled or moved before one that is
\* handled or written (session.go:122,188).
THEOREM PacketsStayInOrder == Spec => []PacketsInOrder
<1>1. CInv => PacketsInOrder
    BY InputFollows, OutputFollows DEF PacketsInOrder, CInv
<1>. QED
    BY <1>1, InitCInv, NextCInv, PTL DEF Spec

\* A session leaves the store, and its player the world, once, and only when it is
\* closed.
THEOREM SessionsAreCleanedUpOnce == Spec => []CleanedUpOnce
<1>1. CInv => CleanedUpOnce
    <2> SUFFICES ASSUME CInv PROVE CleanedUpOnce
        OBVIOUS
    <2>1. cleanups = IF place = "gone" THEN 1 ELSE 0
        BY DEF CInv, Control
    <2>2. place = "gone" => closed
        BY DEF CInv, Control
    <2>3. cleanups > 0 => place = "gone"
        BY <2>1
    <2>4. cleanups > 0 => closed
        BY <2>2, <2>3, Zenon
    <2>. QED
        BY <2>1, <2>4 DEF CleanedUpOnce
<1>. QED
    BY <1>1, InitCInv, NextCInv, PTL DEF Spec

=============================================================================
