-------------------------- MODULE HeartbeatProofs --------------------------
(***************************************************************************)
(* Proofs about Heartbeat, for every interval, every lag below it and      *)
(* every horizon: a gateway that answers is kept, one that is silent is    *)
(* noticed in time.                                                        *)
(*                                                                         *)
(* Both follow from where the tickers are.  LastTick is when they fired    *)
(* last: what is due fired then, every earlier heartbeat has been answered *)
(* and its answer read, and every earlier check has been made.             *)
(***************************************************************************)
EXTENDS Heartbeat, TLAPS

LastTick == nextTick - Interval

\* Time lies between two ticks, and a ticker that is due fired right now.
Phase ==
  /\ LastTick \in Nat
  /\ LastTick <= now
  /\ now < nextTick
  /\ due # {} => now = LastTick /\ LastTick >= Interval

\* While the connection lives so do its goroutines, and the checker has begun
\* to tick one interval after the start.
Alive ==
  ~ended => /\ sender = "ticking"
            /\ checker # "gone"
            /\ checker = "wait" /\ LastTick # 0
                 => LastTick = Interval /\ "check" \in due
            /\ checker = "ticking"
                 => LastTick >= Interval
            /\ checker = "ticking" /\ "check" \in due
                 => LastTick >= 2 * Interval
            /\ LastTick # 0 => LastTick >= Interval
            /\ LastTick > Interval => LastTick >= 2 * Interval

\* A gateway that is up has answered every heartbeat but the last one.
Answering ==
  ~ended /\ gateway = "up" =>
    /\ \A t \in answers : t = LastTick /\ LastTick >= Interval
    /\ LastTick >= Interval /\ "send" \notin due /\ answers = {}
         => last >= LastTick
    /\ LastTick >= 2 * Interval => last >= LastTick - Interval

\* Every check but one that is due has found the last heartbeat recent enough.
Checked ==
  ~missed /\ ~ended =>
    /\ last = Never => \/ LastTick <= Interval
                       \/ LastTick = 2 * Interval /\ "check" \in due
    /\ last # Never => \/ last >= LastTick - 2 * Interval
                       \/ last >= LastTick - 3 * Interval /\ "check" \in due

IInv == TypeOK /\ Phase /\ Alive /\ Answering /\ Checked /\ HealthyIsKept

USE IntervalAssumption, LagAssumption, HorizonAssumption

\* The invariant holds when the connection begins to be read.
LEMMA InitIInv == Init => IInv
<1> SUFFICES ASSUME Init PROVE IInv
  OBVIOUS
<1>1. LastTick = 0
  BY DEF Init, LastTick
<1>2. TypeOK
  BY DEF Init, TypeOK, Never
<1>3. Phase /\ Alive
  BY <1>1 DEF Init, Phase, Alive
<1>4. Answering
  BY <1>1 DEF Init, Answering
<1>5. Checked /\ HealthyIsKept
  BY <1>1 DEF Init, Checked, HealthyIsKept
<1> QED BY <1>2, <1>3, <1>4, <1>5 DEF IInv

\* Time passes: if the tickers fire, the answer to the previous heartbeat has
\* been read, because it would be overdue otherwise.
LEMMA TickIInv == IInv /\ Tick => IInv'
<1> SUFFICES ASSUME IInv, Tick PROVE IInv'
  OBVIOUS
<1> USE DEF IInv
<1>1. TypeOK'
  BY DEF Tick, TypeOK, Fires
<1>2. CASE now + 1 # nextTick
  <2>1. UNCHANGED <<nextTick, due>> /\ now' = now + 1 /\ due = {}
    BY <1>2 DEF Tick
  <2>2. UNCHANGED <<checker, sender, last, answers, gateway, missed, ended>>
    BY DEF Tick
  <2>3. Phase'
    BY <1>2, <2>1 DEF Phase, LastTick, TypeOK
  <2>4. Alive' /\ Answering' /\ Checked' /\ HealthyIsKept'
    BY <2>1, <2>2 DEF Alive, Answering, Checked, HealthyIsKept, LastTick, Never
  <2> QED BY <1>1, <2>3, <2>4
<1>3. CASE now + 1 = nextTick
  <2>1. /\ due' = Fires
        /\ nextTick' = nextTick + Interval
        /\ now' = now + 1
        /\ due = {}
        /\ ~Overdue
    BY <1>3 DEF Tick
  <2>2. UNCHANGED <<checker, sender, last, answers, gateway, missed, ended>>
    BY DEF Tick
  <2>3. LastTick' = LastTick + Interval /\ LastTick' = now'
    BY <1>3, <2>1 DEF LastTick, TypeOK
  <2>4. Phase'
    BY <1>3, <2>1, <2>3 DEF Phase, LastTick, TypeOK
  <2>5. ~ended => "check" \in due' /\ "send" \in due'
    BY <2>1 DEF Fires, Alive
  <2>6. Alive'
    BY <2>1, <2>2, <2>3, <2>5 DEF Alive, Phase, TypeOK
  <2>7. ~ended /\ gateway = "up" => answers = {}
    BY <1>3, <2>1 DEF Overdue, Answering, LastTick, TypeOK
  <2>8. Answering'
    BY <2>1, <2>2, <2>3, <2>5, <2>7 DEF Answering, Phase, Alive, TypeOK, Never
  <2>9. Checked'
    BY <2>1, <2>2, <2>3, <2>5 DEF Checked, Phase, Alive, TypeOK, Never
  <2>10. HealthyIsKept'
    BY <2>2 DEF HealthyIsKept
  <2> QED BY <1>1, <2>4, <2>6, <2>8, <2>9, <2>10
<1> QED BY <1>2, <1>3

\* The goroutines run: the check that is due finds the answer of the previous
\* heartbeat when the gateway is up, and notices its absence when it is not.
LEMMA GoroutinesIInv ==
  IInv /\ (SendHeartbeat \/ SenderStops \/ CheckerStarts \/ Check
           \/ CheckerStops) => IInv'
<1> SUFFICES ASSUME IInv,
                    SendHeartbeat \/ SenderStops \/ CheckerStarts \/ Check
                      \/ CheckerStops
             PROVE  IInv'
  OBVIOUS
<1> USE DEF IInv
<1>1. CASE SendHeartbeat
  <2>1. TypeOK' /\ Phase' /\ Alive' /\ Checked' /\ HealthyIsKept'
    BY <1>1 DEF SendHeartbeat, TypeOK, Phase, Alive, Checked, HealthyIsKept,
                LastTick, Never
  <2>2. LastTick = now /\ LastTick' = LastTick /\ ~ended
    BY <1>1 DEF SendHeartbeat, Phase, LastTick
  <2>3. LastTick >= Interval
    BY <1>1, <2>2 DEF SendHeartbeat, Alive, Phase, TypeOK, LastTick
  <2>4. answers' = answers \cup {LastTick} \/ gateway = "down"
    BY <1>1, <2>2 DEF SendHeartbeat, TypeOK
  <2>5. UNCHANGED <<last, gateway, ended>>
    BY <1>1 DEF SendHeartbeat
  <2>6. Answering'
    BY <2>2, <2>3, <2>4, <2>5 DEF Answering
  <2> QED BY <2>1, <2>6
<1>2. CASE SenderStops
  BY <1>2 DEF SenderStops, TypeOK, Phase, Alive, Answering, Checked,
              HealthyIsKept, LastTick
<1>3. CASE CheckerStarts
  <2>1. TypeOK' /\ Phase' /\ HealthyIsKept'
    BY <1>3 DEF CheckerStarts, TypeOK, Phase, HealthyIsKept, LastTick
  <2>2. LastTick' = LastTick /\ due' = due \ {"check"}
    BY <1>3 DEF CheckerStarts, LastTick
  <2>3. LastTick \in Nat /\ LastTick >= Interval
    BY <1>3 DEF CheckerStarts, Phase
  <2>4. ~ended => LastTick = Interval
    BY <1>3, <2>3 DEF CheckerStarts, Alive
  <2>5. Alive'
    BY <1>3, <2>2, <2>4 DEF CheckerStarts, Alive
  <2>6. Answering'
    BY <1>3, <2>2 DEF CheckerStarts, Answering
  <2>7. Checked'
    BY <1>3, <2>2, <2>4 DEF CheckerStarts, Checked, TypeOK, Never
  <2> QED BY <2>1, <2>5, <2>6, <2>7
<1>4. CASE Check
  <2>1. TypeOK' /\ Phase' /\ Alive'
    BY <1>4 DEF Check, TypeOK, Phase, Alive, LastTick
  <2>2. LastTick = now /\ LastTick >= 2 * Interval /\ LastTick' = LastTick
    BY <1>4 DEF Check, Phase, Alive, LastTick
  <2>3. Answering'
    BY <1>4, <2>2 DEF Check, Answering
  <2>4. Checked'
    <3>1. ~missed' => ~LastIsStale
      BY <1>4 DEF Check
    <3>2. ~LastIsStale => last # Never /\ last >= LastTick - 2 * Interval
      BY <2>2 DEF LastIsStale, gracePeriod, TypeOK, Never
    <3>3. UNCHANGED last
      BY <1>4 DEF Check
    <3> QED BY <2>2, <3>1, <3>2, <3>3 DEF Checked
  <2>5. HealthyIsKept'
    BY <1>4, <2>2 DEF Check, HealthyIsKept, Answering, LastIsStale,
                      gracePeriod, TypeOK, Never
  <2> QED BY <2>1, <2>3, <2>4, <2>5
<1>5. CASE CheckerStops
  BY <1>5 DEF CheckerStops, TypeOK, Phase, Alive, Answering, Checked,
              HealthyIsKept, LastTick
<1> QED BY <1>1, <1>2, <1>3, <1>4, <1>5

\* The read loop and the gateway.
LEMMA ReadingIInv == IInv /\ (ReadHeartbeat \/ GatewayDies \/ End) => IInv'
<1> SUFFICES ASSUME IInv, ReadHeartbeat \/ GatewayDies \/ End
             PROVE  IInv'
  OBVIOUS
<1> USE DEF IInv
<1>1. CASE ReadHeartbeat
  <2>1. TypeOK' /\ Phase' /\ Alive' /\ HealthyIsKept'
    BY <1>1 DEF ReadHeartbeat, TypeOK, Phase, Alive, HealthyIsKept, LastTick
  <2>2. LastTick' = LastTick /\ last' = now /\ now >= LastTick
    BY <1>1 DEF ReadHeartbeat, Phase, LastTick
  <2>3. answers' \subseteq answers
    BY <1>1 DEF ReadHeartbeat
  <2>4. Answering'
    BY <1>1, <2>2, <2>3 DEF ReadHeartbeat, Answering, Phase, TypeOK
  <2>5. Checked'
    BY <1>1, <2>2 DEF ReadHeartbeat, Checked, Phase, TypeOK, Never
  <2> QED BY <2>1, <2>4, <2>5
<1>2. CASE GatewayDies
  BY <1>2 DEF GatewayDies, TypeOK, Phase, Alive, Answering, Checked,
              HealthyIsKept, LastTick
<1>3. CASE End
  BY <1>3 DEF End, TypeOK, Phase, Alive, Answering, Checked, HealthyIsKept,
              LastTick
<1> QED BY <1>1, <1>2, <1>3

\* Every reachable state satisfies the invariant.
THEOREM Invariance == Spec => []IInv
<1>1. IInv /\ [Next]_vars => IInv'
  <2> SUFFICES ASSUME IInv, [Next]_vars PROVE IInv'
    OBVIOUS
  <2>1. CASE Next
    BY <2>1, TickIInv, GoroutinesIInv, ReadingIInv DEF Next
  <2>2. CASE UNCHANGED vars
    BY <2>2 DEF vars, IInv, TypeOK, Phase, Alive, Answering, Checked,
                HealthyIsKept, LastTick
  <2> QED BY <2>1, <2>2
<1> QED BY InitIInv, <1>1, PTL DEF Spec

\* The state of the tickers, goroutines and recorded times is well formed.
THEOREM TypeCorrect == Spec => []TypeOK
BY Invariance, PTL DEF IInv

\* A gateway that answers within MaxLag < Interval is never taken for dead.
THEOREM HealthyKept == Spec => []HealthyIsKept
BY Invariance, PTL DEF IInv

\* Silence is noticed two intervals after the start, or three after the last
\* heartbeat that was read.
THEOREM SilenceNoticed == Spec => []SilenceIsNoticed
<1>1. IInv => SilenceIsNoticed
  BY DEF IInv, SilenceIsNoticed, Checked, Phase, Alive, TypeOK, LastTick,
         gracePeriod, Never
<1> QED BY Invariance, <1>1, PTL
=============================================================================
