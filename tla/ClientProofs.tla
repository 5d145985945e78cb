---------------------------- MODULE ClientProofs -----------------------------
(***************************************************************************)
(* Proofs about one client process.                                        *)
(*                                                                         *)
(* The deferred calls of run() are pushed in a fixed order (InOrder), and  *)
(* whatever run() has to undo is covered by a call that is still pending   *)
(* (Covered): the stack is empty when run() has returned, so nothing is    *)
(* left.  The counter of the heartbeat loop is tied to the outcomes of the *)
(* last heartbeats (BeatInv), and the context to the signal (CtxInv).      *)
(***************************************************************************)
EXTENDS ClientProcess, SequenceTheorems, TLAPS

------------------------------------------------------------------------------
(* Types *)

Calls == {"stop", "shutdown", "cleanup", "close"}
Outcomes == {"ok", "rejected", "failed"}
Services == {"disabled", "starting", "running", "stopped", "failed"}

\* The types of ClientTypeOK with the shape of the records, without the heartbeat.
Shape ==
    /\ main \in {"register", "listen", "profile", "validate", "start", "spawn", "select",
                 "return", "closing", "returned"}
    /\ defers \in Seq(Calls)
    /\ result \in Wait
    /\ xray \in [child : {"none", "running", "gone"}, cancel : BOOLEAN,
                 waiter : {"off", "wait", "done"}, err : {OK, Failure}]
    /\ tun \in {"off", "configure", "connect", "pump", "ended"}
    /\ status \in {"off", "serving", "failed", "closed"}
    /\ xrayWait \in Wait /\ tunWait \in Wait /\ statusWait \in Wait
    /\ tracker \in [mesh : Services, xray : Services]
    /\ main = "closing" => defers # <<>>

\* Front drops the last element.
LEMMA FrontFacts ==
    ASSUME NEW S, NEW s \in Seq(S), s # <<>>
    PROVE  /\ Front(s) \in Seq(S)
           /\ Len(s) \in Nat \ {0}
           /\ Len(Front(s)) = Len(s) - 1
           /\ \A i \in 1..(Len(s) - 1) : Front(s)[i] = s[i]
           /\ Last(s) \in S
<1>1. Len(s) \in Nat \ {0} /\ \A i \in 1..Len(s) : s[i] \in S
    BY EmptySeq, ElementOfSeq
<1>2. \A i \in 1..(Len(s) - 1) : s[i] \in S
    BY <1>1
<1>3. /\ SubSeq(s, 1, Len(s) - 1) \in Seq(S)
      /\ Len(SubSeq(s, 1, Len(s) - 1)) = IF 1 <= Len(s) - 1 THEN (Len(s) - 1) - 1 + 1 ELSE 0
      /\ \A i \in 1..((Len(s) - 1) - 1 + 1) : SubSeq(s, 1, Len(s) - 1)[i] = s[1 + i - 1]
    BY <1>1, <1>2, SubSeqProperties
<1> DEFINE f == SubSeq(s, 1, Len(s) - 1)
           n == Len(s)
<1>4. /\ Len(f) = IF 1 <= n - 1 THEN (n - 1) - 1 + 1 ELSE 0
      /\ \A i \in 1..((n - 1) - 1 + 1) : f[i] = s[1 + i - 1]
      /\ n \in Nat \ {0}
    BY <1>1, <1>3
<1> HIDE DEF f, n
<1>5. Len(f) = n - 1 /\ \A i \in 1..(n - 1) : f[i] = s[i]
    BY <1>4
<1>6. s[n] \in S
    BY <1>1 DEF n
<1> QED BY <1>1, <1>3, <1>5, <1>6 DEF Front, Last, f, n

\* The history of heartbeats after one more.
LEMMA RememberFacts ==
    ASSUME beat.recent \in Seq(Outcomes), Len(beat.recent) <= maxHeartbeatFailures,
           NEW o \in Outcomes
    PROVE  LET r == Remember(o)
               n == Len(beat.recent)
               k == IF n < maxHeartbeatFailures THEN 0 ELSE 1
           IN /\ r \in Seq(Outcomes)
              /\ Len(r) = n - k + 1 /\ Len(r) <= maxHeartbeatFailures
              /\ \A i \in 1..(n - k) : r[i] = beat.recent[i + k]
              /\ r[n - k + 1] = o
<1> DEFINE s == beat.recent
           n == Len(s)
           all == Append(s, o)
<1>1. /\ n \in Nat /\ maxHeartbeatFailures = 3
      /\ all \in Seq(Outcomes) /\ all # <<>> /\ Len(all) = n + 1
      /\ \A i \in 1..n : all[i] = s[i]
      /\ all[n + 1] = o
    BY LenProperties, AppendProperties DEF maxHeartbeatFailures
<1>2. CASE n < 3
    BY <1>1, <1>2 DEF Remember
<1>3. CASE ~(n < 3)
  <2>1. Remember(o) = Tail(all) /\ n = 3
    <3>1. n = 3
      <4>1. n \in Nat /\ n <= 3 /\ ~(n < 3)
        BY <1>1, <1>3
      <4> HIDE DEF n
      <4> QED BY <4>1
    <3>2. Len(all) > maxHeartbeatFailures
      BY <1>1, <3>1
    <3> QED BY <3>1, <3>2 DEF Remember
  <2>2. /\ Tail(all) \in Seq(Outcomes)
        /\ Len(Tail(all)) = n
        /\ \A i \in 1..n : Tail(all)[i] = all[i + 1]
    <3> HIDE DEF all
    <3>1. /\ Tail(all) \in Seq(Outcomes) /\ Len(Tail(all)) = Len(all) - 1
          /\ \A i \in 1..Len(Tail(all)) : Tail(all)[i] = all[i + 1]
      BY <1>1, HeadTailProperties
    <3> QED BY <1>1, <3>1
  <2> DEFINE r == Remember(o)
  <2>3. /\ r \in Seq(Outcomes) /\ Len(r) = n
        /\ \A i \in 1..n : r[i] = all[i + 1]
    BY <2>1, <2>2
  <2> HIDE DEF all, r, n
  <2>4. /\ Len(r) = n - 1 + 1 /\ Len(r) <= maxHeartbeatFailures
        /\ \A i \in 1..(n - 1) : r[i] = s[i + 1]
        /\ r[n - 1 + 1] = o
    BY <1>1, <2>1, <2>3
  <2> QED BY <1>1, <1>3, <2>3, <2>4 DEF n, r
<1> QED BY <1>1, <1>2, <1>3

------------------------------------------------------------------------------
(* The heartbeat loop *)

\* The right-hand side of GivesUpWhenLeaseIsLost.
LeaseLost ==
    \/ beat.recent # <<>> /\ Last(beat.recent) = "rejected"
    \/ beat.recent = [i \in 1..maxHeartbeatFailures |-> "failed"]

\* As long as the loop has not given up, the counter is below the limit, that many
\* of the last heartbeats have failed and the one before them was answered.
BeatInv ==
    /\ main = "register" => beat.pc = "off"
    /\ Len(beat.recent) <= maxHeartbeatFailures
    /\ heartbeatWait = Failure => beat.pc = "done" /\ LeaseLost
    /\ heartbeatWait = Nothing =>
        /\ beat.failures < maxHeartbeatFailures
        /\ beat.failures <= Len(beat.recent)
        /\ \A i \in 1..Len(beat.recent) : i > Len(beat.recent) - beat.failures
                => beat.recent[i] = "failed"
        /\ beat.failures < Len(beat.recent)
                => beat.recent[Len(beat.recent) - beat.failures] = "ok"

\* Everybody else leaves the loop alone.
LEMMA BeatFrame == [Next]_vars => Register \/ Heartbeat \/ UNCHANGED beatVars
<1> USE DEF beatVars
<1>1. Startup => Register \/ UNCHANGED beatVars
    BY DEF Startup, Listen, WriteProfile, Validate, Start, Spawn
<1>2. Select => UNCHANGED beatVars
    BY DEF Select, SelectDone, SelectHeartbeat, SelectTun, SelectXray, SelectStatus,
           SelectUnchanged
<1>3. Leave => UNCHANGED beatVars
    BY DEF Leave, CloseCancel, CloseWait, RemoveConfig, Shutdown, Stop
<1>4. Signal \/ ChildExits \/ ChildKilled \/ Supervisor => UNCHANGED beatVars
    BY DEF Signal, ChildExits, ChildKilled, Supervisor, Publish, ForwardWait, XrayUnchanged
<1>5. TunConfigure \/ TunReady \/ PumpStops \/ PumpFails \/ StatusFails => UNCHANGED beatVars
    BY DEF TunConfigure, TunReady, PumpStops, PumpFails, TunUnchanged, StatusFails
<1>6. Exited \/ UNCHANGED vars => UNCHANGED beatVars
    BY DEF Exited, vars
<1> QED BY <1>1, <1>2, <1>3, <1>4, <1>5, <1>6 DEF Next

\* run() registers once, first of all.
LEMMA RegisterOnce == [Next]_vars => (main' = "register" => main = "register")
<1>1. Startup => main' # "register"
    BY DEF Startup, Register, Listen, WriteProfile, Validate, Start, Spawn, Goto, GotoDefer, Return
<1>2. Select => main' # "register"
    BY DEF Select, SelectDone, SelectHeartbeat, SelectTun, SelectXray, SelectStatus, Return
<1>3. Leave => main' # "register"
    BY DEF Leave, CloseCancel, CloseWait, RemoveConfig, Shutdown, Stop, Pop, Goto
<1>4. Signal \/ Heartbeat \/ ChildExits \/ ChildKilled \/ Supervisor => main' = main
    BY DEF Signal, Heartbeat, BeatTick, BeatStops, BeatOK, BeatRejected, BeatFails, BeatUnchanged,
           ChildExits, ChildKilled, Supervisor, Publish, ForwardWait, XrayUnchanged, mainVars
<1>5. TunConfigure \/ TunReady \/ PumpStops \/ PumpFails \/ StatusFails => main' = main
    BY DEF TunConfigure, TunReady, PumpStops, PumpFails, TunUnchanged, StatusFails, mainVars
<1>6. Exited \/ UNCHANGED vars => main' = main
    BY DEF Exited, vars, mainVars
<1> QED BY <1>1, <1>2, <1>3, <1>4, <1>5, <1>6 DEF Next

\* The types of the heartbeat loop.
BeatShape ==
    /\ beat \in [pc : {"off", "idle", "sending", "done"}, failures : 0..maxHeartbeatFailures,
                 recent : Seq(Outcomes)]
    /\ heartbeatWait \in {Nothing, Failure}

\* No heartbeat has been sent at first.
LEMMA BeatInit == Init => BeatShape /\ BeatInv
<1> SUFFICES ASSUME Init PROVE BeatShape /\ BeatInv
    OBVIOUS
<1>1. beat = [pc |-> "off", failures |-> 0, recent |-> <<>>] /\ heartbeatWait = Nothing
    BY DEF Init
<1>2. <<>> \in Seq(Outcomes) /\ Len(<<>>) = 0
    BY EmptySeq
<1> QED BY <1>1, <1>2 DEF BeatShape, BeatInv, Nothing, Failure, maxHeartbeatFailures

\* The loop's own steps; a failure is the third one exactly when the history
\* holds three.
LEMMA BeatStep ==
    ASSUME BeatShape, BeatInv, [Next]_vars
    PROVE  BeatShape' /\ BeatInv'
<1> DEFINE s == beat.recent
           n == Len(s)
<1>1. /\ beat \in [pc : {"off", "idle", "sending", "done"}, failures : 0..3, recent : Seq(Outcomes)]
      /\ s \in Seq(Outcomes) /\ n \in Nat /\ n <= 3 /\ beat.failures \in 0..3
      /\ maxHeartbeatFailures = 3 /\ Nothing # Failure
    BY LenProperties DEF BeatShape, BeatInv, maxHeartbeatFailures, Nothing, Failure
<1>2. CASE UNCHANGED beatVars
    BY <1>2, RegisterOnce DEF beatVars, BeatShape, BeatInv, LeaseLost
<1>3. CASE Register
  <2>1. /\ beat.pc = "off" /\ main' # "register" /\ heartbeatWait' = heartbeatWait
        /\ beat' \in {beat, [beat EXCEPT !.pc = "idle"], [beat EXCEPT !.pc = "off"]}
    BY <1>3 DEF BeatInv, Register, Goto, Return
  <2>2. /\ beat'.recent = beat.recent /\ beat'.failures = beat.failures
        /\ beat' \in [pc : {"off", "idle", "sending", "done"}, failures : 0..3, recent : Seq(Outcomes)]
    BY <1>1, <2>1
  <2> QED BY <1>1, <2>1, <2>2 DEF BeatShape, BeatInv, LeaseLost
<1>4. CASE BeatTick \/ BeatStops
  <2>1. /\ beat.pc = "idle" /\ main' = main /\ heartbeatWait' = heartbeatWait
        /\ beat' \in {[beat EXCEPT !.pc = "sending"], [beat EXCEPT !.pc = "done"]}
    BY <1>4 DEF BeatTick, BeatStops, BeatUnchanged, mainVars
  <2>2. /\ beat'.recent = beat.recent /\ beat'.failures = beat.failures
        /\ beat' \in [pc : {"off", "idle", "sending", "done"}, failures : 0..3, recent : Seq(Outcomes)]
    BY <1>1, <2>1
  <2> QED BY <1>1, <2>1, <2>2 DEF BeatShape, BeatInv, LeaseLost
<1>5. CASE BeatOK \/ BeatRejected \/ BeatFails
  <2>1. /\ beat.pc = "sending" /\ heartbeatWait = Nothing /\ main' # "register" /\ main # "register"
        /\ beat.failures \in 0..2 /\ beat.failures <= n
        /\ \A i \in 1..n : i > n - beat.failures => s[i] = "failed"
        /\ beat.failures < n => s[n - beat.failures] = "ok"
    BY <1>1, <1>5, RegisterOnce DEF BeatShape, BeatInv, BeatOK, BeatRejected, BeatFails
  <2> DEFINE k == IF n < 3 THEN 0 ELSE 1
             r(o) == Remember(o)
  <2>2. \A o \in Outcomes :
            /\ r(o) \in Seq(Outcomes) /\ Len(r(o)) = n - k + 1 /\ Len(r(o)) <= 3
            /\ \A i \in 1..(n - k) : r(o)[i] = s[i + k]
            /\ r(o)[n - k + 1] = o
    BY <1>1, RememberFacts
  <2>3. CASE BeatOK
    <3>1. beat' = [pc |-> "idle", failures |-> 0, recent |-> r("ok")] /\ heartbeatWait' = Nothing
      BY <2>1, <2>3 DEF BeatOK
    <3> HIDE DEF r
    <3> QED BY <1>1, <2>1, <2>2, <3>1 DEF BeatShape, BeatInv, Outcomes
  <2>4. CASE BeatRejected
    <3>1. beat' = [beat EXCEPT !.pc = "done", !.recent = r("rejected")] /\ heartbeatWait' = Failure
      BY <2>1, <2>4 DEF BeatRejected
    <3> HIDE DEF r
    <3>2. beat' = [pc |-> "done", failures |-> beat.failures, recent |-> r("rejected")]
      BY <1>1, <3>1
    <3> QED BY <1>1, <2>1, <2>2, <3>1, <3>2 DEF BeatShape, BeatInv, Outcomes, LeaseLost, Last
  <2>5. CASE BeatFails /\ beat.failures < 2
    <3>1. /\ beat' = [pc |-> "idle", failures |-> beat.failures + 1, recent |-> r("failed")]
          /\ heartbeatWait' = Nothing
      BY <1>1, <2>1, <2>5 DEF BeatFails
    <3> DEFINE q == r("failed")
               b == beat.failures
    <3>2. /\ n \in 0..3 /\ b \in 0..1 /\ b <= n
          /\ \A i \in 1..n : i > n - b => s[i] = "failed"
          /\ b < n => s[n - b] = "ok"
          /\ q \in Seq(Outcomes) /\ Len(q) = n - k + 1 /\ Len(q) <= 3
          /\ \A i \in 1..(n - k) : q[i] = s[i + k]
          /\ q[n - k + 1] = "failed"
      <4>1. /\ q \in Seq(Outcomes) /\ Len(q) = n - k + 1 /\ Len(q) <= 3
            /\ \A i \in 1..(n - k) : q[i] = s[i + k]
            /\ q[n - k + 1] = "failed"
        <5>1. "failed" \in Outcomes
          BY DEF Outcomes
        <5> HIDE DEF r, n, s, k
        <5> QED BY <2>2, <5>1
      <4>2. n \in Nat /\ n <= 3 /\ b \in 0..2 /\ b < 2
        BY <1>1, <2>1, <2>5
      <4> HIDE DEF n, b, q, s
      <4>3. n \in 0..3 /\ b \in 0..1
        BY <4>2
      <4> QED BY <2>1, <4>1, <4>3 DEF b
    <3> HIDE DEF r, q, b, n, s
    <3>3. /\ b + 1 <= Len(q)
          /\ \A i \in 1..Len(q) : i > Len(q) - (b + 1) => q[i] = "failed"
          /\ b + 1 < Len(q) => q[Len(q) - (b + 1)] = "ok"
      BY <3>2
    <3>4. beat'.failures = b + 1 /\ beat'.recent = q /\ beat'.pc = "idle"
      BY <3>1 DEF q, b
    <3>5. BeatShape'
      BY <1>1, <3>1, <3>2 DEF BeatShape, q, b
    <3> QED BY <1>1, <2>1, <3>1, <3>2, <3>3, <3>4, <3>5 DEF BeatInv
  <2>6. CASE BeatFails /\ beat.failures = 2
    <3>1. /\ beat' = [pc |-> "done", failures |-> 3, recent |-> r("failed")]
          /\ heartbeatWait' = Failure
      BY <1>1, <2>1, <2>6 DEF BeatFails
    <3> DEFINE q == r("failed")
    <3>2. /\ n \in 2..3
          /\ \A i \in 1..n : i > n - 2 => s[i] = "failed"
          /\ q \in Seq(Outcomes) /\ Len(q) = n - k + 1
          /\ \A i \in 1..(n - k) : q[i] = s[i + k]
          /\ q[n - k + 1] = "failed"
      <4>1. /\ q \in Seq(Outcomes) /\ Len(q) = n - k + 1
            /\ \A i \in 1..(n - k) : q[i] = s[i + k]
            /\ q[n - k + 1] = "failed"
        <5>1. "failed" \in Outcomes
          BY DEF Outcomes
        <5> HIDE DEF r, n, s, k
        <5> QED BY <2>2, <5>1
      <4>2. n \in Nat /\ n <= 3 /\ 2 <= n /\ \A i \in 1..n : i > n - 2 => s[i] = "failed"
        BY <1>1, <2>1, <2>6
      <4> HIDE DEF n, q, s
      <4>3. n \in 2..3
        BY <4>2
      <4> QED BY <4>1, <4>2, <4>3
    <3> HIDE DEF r, q, n, s
    <3>3. Len(q) = 3 /\ \A i \in 1..3 : q[i] = "failed"
      BY <3>2
    <3>4. q = [i \in 1..3 |-> "failed"]
      BY <3>2, <3>3, LenProperties
    <3>5. BeatShape'
      BY <1>1, <3>1, <3>2 DEF BeatShape, q
    <3>6. beat'.recent = q /\ beat'.pc = "done"
      BY <3>1 DEF q
    <3>7. LeaseLost'
      BY <1>1, <3>4, <3>6 DEF LeaseLost
    <3>8. Len(beat'.recent) <= maxHeartbeatFailures
      <4>1. Len(q) <= maxHeartbeatFailures
        BY <3>3 DEF maxHeartbeatFailures
      <4> QED BY <3>6, <4>1
    <3>9. heartbeatWait' = Failure /\ heartbeatWait' # Nothing /\ main' # "register"
      BY <1>1, <2>1, <3>1
    <3> QED BY <3>5, <3>6, <3>7, <3>8, <3>9 DEF BeatInv
  <2> QED BY <1>5, <2>1, <2>3, <2>4, <2>5, <2>6
<1> QED BY <1>2, <1>3, <1>4, <1>5, BeatFrame DEF Heartbeat

------------------------------------------------------------------------------
(* Types of the rest *)

\* The types hold at first.
LEMMA ShapeInit == Init => Shape
<1> SUFFICES ASSUME Init PROVE Shape
    OBVIOUS
<1>1. defers \in Seq(Calls)
    BY DEF Init, Calls
<1>2. tracker \in [mesh : Services, xray : Services]
    BY DEF Init, Services, InitialService
<1> QED BY <1>1, <1>2 DEF Init, Shape, Wait, OK, Nothing, Failure

\* Deferring a call and making the last one keep a sequence of calls.
LEMMA DefersType ==
    ASSUME defers \in Seq(Calls)
    PROVE  /\ \A c \in Calls : Append(defers, c) \in Seq(Calls)
           /\ defers # <<>> => Front(defers) \in Seq(Calls)
BY AppendProperties, FrontFacts

\* Every step keeps the types.
LEMMA ShapeStep ==
    ASSUME Shape, BeatShape, [Next]_vars
    PROVE  Shape'
<1> USE DEF Shape
<1>1. CASE Startup
  <2> USE DEF Goto, GotoDefer, Return, SetXray
  <2>1. CASE Register
    BY <2>1 DEF Register, xrayVars, tunVars, statusVars, Wait
  <2>2. CASE Listen
    BY <2>2, DefersType DEF Listen, xrayVars, tunVars, Wait, Calls
  <2>3. CASE WriteProfile
    BY <2>3, DefersType DEF WriteProfile, xrayVars, tunVars, statusVars, Wait, Calls
  <2>4. CASE Validate
    BY <2>4 DEF Validate, xrayVars, tunVars, statusVars, Wait, Services
  <2>5. CASE Start
    <3>1. xray' \in [child : {"none", "running", "gone"}, cancel : BOOLEAN,
                      waiter : {"off", "wait", "done"}, err : {OK, Failure}]
      BY <2>5 DEF Start
    <3>2. tracker' \in [mesh : Services, xray : Services]
      BY <2>5 DEF Start, Services
    <3>3. defers' \in Seq(Calls) /\ main' \in {"spawn", "return"} /\ result' \in Wait
      BY <2>5, DefersType DEF Start, Calls, Wait
    <3> QED BY <2>5, <3>1, <3>2, <3>3 DEF Start, tunVars, statusVars
  <2>6. CASE Spawn
    BY <2>6 DEF Spawn, xrayVars, statusVars, Wait
  <2> QED BY <1>1, <2>1, <2>2, <2>3, <2>4, <2>5, <2>6 DEF Startup
<1>2. CASE Select
  <2> USE DEF Return, Ended, SetMesh, SetXray, SelectUnchanged, xrayVars, tunVars, statusVars, Wait,
              Services
  <2>1. CASE SelectDone
    BY <2>1 DEF SelectDone
  <2>2. CASE SelectHeartbeat \/ SelectStatus
    BY <2>2 DEF SelectHeartbeat, SelectStatus
  <2>3. CASE SelectTun
    BY <2>3 DEF SelectTun
  <2>4. CASE SelectXray
    BY <2>4 DEF SelectXray
  <2> QED BY <1>2, <2>1, <2>2, <2>3, <2>4 DEF Select
<1>3. CASE Leave
  <2> USE DEF Goto, Pop, Deferred, xrayVars, tunVars, statusVars
  <2>1. CASE CloseCancel
    BY <2>1 DEF CloseCancel
  <2>2. CASE CloseWait
    BY <2>2, DefersType DEF CloseWait
  <2>3. CASE RemoveConfig
    BY <2>3, DefersType DEF RemoveConfig
  <2>4. CASE Shutdown
    BY <2>4, DefersType DEF Shutdown, Wait
  <2>5. CASE Stop
    BY <2>5, DefersType DEF Stop
  <2> QED BY <1>3, <2>1, <2>2, <2>3, <2>4, <2>5 DEF Leave
<1>4. CASE Signal \/ Heartbeat
    BY <1>4 DEF Signal, Heartbeat, BeatTick, BeatStops, BeatOK, BeatRejected, BeatFails,
                BeatUnchanged, mainVars, xrayVars, tunVars, statusVars
<1>5. CASE ChildExits \/ ChildKilled \/ Publish
    BY <1>5 DEF ChildExits, ChildKilled, Publish, XrayUnchanged, mainVars, tunVars, statusVars
<1>6. CASE ForwardWait
    BY <1>6 DEF ForwardWait, XrayUnchanged, mainVars, tunVars, statusVars, Wait
<1>7. CASE TunConfigure \/ TunReady \/ PumpStops \/ PumpFails
    BY <1>7 DEF TunConfigure, TunReady, PumpStops, PumpFails, TunEnds, TunUnchanged, SetMesh,
                mainVars, xrayVars, statusVars, Wait, Services
<1>8. CASE StatusFails
    BY <1>8 DEF StatusFails, mainVars, xrayVars, tunVars, Wait
<1>9. CASE Exited \/ UNCHANGED vars
    BY <1>9 DEF Exited, vars, mainVars, xrayVars, tunVars, statusVars
<1> QED BY <1>1, <1>2, <1>3, <1>4, <1>5, <1>6, <1>7, <1>8, <1>9 DEF Next, Supervisor

------------------------------------------------------------------------------
(* The deferred calls *)

\* The order in which run() defers its calls.
Rank(c) == IF c = "stop" THEN 1
           ELSE IF c = "shutdown" THEN 2
           ELSE IF c = "cleanup" THEN 3 ELSE 4

\* The calls that may have been deferred at a stage of run().
Level(pc) == IF pc \in {"register", "listen"} THEN 1
             ELSE IF pc = "profile" THEN 2
             ELSE IF pc \in {"validate", "start"} THEN 3 ELSE 4

Pending(c) == \E i \in 1..Len(defers) : defers[i] = c

\* The calls were deferred in their order, each at most once.
InOrder ==
    /\ \A i, j \in 1..Len(defers) : i < j => Rank(defers[i]) < Rank(defers[j])
    /\ \A i \in 1..Len(defers) : Rank(defers[i]) <= Level(main)

\* Whatever has to be undone is covered by a call that is still pending.
Covered ==
    /\ status = "serving" => Pending("shutdown")
    /\ tempConfig => Pending("cleanup")
    /\ xray.child = "running" => Pending("close")
    /\ main = "returned" => defers = <<>>
    /\ main = "closing" => defers # <<>> /\ Last(defers) = "close"

\* The child, its wait goroutine and the configuration it runs on.
ChildInv ==
    /\ xray.child = "running" => xray.waiter = "wait"
    /\ opt.full /\ main \in {"validate", "start"} => tempConfig
    /\ ConfigOutlivesChild

DeferInv == InOrder /\ Covered /\ ChildInv

\* At first there is only the context to undo.
LEMMA DeferInit == Init => DeferInv
<1> SUFFICES ASSUME Init PROVE DeferInv
    OBVIOUS
<1>1. Len(defers) = 1 /\ defers[1] = "stop"
    BY DEF Init
<1>2. InOrder
    BY <1>1 DEF Init, InOrder, Rank, Level
<1>3. Covered /\ ChildInv
    BY DEF Init, Covered, ChildInv, ConfigOutlivesChild
<1> QED BY <1>2, <1>3 DEF DeferInv

\* One more call: what was pending stays pending, and the order is kept if the
\* call ranks above the stage it is deferred at.
LEMMA PushFacts ==
    ASSUME Shape, InOrder, NEW c \in Calls, defers' = Append(defers, c),
           Rank(c) > Level(main), Rank(c) <= Level(main')
    PROVE  /\ InOrder' /\ Pending(c)'
           /\ \A d \in Calls : Pending(d) => Pending(d)'
<1>1. /\ Len(defers) \in Nat /\ Len(defers') = Len(defers) + 1
      /\ \A i \in 1..Len(defers) : defers'[i] = defers[i]
      /\ defers'[Len(defers) + 1] = c
    BY LenProperties, AppendProperties DEF Shape
<1>2. \A d : Rank(d) \in 1..4
    BY DEF Rank
<1>3. /\ Level(main) \in 1..4 /\ Level(main') \in 1..4 /\ Rank(c) \in 1..4
      /\ Level(main) < Rank(c) /\ Rank(c) <= Level(main')
    BY DEF Level, Rank
<1> DEFINE n == Len(defers)
           m == Len(defers')
<1>4. n \in Nat /\ m = n + 1
    BY <1>1
<1> HIDE DEF n, m
<1>5. \A i \in 1..m : i = m \/ (i \in 1..n /\ i < m /\ defers'[i] = defers[i])
    BY <1>1, <1>4 DEF n
<1>6. defers'[m] = c
    BY <1>1, <1>4 DEF n
<1>7. ASSUME NEW i \in 1..m, NEW j \in 1..m, i < j
      PROVE  Rank(defers'[i]) < Rank(defers'[j])
  <2>1. i \in 1..n /\ defers'[i] = defers[i]
    <3>1. i # m
      BY <1>4, <1>7
    <3> QED BY <1>5, <3>1
  <2>2. Rank(defers[i]) <= Level(main)
    BY <2>1 DEF InOrder, n
  <2>3. CASE j = m
    <3>1. Rank(defers[i]) \in 1..4
      BY <1>2
    <3> HIDE DEF Rank, Level
    <3>2. Rank(defers[i]) < Rank(c)
      BY <1>3, <2>2, <3>1
    <3> QED BY <1>6, <2>1, <2>3, <3>2
  <2>4. CASE j # m
    BY <1>5, <1>7, <2>1, <2>4 DEF InOrder, n
  <2> QED BY <2>3, <2>4
<1>8. ASSUME NEW i \in 1..m
      PROVE  Rank(defers'[i]) <= Level(main')
  <2>1. CASE i = m
    BY <1>6, <2>1
  <2>2. CASE i # m
    <3>1. Rank(defers'[i]) <= Level(main)
      BY <1>5, <2>2 DEF InOrder, n
    <3>2. Rank(defers'[i]) \in 1..4
      BY <1>2
    <3> DEFINE a == Rank(defers'[i])
               b == Level(main)
               d == Level(main')
    <3>3. a \in 1..4 /\ b \in 1..4 /\ d \in 1..4 /\ a <= b /\ b < Rank(c) /\ Rank(c) <= d
      BY <1>3, <3>1, <3>2
    <3> HIDE DEF a, b, d
    <3>4. a <= d
      BY <1>3, <3>3
    <3> QED BY <3>4 DEF a, d
  <2> QED BY <1>3, <2>1, <2>2
<1>9. InOrder'
    BY <1>7, <1>8 DEF InOrder, m
<1>10. Pending(c)'
    BY <1>4, <1>6 DEF Pending, m
<1>11. ASSUME NEW d \in Calls, Pending(d)
       PROVE  Pending(d)'
    BY <1>1, <1>11 DEF Pending
<1> QED BY <1>9, <1>10, <1>11

\* One call less: all others are still pending, and the one that was made ranked
\* highest.
LEMMA PopFacts ==
    ASSUME Shape, InOrder, defers # <<>>, Pop, Level(main') = 4
    PROVE  /\ InOrder'
           /\ \A d \in Calls : Pending(d) /\ d # Last(defers) => Pending(d)'
           /\ \A d \in Calls : Pending(d) => Rank(d) <= Rank(Last(defers))
           /\ main' = "returned" => defers' = <<>>
           /\ main' \in {"return", "returned"}
<1> DEFINE n == Len(defers)
<1>1. /\ n \in Nat \ {0} /\ Len(defers') = n - 1 /\ defers' \in Seq(Calls)
      /\ \A i \in 1..(n - 1) : defers'[i] = defers[i]
  <2>1. defers \in Seq(Calls) /\ defers' = Front(defers)
    BY DEF Shape, Pop
  <2>2. /\ Front(defers) \in Seq(Calls)
        /\ Len(defers) \in Nat \ {0}
        /\ Len(Front(defers)) = Len(defers) - 1
        /\ \A i \in 1..(Len(defers) - 1) : Front(defers)[i] = defers[i]
    BY <2>1, FrontFacts
  <2> QED BY <2>1, <2>2
<1>2. \A d : Rank(d) \in 1..4
    BY DEF Rank
<1> HIDE DEF n
<1>3. InOrder'
  <2>1. \A i, j \in 1..(n - 1) : i < j => Rank(defers'[i]) < Rank(defers'[j])
    BY <1>1 DEF InOrder, n
  <2>2. \A i \in 1..(n - 1) : Rank(defers'[i]) <= 4
    BY <1>2
  <2> QED BY <1>1, <2>1, <2>2 DEF InOrder
<1>4. ASSUME NEW d \in Calls, Pending(d)
      PROVE  (d # Last(defers) => Pending(d)') /\ Rank(d) <= Rank(Last(defers))
  <2>1. PICK i \in 1..n : defers[i] = d
    BY <1>4 DEF Pending, n
  <2>2. Last(defers) = defers[n]
    BY DEF Last, n
  <2>3. CASE i = n
    BY <1>2, <2>1, <2>2, <2>3
  <2>4. CASE i # n
    <3>1. i \in 1..(n - 1) /\ i < n
      BY <1>1, <2>4
    <3>2. Pending(d)'
      BY <1>1, <2>1, <3>1 DEF Pending
    <3>3. Rank(defers[i]) < Rank(defers[n])
      BY <1>1, <3>1 DEF InOrder, n
    <3> QED BY <1>2, <2>1, <2>2, <3>2, <3>3
  <2> QED BY <2>3, <2>4
<1>5. main' = "returned" => defers' = <<>>
  <2> SUFFICES ASSUME main' = "returned" PROVE defers' = <<>>
    OBVIOUS
  <2>1. n = 1
    BY DEF Pop, n
  <2>2. Len(defers') = 0
    BY <1>1, <2>1
  <2> QED BY <1>1, <2>2, EmptySeq
<1>6. main' \in {"return", "returned"}
    BY DEF Pop
<1> QED BY <1>3, <1>4, <1>5, <1>6

undoVars == <<defers, status, tempConfig, xray, opt>>

\* run() goes on without touching anything that has to be undone.
LEMMA MoveFacts ==
    ASSUME Shape, DeferInv, UNCHANGED undoVars,
           main' = main \/ main' \notin {"closing", "returned"},
           Level(main) <= Level(main'),
           opt.full /\ main' \in {"validate", "start"} => tempConfig
    PROVE  DeferInv'
<1> USE DEF undoVars, DeferInv
<1>1. InOrder'
  <2>1. \A i \in 1..Len(defers) : Rank(defers[i]) <= Level(main')
    <3> TAKE i \in 1..Len(defers)
    <3> DEFINE a == Rank(defers[i])
               b == Level(main)
               d == Level(main')
    <3>1. a \in 1..4 /\ b \in 1..4 /\ d \in 1..4 /\ a <= b /\ b <= d
      BY DEF InOrder, Rank, Level
    <3> HIDE DEF a, b, d
    <3>2. a <= d
      BY <3>1
    <3> QED BY <3>2 DEF a, d
  <2> QED BY <2>1 DEF InOrder
<1>2. Covered'
    BY DEF Covered, Pending
<1>3. ChildInv'
    BY DEF ChildInv, ConfigOutlivesChild
<1> QED BY <1>1, <1>2, <1>3

\* Every step keeps the order of the deferred calls and what they cover.
LEMMA DeferStep ==
    ASSUME Shape, DeferInv, [Next]_vars
    PROVE  DeferInv'
<1>1. CASE Startup
  <2> USE DEF Goto, GotoDefer, Return
  <2>1. CASE Register
    BY <2>1, MoveFacts DEF Register, undoVars, xrayVars, statusVars, Level
  <2>2. CASE Listen
    <3>1. CASE opt.status /\ GotoDefer("profile", "shutdown") /\ status' = "serving"
      <4>1. /\ InOrder' /\ Pending("shutdown")'
            /\ \A d \in Calls : Pending(d) => Pending(d)'
        BY <2>2, <3>1, PushFacts DEF Listen, DeferInv, Rank, Level, Calls
      <4> QED BY <2>2, <3>1, <4>1 DEF Listen, DeferInv, Covered, ChildInv, ConfigOutlivesChild,
                                       xrayVars, Calls
    <3>2. CASE status' = status /\ defers' = defers
      BY <2>2, <3>2, MoveFacts DEF Listen, undoVars, xrayVars, statusVars, Level
    <3> QED BY <2>2, <3>1, <3>2 DEF Listen
  <2>3. CASE WriteProfile
    <3>1. CASE opt.full /\ GotoDefer("validate", "cleanup") /\ tempConfig' = TRUE
      <4>1. /\ InOrder' /\ Pending("cleanup")'
            /\ \A d \in Calls : Pending(d) => Pending(d)'
        BY <2>3, <3>1, PushFacts DEF WriteProfile, DeferInv, Rank, Level, Calls
      <4> QED BY <2>3, <3>1, <4>1 DEF WriteProfile, DeferInv, Covered, ChildInv,
                                       ConfigOutlivesChild, xrayVars, statusVars, Calls
    <3>2. CASE tempConfig' = tempConfig /\ defers' = defers /\ (main' = "return" \/ ~opt.full)
      BY <2>3, <3>2, MoveFacts DEF WriteProfile, undoVars, xrayVars, statusVars, Level
    <3> QED BY <2>3, <3>1, <3>2 DEF WriteProfile
  <2>4. CASE Validate
    BY <2>4, MoveFacts DEF Validate, DeferInv, ChildInv, undoVars, xrayVars, statusVars, Level
  <2>5. CASE Start
    <3>1. CASE GotoDefer("spawn", "close")
                /\ xray' = [xray EXCEPT !.child = "running", !.waiter = "wait"]
      <4>1. /\ InOrder' /\ Pending("close")'
            /\ \A d \in Calls : Pending(d) => Pending(d)'
        BY <2>5, <3>1, PushFacts DEF Start, DeferInv, Rank, Level, Calls
      <4>2. xray'.child = "running" /\ xray'.waiter = "wait"
        BY <3>1 DEF Shape
      <4> QED BY <2>5, <3>1, <4>1, <4>2 DEF Start, DeferInv, Covered, ChildInv,
                                       ConfigOutlivesChild, statusVars, Calls
    <3>2. CASE Return(Failure) /\ xray' = xray
      BY <2>5, <3>2, MoveFacts DEF Start, undoVars, statusVars, Level
    <3> QED BY <2>5, <3>1, <3>2 DEF Start
  <2>6. CASE Spawn
    BY <2>6, MoveFacts DEF Spawn, undoVars, xrayVars, statusVars, Level
  <2> QED BY <1>1, <2>1, <2>2, <2>3, <2>4, <2>5, <2>6 DEF Startup
<1>2. CASE Select
    BY <1>2, MoveFacts DEF Select, SelectDone, SelectHeartbeat, SelectTun, SelectXray, SelectStatus,
                           SelectUnchanged, Return, undoVars, xrayVars, statusVars, Level
<1>3. CASE Leave
  <2>1. CASE CloseCancel
    <3>1. xray'.child = xray.child /\ xray'.waiter = xray.waiter
      BY <2>1 DEF CloseCancel, Shape
    <3>2. InOrder'
      BY <2>1 DEF CloseCancel, Deferred, Goto, DeferInv, InOrder, Level
    <3> QED BY <2>1, <3>1, <3>2 DEF CloseCancel, Deferred, Goto, DeferInv, Covered, ChildInv, Pending,
                               ConfigOutlivesChild, statusVars
  <2>2. CASE CloseWait \/ RemoveConfig \/ Shutdown \/ Stop
    <3>1. /\ defers # <<>> /\ Pop /\ opt' = opt
          /\ main' \in {"return", "returned"} /\ Level(main') = 4
      BY <2>2 DEF CloseWait, RemoveConfig, Shutdown, Stop, Deferred, Shape, Pop, Level
    <3>2. /\ InOrder'
          /\ \A d \in Calls : Pending(d) /\ d # Last(defers) => Pending(d)'
          /\ \A d \in Calls : Pending(d) => Rank(d) <= Rank(Last(defers))
          /\ main' = "returned" => defers' = <<>>
      BY <3>1, PopFacts DEF DeferInv
    <3>3. CASE CloseWait
      BY <3>1, <3>2, <3>3 DEF CloseWait, DeferInv, Covered, ChildInv, ConfigOutlivesChild, xrayVars,
                              statusVars, Calls
    <3>4. CASE RemoveConfig
      <4>1. Last(defers) = "cleanup"
        BY <3>4 DEF RemoveConfig, Deferred
      <4>2. ~Pending("close")
        BY <3>2, <4>1 DEF Rank, Calls
      <4> QED BY <3>1, <3>2, <3>4, <4>1, <4>2
              DEF RemoveConfig, DeferInv, Covered, ChildInv, ConfigOutlivesChild, xrayVars,
                  statusVars, Calls
    <3>5. CASE Shutdown
      BY <3>1, <3>2, <3>5 DEF Shutdown, Deferred, DeferInv, Covered, ChildInv, ConfigOutlivesChild,
                              xrayVars, Calls
    <3>6. CASE Stop
      BY <3>1, <3>2, <3>6 DEF Stop, Deferred, DeferInv, Covered, ChildInv, ConfigOutlivesChild,
                              xrayVars, statusVars, Calls
    <3> QED BY <2>2, <3>3, <3>4, <3>5, <3>6
  <2> QED BY <1>3, <2>1, <2>2 DEF Leave
<1>4. CASE ChildExits \/ ChildKilled \/ Publish
  <2>1. xray'.child # "running" /\ UNCHANGED <<defers, status, tempConfig, opt, main>>
    BY <1>4 DEF ChildExits, ChildKilled, Publish, XrayUnchanged, mainVars, statusVars, Shape
  <2> QED BY <2>1 DEF DeferInv, InOrder, Covered, Pending, ChildInv, ConfigOutlivesChild
<1>5. CASE StatusFails
  <2>1. status' # "serving" /\ UNCHANGED <<defers, xray, tempConfig, opt, main>>
    BY <1>5 DEF StatusFails, mainVars, xrayVars
  <2> QED BY <2>1 DEF DeferInv, InOrder, Covered, Pending, ChildInv, ConfigOutlivesChild
<1>6. CASE \/ Signal \/ Heartbeat \/ ForwardWait \/ TunConfigure \/ TunReady \/ PumpStops \/ PumpFails
           \/ Exited \/ UNCHANGED vars
  <2>1. UNCHANGED undoVars /\ main' = main
    BY <1>6 DEF Signal, Heartbeat, BeatTick, BeatStops, BeatOK, BeatRejected, BeatFails, BeatUnchanged,
                ForwardWait, XrayUnchanged, TunConfigure, TunReady, PumpStops, PumpFails, TunUnchanged,
                Exited, vars, mainVars, xrayVars, statusVars, undoVars
  <2> QED BY <2>1, MoveFacts DEF DeferInv, ChildInv, Level
<1> QED BY <1>1, <1>2, <1>3, <1>4, <1>5, <1>6 DEF Next, Supervisor
------------------------------------------------------------------------------
(* The context *)

\* Only a signal cancels the context before run() returns.
CtxInv ==
    /\ cancelled => signalled \/ main \in {"return", "closing", "returned"}
    /\ CleanExitWasAskedFor

\* run() has not been asked for anything yet.
LEMMA CtxInit == Init => CtxInv
    BY DEF Init, CtxInv, CleanExitWasAskedFor, OK, Nothing

\* A service that ends by itself is no shutdown: in the select the context is
\* done only after a signal.
LEMMA CtxStep ==
    ASSUME CtxInv, [Next]_vars
    PROVE  CtxInv'
<1> USE DEF CtxInv, CleanExitWasAskedFor
<1>1. CASE Startup
  <2>1. CASE Register \/ Listen \/ WriteProfile \/ Validate \/ Start
    BY <2>1 DEF Register, Listen, WriteProfile, Validate, Start, Goto, GotoDefer, Return, ctxVars,
                OK, Failure
  <2>2. CASE Spawn
    BY <2>2 DEF Spawn, Goto, Return, ctxVars
  <2> QED BY <1>1, <2>1, <2>2 DEF Startup
<1>2. CASE Select
  <2>1. /\ main = "select" /\ main' = "return" /\ UNCHANGED <<opt, cancelled, signalled>>
        /\ result' = OK => cancelled
    BY <1>2 DEF Select, SelectDone, SelectHeartbeat, SelectTun, SelectXray, SelectStatus,
                SelectUnchanged, Return, Ended, ctxVars, OK, Failure
  <2> QED BY <2>1
<1>3. CASE Leave
  <2>1. /\ main \in {"return", "closing"} /\ main' \in {"return", "closing", "returned"}
        /\ UNCHANGED <<opt, result, signalled>>
    BY <1>3 DEF Leave, CloseCancel, CloseWait, RemoveConfig, Shutdown, Stop, Deferred, Pop, Goto,
                ctxVars
  <2> QED BY <2>1
<1>4. CASE Signal
    BY <1>4 DEF Signal, mainVars
<1>5. CASE Heartbeat
    BY <1>5 DEF Heartbeat, BeatTick, BeatStops, BeatOK, BeatRejected, BeatFails, BeatUnchanged,
                mainVars, ctxVars
<1>6. CASE ChildExits \/ ChildKilled \/ Supervisor
    BY <1>6 DEF ChildExits, ChildKilled, Supervisor, Publish, ForwardWait, XrayUnchanged, mainVars,
                ctxVars
<1>7. CASE TunConfigure \/ TunReady \/ PumpStops \/ PumpFails \/ StatusFails
    BY <1>7 DEF TunConfigure, TunReady, PumpStops, PumpFails, TunUnchanged, StatusFails, mainVars,
                ctxVars
<1>8. CASE Exited \/ UNCHANGED vars
    BY <1>8 DEF Exited, vars, mainVars, ctxVars
<1> QED BY <1>1, <1>2, <1>3, <1>4, <1>5, <1>6, <1>7, <1>8 DEF Next

------------------------------------------------------------------------------
(* The theorems *)

ClientInv == Shape /\ BeatShape /\ BeatInv /\ DeferInv /\ CtxInv

\* The invariant of the process is inductive.
THEOREM ClientInvariant == Spec => []ClientInv
<1>1. Init => ClientInv
    BY ShapeInit, BeatInit, DeferInit, CtxInit DEF ClientInv
<1>2. ClientInv /\ [Next]_vars => ClientInv'
    BY ShapeStep, BeatStep, DeferStep, CtxStep DEF ClientInv
<1> QED BY <1>1, <1>2, PTL DEF Spec

\* Whatever the services do and in whatever order their ends are noticed, run()
\* defers each of its calls at most once and every channel holds one result.
THEOREM ClientTypeCorrect == Spec => []ClientTypeOK
<1>1. ASSUME ClientInv PROVE ClientTypeOK
  <2>1. defers \in Seq(Calls)
    BY <1>1 DEF ClientInv, Shape
  <2>2. /\ DOMAIN defers = 1..Len(defers) /\ Len(defers) \in Nat
        /\ \A i \in DOMAIN defers : defers[i] \in Calls
    BY <2>1, LenProperties, ElementOfSeq
  <2>3. ToSet(defers) \subseteq Calls
    BY <2>2 DEF ToSet
  <2>4. IsInjective(defers)
    <3> SUFFICES ASSUME NEW i \in 1..Len(defers), NEW j \in 1..Len(defers), defers[i] = defers[j]
                 PROVE  i = j
      BY <2>2 DEF IsInjective
    <3>1. Rank(defers[i]) \in Int /\ Rank(defers[j]) \in Int /\ Rank(defers[i]) = Rank(defers[j])
      BY DEF Rank
    <3>2. /\ i < j => Rank(defers[i]) < Rank(defers[j])
          /\ j < i => Rank(defers[j]) < Rank(defers[i])
      BY <1>1 DEF ClientInv, DeferInv, InOrder
    <3> DEFINE a == Rank(defers[i])
               b == Rank(defers[j])
    <3>3. a \in Int /\ b \in Int /\ a = b /\ (i < j => a < b) /\ (j < i => b < a)
      BY <3>1, <3>2
    <3>4. i \in Int /\ j \in Int
      BY <2>2
    <3> HIDE DEF a, b
    <3> QED BY <3>3, <3>4
  <2>5. beat.pc \in {"off", "idle", "sending", "done"} /\ beat.failures \in 0..maxHeartbeatFailures
    BY <1>1 DEF ClientInv, BeatShape
  <2>6. heartbeatWait \in Wait
    BY <1>1 DEF ClientInv, BeatShape, Wait
  <2> QED BY <1>1, <2>3, <2>4, <2>5, <2>6 DEF ClientInv, Shape, ClientTypeOK, Calls, Services
<1> QED BY <1>1, ClientInvariant, PTL

\* When run() has returned, at whatever point of its start-up it gave up and
\* whichever service ended first, the Xray child is gone, the generated
\* configuration is removed and the status listener is closed.
THEOREM NothingIsLeftBehind == Spec => []NothingLeftBehind
<1>1. ASSUME ClientInv PROVE NothingLeftBehind
  <2> SUFFICES ASSUME main = "returned"
               PROVE  xray.child # "running" /\ ~tempConfig /\ status # "serving"
    BY DEF NothingLeftBehind
  <2>1. \A c : ~Pending(c)
    BY <1>1 DEF ClientInv, DeferInv, Covered, Pending
  <2> QED BY <1>1, <2>1 DEF ClientInv, DeferInv, Covered
<1> QED BY <1>1, ClientInvariant, PTL

\* Close waits for the child before the deferred clean-up removes the
\* configuration it runs on.
THEOREM ConfigAlwaysOutlivesChild == Spec => []ConfigOutlivesChild
<1>1. ClientInv => ConfigOutlivesChild
    BY DEF ClientInv, DeferInv, ChildInv
<1> QED BY <1>1, ClientInvariant, PTL

\* run() returns nil only after a signal or when it had nothing to supervise.
THEOREM CleanExitIsAskedFor == Spec => []CleanExitWasAskedFor
<1>1. ClientInv => CleanExitWasAskedFor
    BY DEF ClientInv, CtxInv
<1> QED BY <1>1, ClientInvariant, PTL

\* startHeartbeat reports the loss of the lease when the session was rejected or
\* three heartbeats in a row have failed, and not before.
THEOREM GivesUpExactlyWhenLeaseIsLost == Spec => []GivesUpWhenLeaseIsLost
<1>1. ASSUME ClientInv PROVE GivesUpWhenLeaseIsLost
  <2>1. heartbeatWait = Failure => LeaseLost
    BY <1>1 DEF ClientInv, BeatInv
  <2>2. ASSUME heartbeatWait = Nothing, LeaseLost PROVE FALSE
    <3> DEFINE s == beat.recent
               n == Len(s)
               f == beat.failures
    <3>1. /\ n \in Nat /\ s \in Seq(Outcomes) /\ f \in 0..3
          /\ f < 3 /\ f <= n
          /\ \A i \in 1..n : i > n - f => s[i] = "failed"
          /\ f < n => s[n - f] = "ok"
      BY <1>1, <2>2, LenProperties DEF ClientInv, BeatShape, BeatInv, maxHeartbeatFailures
    <3>2. CASE s # <<>> /\ Last(s) = "rejected"
      <4>1. n # 0 /\ s[n] = "rejected"
        BY <3>1, <3>2, EmptySeq DEF Last
      <4> HIDE DEF s, n, f
      <4> QED BY <3>1, <4>1
    <3>3. CASE s = [i \in 1..3 |-> "failed"]
      <4>1. n = 3
        BY <3>1, <3>3, LenProperties
      <4>2. \A i \in 1..3 : s[i] = "failed"
        BY <3>3
      <4> HIDE DEF s, n, f
      <4> QED BY <3>1, <4>1, <4>2
    <3> QED BY <2>2, <3>2, <3>3 DEF LeaseLost, maxHeartbeatFailures
  <2> QED BY <1>1, <2>1, <2>2 DEF ClientInv, BeatShape, GivesUpWhenLeaseIsLost, LeaseLost
<1> QED BY <1>1, ClientInvariant, PTL
==============================================================================
