--------------------------- MODULE MeshcheckProofs ---------------------------
(***************************************************************************)
(* Proofs about the deployment check and its temporary firewall, for any   *)
(* number of relay addresses and samples.                                  *)
(*                                                                         *)
(* The chain only ever holds a beginning of its rules, the relay's         *)
(* addresses first and the drop last (InOrder), so it cannot drop what is  *)
(* for the relay.  For the rest, the invariant says what is left of the    *)
(* firewall in every phase (FirewallInv): after each command of the        *)
(* clean-up, what the command should have removed is gone or the command   *)
(* is on record as failed.                                                 *)
(***************************************************************************)
EXTENDS Meshcheck, SequenceTheorems, TLAPS

N == Len(RelayIPs)

\* The words of iptables commands, as far as the check uses them.
Word == {"N", "A", "I", "D", "F", "X", Drop} \cup {RelayIPs[i] : i \in DOMAIN RelayIPs}

\* The rules of the chain are a beginning of: the relay's addresses, the drop.
InOrder ==
    /\ chain \in Seq(Word)
    /\ Len(chain) <= N + 1
    /\ \A i \in 1..Len(chain) : i <= N => chain[i] = RelayIPs[i]

Complete == Len(chain) = N + 1 /\ chain[N + 1] = Drop

Clean == ~created /\ chain = <<>> /\ ~active /\ failed = {} /\ ~leaked

\* The i-th command of the installation.
InstallCommand(i) ==
    IF i = 1 THEN <<"N">>
    ELSE IF i <= N + 1 THEN <<"A", RelayIPs[i - 1]>>
    ELSE IF i = N + 2 THEN <<"A", Drop>> ELSE <<"I">>

Done == N + 3 - Len(cmds)

\* The commands done so far have built the chain.
Installing ==
    /\ cmds \in Seq(Seq(Word))
    /\ Len(cmds) \in 1..(N + 3)
    /\ \A i \in 1..Len(cmds) : cmds[i] = InstallCommand(Done + i)
    /\ ~active /\ failed = {} /\ ~leaked
    /\ created = (Done > 0)
    /\ Len(chain) = IF Done = 0 THEN 0 ELSE Done - 1
    /\ Done = N + 2 => Complete

\* After -D, -F and -X: the jump, the rules and the chain are gone or the command
\* has failed; while no command has failed, they are gone.
AfterD == (active => "D" \in failed) /\ (~err => ~active)
AfterF == (chain # <<>> => "F" \in failed) /\ (~err => chain = <<>>)
AfterX == (created => "X" \in failed \/ leaked) /\ (~err => ~created)

Cleaning ==
    /\ created /\ ~leaked /\ (~err => failed = {})
    /\ \/ cmds = CleanupCommands
       \/ cmds = <<<<"F">>, <<"X">>>> /\ AfterD
       \/ cmds = <<<<"X">>>> /\ AfterD /\ AfterF

FirewallInv ==
    /\ pc \in {"status", "baseline", "direct", "ping", "read", "fallback"} => Clean /\ ~err
    /\ pc = "install" => Installing /\ ~err
    /\ pc \in {"fping", "fread", "cping", "cread"} =>
        active /\ created /\ Complete /\ failed = {} /\ ~leaked
    /\ pc = "cleanup" => Cleaning
    /\ pc \in {"finish", "exited"} => AfterD /\ AfterF /\ AfterX

\* The client's counter only grows, and recovery is measured from a value read
\* after the firewall was removed.
CounterInv ==
    /\ tx \in Nat /\ base \in Nat /\ removedAt \in Nat /\ removedAt <= tx
    /\ pc \in {"ping", "read"} => removedAt <= base
    /\ pc \in {"finish", "exited"} /\ ~err /\ forceFallback => removedAt < tx

\* Every ping of a confirmation goes over the relay.
RouteInv ==
    /\ got \in Nat
    /\ pc = "cping" => routes \subseteq {"relay"} /\ (got > 0 => routes = {"relay"})
    /\ pc = "cread" => routes = {"relay"}

Labels ==
    {"status", "baseline", "direct", "ping", "read", "fallback", "install", "fping", "fread",
     "cping", "cread", "cleanup", "finish", "exited"}

MeshcheckInv ==
    /\ pc \in Labels /\ err \in BOOLEAN /\ created \in BOOLEAN /\ active \in BOOLEAN
    /\ InOrder /\ FirewallInv /\ CounterInv /\ RouteInv

------------------------------------------------------------------------------
(* The commands *)

\* The number of relay addresses, which is not 0, and the addresses.
LEMMA Addresses ==
    /\ N \in Nat \ {0}
    /\ DOMAIN RelayIPs = 1..N
    /\ \A i \in 1..N : RelayIPs[i] \in Word /\ RelayIPs[i] # Drop
<1>1. RelayIPs \in Seq(STRING \ {Drop}) /\ RelayIPs # <<>>
  BY MeshcheckAssumption
<1>2. N \in Nat /\ DOMAIN RelayIPs = 1..N /\ \A i \in 1..N : RelayIPs[i] # Drop
  BY <1>1, LenProperties, ElementOfSeq DEF N
<1>3. N # 0
  BY <1>1, EmptySeq DEF N
<1> QED
  BY <1>2, <1>3 DEF Word

\* A command of one or two words is a sequence.
LEMMA Words ==
    ASSUME NEW S, NEW x \in S, NEW y \in S
    PROVE  <<x>> \in Seq(S) /\ <<x, y>> \in Seq(S)
OBVIOUS

\* installRelayOnlyFirewall creates the chain, lets the relay through, drops the
\* rest, and activates the chain last.
LEMMA InstallShape ==
    /\ InstallCommands \in Seq(Seq(Word))
    /\ Len(InstallCommands) = N + 3
    /\ \A i \in 1..(N + 3) : InstallCommands[i] = InstallCommand(i)
<1> DEFINE S == Seq(Word)
           a == <<<<"N">>>>
           b == [i \in DOMAIN RelayIPs |-> <<"A", RelayIPs[i]>>]
           c == <<<<"A", Drop>>, <<"I">>>>
<1>1. /\ a \in Seq(S) /\ Len(a) = 1 /\ a[1] = <<"N">>
      /\ c \in Seq(S) /\ Len(c) = 2 /\ c[1] = <<"A", Drop>> /\ c[2] = <<"I">>
  <2>1. <<"N">> \in S /\ <<"A", Drop>> \in S /\ <<"I">> \in S
    <3>1. "N" \in Word /\ "A" \in Word /\ "I" \in Word /\ Drop \in Word
      BY DEF Word
    <3> QED
      BY <3>1, Words
  <2> HIDE DEF S
  <2> QED
    BY <2>1
<1>2. b \in Seq(S) /\ Len(b) = N /\ \A i \in 1..N : b[i] = <<"A", RelayIPs[i]>>
  <2>1. N \in Nat /\ DOMAIN RelayIPs = 1..N /\ \A i \in 1..N : RelayIPs[i] \in Word
    BY Addresses
  <2>2. \A i \in 1..N : <<"A", RelayIPs[i]>> \in S
    <3>1. "A" \in Word /\ \A r \in Word : <<"A", r>> \in S
      BY Words DEF Word
    <3> HIDE DEF S
    <3> QED
      BY <2>1, <3>1
  <2>3. b = [i \in 1..N |-> <<"A", RelayIPs[i]>>]
    BY <2>1
  <2> HIDE DEF S
  <2> QED
    BY <2>1, <2>2, <2>3
<1>3. InstallCommands = (a \o b) \o c
  BY DEF InstallCommands
<1> HIDE DEF S, a, b, c
<1>4. /\ a \o b \in Seq(S) /\ Len(a \o b) = N + 1
      /\ \A i \in 1..(N + 1) : (a \o b)[i] = IF i <= 1 THEN a[i] ELSE b[i - 1]
  <2>1. /\ a \o b \in Seq(S) /\ Len(a \o b) = Len(a) + Len(b)
        /\ \A i \in 1..(Len(a) + Len(b)) :
            (a \o b)[i] = IF i <= Len(a) THEN a[i] ELSE b[i - Len(a)]
    BY <1>1, <1>2, ConcatProperties
  <2>2. Len(a) = 1 /\ Len(b) = N /\ Len(a) + Len(b) = N + 1
    BY <1>1, <1>2, Addresses
  <2> QED
    BY <2>1, <2>2
<1> DEFINE d == a \o b
<1>5. /\ d \in Seq(S) /\ Len(d) = N + 1
      /\ \A i \in 1..(N + 1) : d[i] = IF i <= 1 THEN a[i] ELSE b[i - 1]
      /\ InstallCommands = d \o c
  BY <1>3, <1>4
<1> HIDE DEF d
<1>6. /\ d \o c \in Seq(S) /\ Len(d \o c) = N + 3
      /\ \A i \in 1..(N + 3) : (d \o c)[i] = IF i <= N + 1 THEN d[i] ELSE c[i - (N + 1)]
  <2>1. /\ d \o c \in Seq(S) /\ Len(d \o c) = Len(d) + Len(c)
        /\ \A i \in 1..(Len(d) + Len(c)) :
            (d \o c)[i] = IF i <= Len(d) THEN d[i] ELSE c[i - Len(d)]
    BY <1>1, <1>5, ConcatProperties
  <2>2. Len(d) = N + 1 /\ Len(d) + Len(c) = N + 3
    BY <1>1, <1>5, Addresses
  <2> QED
    BY <2>1, <2>2
<1>7. ASSUME NEW i \in 1..(N + 3)
      PROVE  InstallCommands[i] = InstallCommand(i)
  <2>1. CASE i = 1
    BY <2>1, <1>1, <1>5, <1>6, Addresses DEF InstallCommand
  <2>2. CASE i # 1 /\ i <= N + 1
    <3>1. d[i] = b[i - 1] /\ i - 1 \in 1..N
      BY <2>2, <1>5, Addresses
    <3> QED
      BY <2>2, <3>1, <1>2, <1>5, <1>6, Addresses DEF InstallCommand
  <2>3. CASE i = N + 2
    <3>1. (d \o c)[i] = c[1]
      BY <2>3, <1>6, Addresses
    <3>2. ~(i = 1) /\ ~(i <= N + 1)
      BY <2>3, Addresses
    <3>3. InstallCommands[i] = c[1]
      BY <3>1, <1>5
    <3> QED
      BY <2>3, <3>2, <3>3, <1>1 DEF InstallCommand
  <2>4. CASE i = N + 3
    <3>1. (d \o c)[i] = c[2]
      BY <2>4, <1>6, Addresses
    <3>2. ~(i = 1) /\ ~(i <= N + 1) /\ i # N + 2
      BY <2>4, Addresses
    <3>3. InstallCommands[i] = c[2]
      BY <3>1, <1>5
    <3> QED
      BY <2>4, <3>2, <3>3, <1>1 DEF InstallCommand
  <2> QED
    BY <2>1, <2>2, <2>3, <2>4, Addresses
<1> QED
  BY <1>5, <1>6, <1>7 DEF S

\* What each iptables command does.
LEMMA Effects ==
    ASSUME NEW c, Effect(c)
    PROVE  /\ c[1] = "N" => created' = TRUE /\ chain' = chain /\ active' = active
           /\ c[1] = "A" => created' = created /\ chain' = Append(chain, c[2]) /\ active' = active
           /\ c[1] = "I" => created' = created /\ chain' = chain /\ active' = TRUE
           /\ c[1] = "D" => created' = created /\ chain' = chain /\ active' = FALSE
           /\ c[1] = "F" => created' = created /\ chain' = <<>> /\ active' = active
           /\ c[1] = "X" => created' = FALSE /\ chain' = chain /\ active' = active
BY DEF Effect

\* The clean-up is -D, -F, -X, one after the other.
LEMMA CleanupShape ==
    /\ Head(CleanupCommands) = <<"D">> /\ Tail(CleanupCommands) = <<<<"F">>, <<"X">>>>
    /\ Head(<<<<"F">>, <<"X">>>>) = <<"F">> /\ Tail(<<<<"F">>, <<"X">>>>) = <<<<"X">>>>
    /\ Head(<<<<"X">>>>) = <<"X">>
    /\ Len(CleanupCommands) = 3 /\ Len(<<<<"F">>, <<"X">>>>) = 2 /\ Len(<<<<"X">>>>) = 1
BY DEF CleanupCommands

------------------------------------------------------------------------------
(* Steps that leave the firewall alone *)

Rests == UNCHANGED <<created, chain, active, failed, leaked>>

\* What is said of the firewall alone stays true.
LEMMA FirewallRests ==
    ASSUME Rests
    PROVE  (InOrder => InOrder') /\ (Complete => Complete') /\ (Clean => Clean')
BY DEF Rests, InOrder, Complete, Clean

\* Where nothing has been installed, nothing is left behind.
LEMMA CleanExplains ==
    ASSUME Clean'
    PROVE  AfterD' /\ AfterF' /\ AfterX'
BY DEF Clean, AfterD, AfterF, AfterX

\* The check starts with no firewall.
LEMMA InvInit == Init => MeshcheckInv
<1> SUFFICES ASSUME Init PROVE MeshcheckInv
  OBVIOUS
<1>1. InOrder
  <2>1. chain = <<>>
    BY DEF Init
  <2>2. <<>> \in Seq(Word) /\ Len(<<>>) = 0
    BY EmptySeq
  <2> QED
    BY <2>1, <2>2, Addresses DEF InOrder
<1>2. FirewallInv
  BY DEF Init, FirewallInv, Clean
<1>3. CounterInv /\ RouteInv
  BY DEF Init, CounterInv, RouteInv
<1>4. pc \in Labels /\ err \in BOOLEAN /\ created \in BOOLEAN /\ active \in BOOLEAN
  BY DEF Init, Labels
<1> QED
  BY <1>1, <1>2, <1>3, <1>4 DEF MeshcheckInv

\* readStatus and the measuring phases: the counters move, the firewall is not
\* there yet, or no longer.
LEMMA DirectStep ==
    ASSUME MeshcheckInv,
           ReadStatus \/ Baseline \/ DirectBefore \/ DirectPing \/ DirectRead \/ DirectFails
    PROVE  MeshcheckInv'
<1> DEFINE Early == {"status", "baseline", "direct", "ping", "read", "fallback"}
<1>1. Rests /\ Clean /\ ~err /\ Clean' /\ InOrder'
  <2>1. Rests
    BY DEF ReadStatus, Baseline, DirectBefore, DirectPing, DirectRead, DirectFails, Stay,
           firewall, history, Rests
  <2>2. pc \in Early
    BY DEF ReadStatus, Baseline, DirectBefore, DirectPing, DirectRead, DirectFails
  <2> QED
    BY <2>1, <2>2, FirewallRests DEF MeshcheckInv, FirewallInv
<1>2. \/ pc' \in Early /\ err' = FALSE
      \/ pc' = "finish" /\ err' \in BOOLEAN
  <2>1. err = FALSE
    BY <1>1 DEF MeshcheckInv
  <2>2. \/ pc' \in Early \cup {"finish"} /\ err' = err
        \/ pc' = "finish" /\ err' = TRUE
    <3>1. CASE ReadStatus \/ Baseline \/ DirectBefore \/ DirectFails
      BY <3>1 DEF ReadStatus, Baseline, DirectBefore, DirectFails, Goto, Fail
    <3>2. CASE DirectPing
      BY <3>2 DEF DirectPing, Goto
    <3>3. CASE DirectRead
      <4>1. Goto("fallback") \/ Goto("finish") \/ Fail \/ Goto("ping")
        BY <3>3 DEF DirectRead
      <4> QED
        BY <4>1 DEF Goto, Fail
    <3> QED
      BY <3>1, <3>2, <3>3
  <2> QED
    BY <2>1, <2>2
<1>3. FirewallInv'
  BY <1>1, <1>2, CleanExplains DEF FirewallInv
<1>4. RouteInv'
  <2>1. got' \in Nat
    BY MeshcheckAssumption DEF MeshcheckInv, RouteInv, ReadStatus, Baseline, DirectBefore,
           DirectPing, DirectRead, DirectFails, Stay, counters
  <2> QED
    BY <1>2, <2>1 DEF RouteInv
<1>5. CounterInv'
  <2>1. tx \in Nat /\ base \in Nat /\ removedAt \in Nat /\ removedAt <= tx
    BY DEF MeshcheckInv, CounterInv
  <2>2. tx' \in Nat /\ tx <= tx'
    BY <2>1 DEF ReadStatus, Baseline, DirectBefore, DirectPing, DirectRead, DirectFails, Stay,
           client, PingOK, PingDirect, PingRelay, PingFails
  <2>3. /\ base' \in Nat
        /\ pc' \in {"ping", "read"} => removedAt <= base'
        /\ pc' = "finish" /\ ~err' => removedAt < tx'
    BY <1>1, <2>1, <2>2 DEF MeshcheckInv, CounterInv, ReadStatus, Baseline, DirectBefore,
           DirectPing, DirectRead, DirectFails, Stay, counters, client, Goto, Fail
  <2>4. removedAt' = removedAt
    BY DEF ReadStatus, Baseline, DirectBefore, DirectPing, DirectRead, DirectFails, Stay, history
  <2> QED
    BY <1>2, <2>1, <2>2, <2>3, <2>4 DEF CounterInv
<1>6. pc' \in Labels /\ err' \in BOOLEAN
  BY <1>2 DEF Labels
<1> QED
  BY <1>1, <1>3, <1>4, <1>5, <1>6 DEF MeshcheckInv, Rests

\* The loop of the fallback phase and its confirmation: no ping goes direct while
\* the firewall is up.
LEMMA FallbackStep ==
    ASSUME MeshcheckInv, FallbackPing \/ QuietPasses \/ FallbackRead \/ ConfirmPing
    PROVE  MeshcheckInv'
<1> DEFINE Up == {"fping", "fread", "cping", "cread"}
<1>1. /\ pc \in Up /\ pc' \in Up /\ err' = err /\ Rests /\ removedAt' = removedAt
  BY DEF FallbackPing, QuietPasses, FallbackRead, ConfirmPing, firewall, history, Goto, Rests
<1>2. active /\ created /\ Complete /\ failed = {} /\ ~leaked
  BY <1>1 DEF MeshcheckInv, FirewallInv
<1>3. FirewallInv' /\ InOrder'
  BY <1>1, <1>2, FirewallRests DEF FirewallInv, Rests, MeshcheckInv
<1>4. Blocking
  <2>1. N + 1 \in 1..Len(chain) /\ chain[N + 1] = Drop
    BY <1>2, Addresses DEF Complete
  <2> QED
    BY <1>2, <2>1 DEF Blocking, Contains
<1>5. tx \in Nat /\ tx' \in Nat /\ tx <= tx'
  BY DEF FallbackPing, QuietPasses, FallbackRead, ConfirmPing, PingOK, PingDirect, PingRelay,
         PingFails, client, MeshcheckInv, CounterInv
<1>6. CounterInv'
  <2>1. base' \in Nat
    BY <1>5 DEF MeshcheckInv, CounterInv, FallbackPing, QuietPasses, FallbackRead, ConfirmPing
  <2> QED
    BY <1>1, <1>5, <2>1 DEF CounterInv, MeshcheckInv
<1>7. RouteInv'
  <2>1. got \in Nat
    BY DEF MeshcheckInv, RouteInv
  <2>2. CASE FallbackPing
    BY <2>2 DEF FallbackPing, Goto, RouteInv
  <2>3. CASE QuietPasses
    BY <2>3, <2>1 DEF QuietPasses, RouteInv, history
  <2>4. CASE FallbackRead
    BY <2>4 DEF FallbackRead, Goto, RouteInv
  <2>5. CASE ConfirmPing
    <3>1. CASE PingFails /\ Goto("fping") /\ UNCHANGED <<got, routes>>
      BY <3>1, <2>1 DEF RouteInv, Goto
    <3>2. CASE /\ PingOK
               /\ got' = got + 1
               /\ routes' = routes \cup {IF tx' = tx THEN "relay" ELSE "direct"}
               /\ Goto(IF got + 1 = Samples THEN "cread" ELSE "cping")
      <4>1. tx' = tx
        BY <3>2, <1>4 DEF PingOK, PingDirect, PingRelay
      <4>2. routes \subseteq {"relay"}
        BY <2>5 DEF ConfirmPing, MeshcheckInv, RouteInv
      <4>3. routes' = {"relay"} /\ got' \in Nat
        <5>1. routes' = routes \cup {"relay"} /\ got' = got + 1
          BY <3>2, <4>1
        <5> QED
          <6>1. routes' = {"relay"}
            BY <5>1, <4>2
          <6> QED
            BY <5>1, <6>1, <2>1
      <4> QED
        BY <4>3 DEF RouteInv
    <3> QED
      BY <2>5, <3>1, <3>2 DEF ConfirmPing
  <2> QED
    BY <2>2, <2>3, <2>4, <2>5
<1> QED
  BY <1>1, <1>3, <1>6, <1>7 DEF MeshcheckInv, Labels, Rests

------------------------------------------------------------------------------
(* The firewall goes up *)

\* verifyFallback begins: nothing is installed yet, all commands are to come.
LEMMA FallbackBeforeStep ==
    ASSUME MeshcheckInv, FallbackBefore
    PROVE  MeshcheckInv'
<1>1. Rests /\ Clean /\ err = FALSE /\ Clean' /\ InOrder'
  <2>1. Rests
    BY DEF FallbackBefore, history, Rests
  <2> QED
    BY <2>1, FirewallRests DEF MeshcheckInv, FirewallInv, FallbackBefore
<1>2. \/ pc' = "install" /\ err' = FALSE /\ cmds' = InstallCommands
      \/ pc' = "finish" /\ err' = TRUE
  BY <1>1 DEF FallbackBefore, Goto, Fail
<1>3. cmds' = InstallCommands => Installing'
  <2> SUFFICES ASSUME cmds' = InstallCommands PROVE Installing'
    OBVIOUS
  <2>1. N \in Nat /\ Len(cmds') = N + 3 /\ cmds' \in Seq(Seq(Word)) /\ Done' = 0
    BY InstallShape, Addresses DEF Done
  <2>2. \A j \in 1..Len(cmds') : cmds'[j] = InstallCommand(Done' + j)
    BY <2>1, InstallShape
  <2>3. created' = FALSE /\ chain' = <<>> /\ ~active' /\ failed' = {} /\ ~leaked'
    BY <1>1 DEF Clean, Rests, MeshcheckInv
  <2>4. Len(chain') = 0
    BY <2>3, EmptySeq
  <2>5. (Done' > 0) = FALSE /\ Done' # N + 2 /\ Len(cmds') \in 1..(N + 3)
    BY <2>1
  <2>6. Len(chain') = IF Done' = 0 THEN 0 ELSE Done' - 1
    BY <2>1, <2>4
  <2> QED
    BY <2>1, <2>2, <2>3, <2>5, <2>6 DEF Installing
<1>4. FirewallInv'
  BY <1>1, <1>2, <1>3, CleanExplains DEF FirewallInv
<1>5. CounterInv' /\ RouteInv'
  BY <1>2 DEF MeshcheckInv, CounterInv, RouteInv, FallbackBefore, client, history
<1>6. pc' \in Labels /\ err' \in BOOLEAN
  BY <1>2 DEF Labels
<1> QED
  BY <1>1, <1>4, <1>5, <1>6 DEF MeshcheckInv, Rests

\* The next command of the installation and what it does to the firewall.
LEMMA NextCommand ==
    ASSUME InOrder, Installing, created \in BOOLEAN
    PROVE  /\ cmds \in Seq(Seq(Word)) /\ cmds # <<>>
           /\ Done \in 0..(N + 2) /\ Len(cmds) = N + 3 - Done
           /\ Head(cmds) = InstallCommand(Done + 1)
           /\ Done = 0 => Head(cmds)[1] = "N"
           /\ Done > 0 /\ Done < N + 2 => Head(cmds)[1] = "A"
           /\ Done = N + 2 => Head(cmds)[1] = "I"
           /\ Done > 0 /\ Done <= N => Head(cmds)[2] = RelayIPs[Done]
           /\ Done = N + 1 => Head(cmds)[2] = Drop
<1>1. cmds \in Seq(Seq(Word)) /\ Len(cmds) \in 1..(N + 3) /\ N \in Nat \ {0}
  BY Addresses DEF Installing
<1>2. cmds # <<>>
  BY <1>1, EmptySeq
<1>3. Done \in 0..(N + 2) /\ Len(cmds) = N + 3 - Done
  BY <1>1 DEF Done
<1>4. Head(cmds) = InstallCommand(Done + 1)
  <2>1. Head(cmds) = cmds[1]
    BY <1>1, <1>2
  <2> QED
    BY <1>1, <2>1 DEF Installing
<1> DEFINE k == Done
<1>5. k \in 0..(N + 2) /\ Head(cmds) = InstallCommand(k + 1)
  BY <1>3, <1>4
<1> HIDE DEF k
<1>6. /\ k = 0 => InstallCommand(k + 1) = <<"N">>
      /\ k > 0 /\ k <= N => InstallCommand(k + 1) = <<"A", RelayIPs[k]>>
      /\ k = N + 1 => InstallCommand(k + 1) = <<"A", Drop>>
      /\ k = N + 2 => InstallCommand(k + 1) = <<"I">>
  BY <1>1, <1>5 DEF InstallCommand
<1>7. /\ k = 0 => Head(cmds)[1] = "N"
      /\ k > 0 /\ k < N + 2 => Head(cmds)[1] = "A"
      /\ k = N + 2 => Head(cmds)[1] = "I"
      /\ k > 0 /\ k <= N => Head(cmds)[2] = RelayIPs[k]
      /\ k = N + 1 => Head(cmds)[2] = Drop
  <2>1. k = 0 \/ (k > 0 /\ k <= N) \/ k = N + 1 \/ k = N + 2
    BY <1>1, <1>5
  <2>2. CASE k = 0
    BY <2>2, <1>1, <1>5, <1>6
  <2>3. CASE k > 0 /\ k <= N
    <3>1. Head(cmds)[1] = "A" /\ Head(cmds)[2] = RelayIPs[k]
      BY <2>3, <1>5, <1>6
    <3> QED
      BY <2>3, <3>1, <1>1, <1>5
  <2>4. CASE k = N + 1
    <3>1. Head(cmds)[1] = "A" /\ Head(cmds)[2] = Drop
      BY <2>4, <1>5, <1>6
    <3> QED
      BY <2>4, <3>1, <1>1
  <2>5. CASE k = N + 2
    BY <2>5, <1>1, <1>5, <1>6
  <2> QED
    BY <2>1, <2>2, <2>3, <2>4, <2>5
<1> QED
  BY <1>1, <1>2, <1>3, <1>4, <1>7 DEF k

\* A command that takes effect keeps the rules in order.
LEMMA InstallEffect ==
    ASSUME InOrder, Installing, created \in BOOLEAN, active \in BOOLEAN, Effect(Head(cmds))
    PROVE  /\ InOrder'
           /\ created' = TRUE
           /\ Done < N + 2 => active' = FALSE
           /\ Done = N + 2 => active' = TRUE
           /\ Len(chain') = IF Done = N + 2 THEN N + 1 ELSE Done
           /\ Done >= N + 1 => Complete'
<1> DEFINE k == Done
           l == Len(chain)
<1>1. /\ N \in Nat \ {0} /\ k \in 0..(N + 2) /\ chain \in Seq(Word) /\ l \in Nat
      /\ l = (IF k = 0 THEN 0 ELSE k - 1) /\ (k > 0 => created = TRUE) /\ active = FALSE
      /\ \A i \in 1..l : i <= N => chain[i] = RelayIPs[i]
      /\ k = N + 2 => Complete
  BY Addresses, NextCommand, LenProperties DEF InOrder, Installing
<1>2. /\ k = 0 => Head(cmds)[1] = "N"
      /\ k > 0 /\ k < N + 2 => Head(cmds)[1] = "A"
      /\ k = N + 2 => Head(cmds)[1] = "I"
      /\ k > 0 /\ k <= N => Head(cmds)[2] = RelayIPs[k]
      /\ k = N + 1 => Head(cmds)[2] = Drop
  BY NextCommand
<1>3. CASE k = 0
  <2>1. Head(cmds)[1] = "N"
    BY <1>2, <1>3
  <2>2. created' = TRUE /\ chain' = chain /\ active' = active
    BY <2>1, Effects
  <2> QED
    BY <1>1, <1>3, <2>2 DEF InOrder
<1>4. CASE k = N + 2
  <2>1. Head(cmds)[1] = "I"
    BY <1>1, <1>2, <1>4
  <2>2. created' = created /\ chain' = chain /\ active' = TRUE
    BY <2>1, Effects
  <2>3. Complete'
    BY <1>1, <1>4, <2>2 DEF Complete
  <2> QED
    BY <1>1, <1>4, <2>2, <2>3 DEF InOrder
<1>5. CASE k > 0 /\ k < N + 2
  <2> DEFINE r == Head(cmds)[2]
  <2>1. Head(cmds)[1] = "A"
    BY <1>1, <1>2, <1>5
  <2>2. created' = created /\ chain' = Append(chain, r) /\ active' = active
    BY <2>1, Effects
  <2>3. r \in Word /\ (k <= N => r = RelayIPs[k]) /\ (k = N + 1 => r = Drop)
    <3>1. k \in 1..N \/ k = N + 1
      BY <1>1, <1>5
    <3> QED
      BY <1>1, <1>2, <1>5, <3>1, Addresses DEF Word
  <2> HIDE DEF r
  <2>4. /\ chain' \in Seq(Word) /\ Len(chain') = l + 1
        /\ \A i \in 1..l : chain'[i] = chain[i]
        /\ chain'[l + 1] = r
    BY <1>1, <2>2, <2>3, AppendProperties
  <2>5. Len(chain') = k
    BY <1>1, <1>5, <2>4
  <2>6. ASSUME NEW i \in 1..k, i <= N PROVE chain'[i] = RelayIPs[i]
    BY <1>1, <1>5, <2>3, <2>4, <2>6
  <2>7. InOrder'
    BY <1>1, <1>5, <2>4, <2>5, <2>6 DEF InOrder
  <2>8. k = N + 1 => Complete'
    <3> SUFFICES ASSUME k = N + 1 PROVE Complete'
      OBVIOUS
    <3>1. l + 1 = N + 1 /\ r = Drop
      BY <1>1, <2>3
    <3> QED
      BY <2>4, <3>1 DEF Complete
  <2> QED
    BY <1>1, <1>5, <2>2, <2>5, <2>7, <2>8
<1> QED
  <2>1. k = 0 \/ k = N + 2 \/ (k > 0 /\ k < N + 2)
    BY <1>1
  <2> QED
    BY <2>1, <1>3, <1>4, <1>5

\* installRelayOnlyFirewall runs its next command.
LEMMA InstallStep ==
    ASSUME MeshcheckInv, Install
    PROVE  MeshcheckInv'
<1>1. /\ pc = "install" /\ Installing /\ err = FALSE /\ InOrder
      /\ created \in BOOLEAN /\ active \in BOOLEAN /\ Effect(Head(cmds))
  BY DEF MeshcheckInv, FirewallInv, Install
<1>2. /\ err' = FALSE /\ cmds' = Tail(cmds) /\ failed' = {} /\ ~leaked'
      /\ pc' = (IF Len(cmds) = 1 THEN "fping" ELSE "install")
  BY <1>1 DEF Install, Goto, Installing, history
<1> DEFINE k == Done
           n == Len(cmds)
<1>3. N \in Nat \ {0} /\ k \in 0..(N + 2) /\ n = N + 3 - k
  BY <1>1, NextCommand, Addresses
<1>4. /\ InOrder' /\ created' = TRUE
      /\ k < N + 2 => active' = FALSE
      /\ k = N + 2 => active' = TRUE
      /\ Len(chain') = IF k = N + 2 THEN N + 1 ELSE k
      /\ k >= N + 1 => Complete'
  BY <1>1, InstallEffect
<1>5. /\ cmds' \in Seq(Seq(Word)) /\ Len(cmds') = n - 1
      /\ \A j \in 1..(n - 1) : cmds'[j] = cmds[j + 1]
  BY <1>1, <1>2, NextCommand, HeadTailProperties
<1>6. \A j \in 1..n : cmds[j] = InstallCommand(k + j)
  BY <1>1 DEF Installing
<1>7. Done' = N + 3 - Len(cmds')
  BY DEF Done
<1> HIDE DEF k, n
<1>8. n # 1 => Installing' /\ pc' = "install"
  <2> SUFFICES ASSUME n # 1 PROVE Installing' /\ pc' = "install"
    OBVIOUS
  <2>1. k < N + 2 /\ Done' = k + 1 /\ Len(cmds') \in 1..(N + 3)
    BY <1>3, <1>5, <1>7
  <2>2. ASSUME NEW j \in 1..Len(cmds')
        PROVE  cmds'[j] = InstallCommand(Done' + j)
    <3>1. j \in 1..(n - 1) /\ j + 1 \in 1..n
      BY <1>3, <1>5, <2>2
    <3>2. cmds'[j] = InstallCommand(k + (j + 1))
      BY <3>1, <1>5, <1>6
    <3>3. k + (j + 1) = Done' + j
      BY <1>3, <2>1, <3>1
    <3> QED
      BY <3>2, <3>3
  <2>3. active' = FALSE /\ (Done' > 0) = TRUE /\ Len(chain') = Done' - 1
    BY <1>3, <1>4, <2>1
  <2>4. Done' = N + 2 => Complete'
    BY <1>3, <1>4, <2>1
  <2>5. Done' # 0
    BY <1>3, <2>1
  <2> QED
    BY <1>2, <1>4, <1>5, <2>1, <2>2, <2>3, <2>4, <2>5 DEF Installing, n
<1>9. n = 1 => active' = TRUE /\ Complete' /\ pc' = "fping"
  <2> SUFFICES ASSUME n = 1 PROVE active' = TRUE /\ Complete' /\ pc' = "fping"
    OBVIOUS
  <2>1. k = N + 2 /\ k >= N + 1
    BY <1>3
  <2> QED
    BY <1>2, <1>4, <2>1 DEF n
<1>10. FirewallInv'
  BY <1>2, <1>4, <1>8, <1>9 DEF FirewallInv
<1>11. CounterInv' /\ RouteInv'
  BY <1>2 DEF MeshcheckInv, CounterInv, RouteInv, Install, counters, client, history
<1>12. pc' \in Labels /\ active' \in BOOLEAN
  <2>1. k < N + 2 \/ k = N + 2
    BY <1>3
  <2> QED
    BY <1>4, <2>1, <1>8, <1>9 DEF Labels
<1> QED
  BY <1>2, <1>4, <1>10, <1>11, <1>12 DEF MeshcheckInv

\* A command fails: before the chain is there nothing remains but what -N may
\* have left, afterwards the roll-back begins.
LEMMA InstallFailsStep ==
    ASSUME MeshcheckInv, InstallFails
    PROVE  MeshcheckInv'
<1>1. /\ pc = "install" /\ Installing /\ err = FALSE /\ InOrder
      /\ created \in BOOLEAN /\ active \in BOOLEAN
  BY DEF MeshcheckInv, FirewallInv, InstallFails
<1> DEFINE c == Head(cmds)
<1>2. /\ \/ Effect(c) /\ leaked' = (c[1] = "N")
         \/ UNCHANGED <<created, chain, active, leaked>>
      /\ \/ c[1] = "N" /\ err' = TRUE /\ pc' = "finish"
         \/ c[1] # "N" /\ err' = TRUE /\ pc' = "cleanup" /\ cmds' = CleanupCommands
      /\ failed' = failed
  BY DEF InstallFails, Fail
<1>4. /\ failed = {} /\ ~leaked /\ active = FALSE /\ created = (Done > 0)
      /\ Done \in 0..(N + 2) /\ N \in Nat \ {0}
      /\ Done = 0 => c[1] = "N" /\ Len(chain) = 0
      /\ Done > 0 => c[1] # "N" /\ created = TRUE
  <2>1. Done = 0 \/ (Done > 0 /\ Done < N + 2) \/ Done = N + 2
    BY <1>1, NextCommand, Addresses
  <2>2. /\ failed = {} /\ ~leaked /\ active = FALSE /\ created = (Done > 0)
        /\ Done = 0 => Len(chain) = 0
    BY <1>1 DEF Installing
  <2>3. /\ Done \in 0..(N + 2) /\ N \in Nat \ {0}
        /\ Done = 0 => c[1] = "N"
        /\ Done > 0 /\ Done < N + 2 => c[1] = "A"
        /\ Done = N + 2 => c[1] = "I"
    BY <1>1, NextCommand, Addresses
  <2> HIDE DEF c
  <2>4. Done > 0 => c[1] # "N" /\ created = TRUE
    <3> SUFFICES ASSUME Done > 0 PROVE c[1] # "N" /\ created = TRUE
      OBVIOUS
    <3>1. c[1] = "A" \/ c[1] = "I"
      BY <2>1, <2>3
    <3>2. created = TRUE
      BY <2>2
    <3> QED
      BY <3>1, <3>2
  <2> QED
    BY <2>2, <2>3, <2>4
<1>5. InOrder' /\ created' \in BOOLEAN /\ active' \in BOOLEAN
  <2>1. CASE Effect(c)
    <3>1. Done < N + 2 \/ Done = N + 2
      BY <1>4
    <3> QED
      BY <1>1, <2>1, <3>1, InstallEffect
  <2>2. CASE UNCHANGED <<created, chain, active, leaked>>
    BY <1>1, <2>2 DEF InOrder
  <2> QED
    BY <1>2, <2>1, <2>2
<1>6. CASE c[1] = "N"
  <2>1. Done = 0
    BY <1>4, <1>6
  <2>2. chain = <<>> /\ created = FALSE
    <3>1. (Done > 0) = FALSE
      BY <2>1
    <3> QED
      BY <1>1, <1>4, <2>1, <3>1, EmptySeq DEF InOrder
  <2>3. chain' = <<>> /\ active' = FALSE /\ (created' => leaked')
    <3>1. CASE Effect(c) /\ leaked' = (c[1] = "N")
      BY <1>4, <1>6, <2>2, <3>1, Effects
    <3>2. CASE UNCHANGED <<created, chain, active, leaked>>
      BY <1>4, <2>2, <3>2
    <3> QED
      BY <1>2, <3>1, <3>2
  <2>4. pc' = "finish" /\ err' = TRUE
    BY <1>2, <1>6
  <2>5. FirewallInv'
    BY <2>3, <2>4 DEF FirewallInv, AfterD, AfterF, AfterX
  <2> QED
    BY <1>5, <2>4, <2>5 DEF MeshcheckInv, CounterInv, RouteInv, InstallFails, counters, client,
       Labels
<1>7. CASE c[1] # "N"
  <2>1. Done > 0 /\ created = TRUE
    BY <1>4, <1>7
  <2>2. created' = TRUE /\ ~leaked'
    <3>1. CASE Effect(c) /\ leaked' = (c[1] = "N")
      BY <1>1, <1>7, <3>1, InstallEffect
    <3>2. CASE UNCHANGED <<created, chain, active, leaked>>
      BY <1>4, <2>1, <3>2
    <3> QED
      BY <1>2, <3>1, <3>2
  <2>3. pc' = "cleanup" /\ err' = TRUE /\ cmds' = CleanupCommands
    BY <1>2, <1>7
  <2>4. Cleaning'
    BY <2>2, <2>3 DEF Cleaning, CleanupCommands
  <2>5. FirewallInv'
    BY <2>3, <2>4 DEF FirewallInv
  <2> QED
    BY <1>5, <2>3, <2>5 DEF MeshcheckInv, CounterInv, RouteInv, InstallFails, counters, client,
       Labels
<1> QED
  BY <1>6, <1>7

------------------------------------------------------------------------------
(* The firewall comes down *)

\* The fallback phase ends, confirmed or with an error: the clean-up begins.
LEMMA CloseStep ==
    ASSUME MeshcheckInv, ConfirmRead \/ FallbackFails
    PROVE  MeshcheckInv'
<1>1. Rests /\ pc \in {"fping", "fread", "cping", "cread"} /\ err \in BOOLEAN
  BY DEF ConfirmRead, FallbackFails, Rests, history, MeshcheckInv
<1>2. active /\ created /\ Complete /\ failed = {} /\ ~leaked /\ InOrder
  BY <1>1 DEF MeshcheckInv, FirewallInv
<1>3. /\ active' /\ created' /\ Complete' /\ failed' = {} /\ ~leaked' /\ InOrder'
  BY <1>1, <1>2, FirewallRests DEF Rests
<1>4. /\ err' \in BOOLEAN
      /\ \/ pc' = "cleanup" /\ cmds' = CleanupCommands
         \/ pc' = "fping"
  BY <1>1 DEF ConfirmRead, FallbackFails, Goto
<1>5. cmds' = CleanupCommands => Cleaning'
  BY <1>3 DEF Cleaning, CleanupCommands
<1>6. FirewallInv'
  BY <1>3, <1>4, <1>5 DEF FirewallInv
<1>7. CounterInv' /\ RouteInv'
  BY <1>4 DEF MeshcheckInv, CounterInv, RouteInv, ConfirmRead, FallbackFails, counters, client,
     history
<1>8. pc' \in Labels /\ created' \in BOOLEAN /\ active' \in BOOLEAN
  BY <1>1, <1>4 DEF Labels, Rests, MeshcheckInv
<1> QED
  BY <1>3, <1>4, <1>6, <1>7, <1>8 DEF MeshcheckInv

\* What a command of the clean-up leaves: it has had its effect, with or without
\* an error, or it is on record as failed, with an error.
LEMMA CleanupLeaves ==
    ASSUME MeshcheckInv, Cleanup \/ CleanupFails
    PROVE  LET c == Head(cmds) IN
           /\ \/ Effect(c) /\ failed' = failed /\ (err => err')
              \/ UNCHANGED <<created, chain, active>> /\ failed' = failed \cup {c[1]} /\ err'
           /\ err' \in BOOLEAN /\ (err => err')
           /\ cmds' = Tail(cmds)
           /\ pc' = (IF Len(cmds) > 1 THEN "cleanup" ELSE IF err' THEN "finish" ELSE "direct")
           /\ leaked' = leaked /\ UNCHANGED <<counters, client>>
<1>1. err \in BOOLEAN
  BY DEF MeshcheckInv
<1> QED
  BY <1>1 DEF Cleanup, CleanupFails, CleanupNext

\* The clean-up runs its next command, whether that succeeds or not.
LEMMA CleanupStep ==
    ASSUME MeshcheckInv, Cleanup \/ CleanupFails
    PROVE  MeshcheckInv'
<1> DEFINE c == Head(cmds)
<1>1. Cleaning /\ InOrder /\ err \in BOOLEAN /\ created \in BOOLEAN /\ active \in BOOLEAN
  BY DEF MeshcheckInv, FirewallInv, Cleanup, CleanupFails
<1>2. /\ \/ Effect(c) /\ failed' = failed /\ (err => err')
         \/ UNCHANGED <<created, chain, active>> /\ failed' = failed \cup {c[1]} /\ err'
      /\ err' \in BOOLEAN /\ (err => err')
      /\ cmds' = Tail(cmds)
      /\ pc' = (IF Len(cmds) > 1 THEN "cleanup" ELSE IF err' THEN "finish" ELSE "direct")
      /\ leaked' = leaked
  BY CleanupLeaves
<1>3. CounterInv' /\ RouteInv'
  <2>1. UNCHANGED <<counters, client>> /\ pc' \in {"cleanup", "finish", "direct"}
    BY <1>2, CleanupLeaves
  <2>2. removedAt' \in {tx, removedAt}
    BY DEF Cleanup, CleanupFails
  <2>3. pc' = "finish" => err'
    BY <1>2
  <2> QED
    BY <2>1, <2>2, <2>3 DEF MeshcheckInv, CounterInv, RouteInv, counters, client
<1>4. CASE cmds = CleanupCommands
  <2>1. c = <<"D">> /\ Tail(cmds) = <<<<"F">>, <<"X">>>> /\ Len(cmds) > 1
    BY <1>4, CleanupShape
  <2>2. c[1] = "D"
    BY <2>1
  <2> HIDE DEF c
  <2>3. created' = created /\ chain' = chain /\ active' \in BOOLEAN
    BY <1>1, <1>2, <2>2, Effects
  <2>4. AfterD' /\ (~err' => failed' = {})
    BY <1>1, <1>2, <2>2, Effects DEF AfterD, Cleaning
  <2>5. Cleaning' /\ pc' = "cleanup"
    BY <1>1, <1>2, <2>1, <2>3, <2>4 DEF Cleaning
  <2>6. FirewallInv' /\ InOrder'
    BY <1>1, <2>3, <2>5 DEF FirewallInv, InOrder
  <2> QED
    BY <1>1, <1>2, <1>3, <2>3, <2>5, <2>6 DEF MeshcheckInv, Labels
<1>5. CASE cmds = <<<<"F">>, <<"X">>>> /\ AfterD
  <2>1. c = <<"F">> /\ Tail(cmds) = <<<<"X">>>> /\ Len(cmds) > 1
    BY <1>5, CleanupShape
  <2>2. c[1] = "F"
    BY <2>1
  <2> HIDE DEF c
  <2>3. created' = created /\ active' = active /\ (chain' = chain \/ chain' = <<>>)
    BY <1>1, <1>2, <2>2, Effects
  <2>4. AfterD' /\ AfterF' /\ (~err' => failed' = {})
    BY <1>1, <1>2, <1>5, <2>2, <2>3, Effects DEF AfterD, AfterF, Cleaning
  <2>5. Cleaning' /\ pc' = "cleanup"
    BY <1>1, <1>2, <2>1, <2>3, <2>4 DEF Cleaning
  <2>6. InOrder'
    <3>1. CASE chain' = chain
      BY <1>1, <3>1 DEF InOrder
    <3>2. CASE chain' = <<>>
      <4>1. <<>> \in Seq(Word) /\ Len(<<>>) = 0
        BY EmptySeq
      <4> QED
        BY <3>2, <4>1, Addresses DEF InOrder
    <3> QED
      BY <2>3, <3>1, <3>2
  <2>7. FirewallInv'
    BY <2>5 DEF FirewallInv
  <2> QED
    BY <1>1, <1>2, <1>3, <2>3, <2>5, <2>6, <2>7 DEF MeshcheckInv, Labels
<1>6. CASE cmds = <<<<"X">>>> /\ AfterD /\ AfterF
  <2>1. c = <<"X">> /\ ~(Len(cmds) > 1)
    BY <1>6, CleanupShape
  <2>2. c[1] = "X"
    BY <2>1
  <2> HIDE DEF c
  <2>3. chain' = chain /\ active' = active /\ created' \in BOOLEAN
    BY <1>1, <1>2, <2>2, Effects
  <2>4. AfterD' /\ AfterF' /\ AfterX' /\ (~err' => failed' = {})
    BY <1>1, <1>2, <1>6, <2>2, <2>3, Effects DEF AfterD, AfterF, AfterX, Cleaning
  <2>5. \/ pc' = "finish"
        \/ pc' = "direct" /\ ~err'
    BY <1>2, <2>1
  <2>6. ~err' => Clean'
    BY <1>1, <1>2, <2>4 DEF Clean, AfterD, AfterF, AfterX, Cleaning
  <2>7. FirewallInv' /\ InOrder'
    BY <1>1, <2>3, <2>4, <2>5, <2>6 DEF FirewallInv, InOrder
  <2> QED
    BY <1>1, <1>2, <1>3, <2>3, <2>5, <2>7 DEF MeshcheckInv, Labels
<1> QED
  BY <1>1, <1>4, <1>5, <1>6 DEF Cleaning

\* The client, a signal, the end of the process, and steps of no variable.
LEMMA OtherStep ==
    ASSUME MeshcheckInv, Background \/ Signal \/ Finish \/ UNCHANGED vars
    PROVE  MeshcheckInv'
<1>1. UNCHANGED <<forceFallback, err, counters, firewall, history>>
  BY DEF Background, Signal, Finish, Goto, Stay, vars, control
<1>2. pc' = pc \/ (pc = "finish" /\ pc' = "exited")
  BY DEF Background, Signal, Finish, Goto, vars
<1>3. tx' \in Nat /\ tx <= tx' /\ tx \in Nat
  BY DEF Background, Signal, Finish, Stay, vars, client, MeshcheckInv, CounterInv
<1>4. CounterInv' /\ RouteInv'
  BY <1>1, <1>2, <1>3 DEF MeshcheckInv, CounterInv, RouteInv, counters, history
<1>5. /\ InOrder' /\ (Complete => Complete') /\ (Clean => Clean') /\ (Cleaning => Cleaning')
      /\ (Installing => Installing')
      /\ (AfterD => AfterD') /\ (AfterF => AfterF') /\ (AfterX => AfterX')
  <2>1. Rests /\ cmds' = cmds /\ err' = err
    BY <1>1 DEF firewall, history, Rests
  <2>2. InOrder' /\ (Complete => Complete') /\ (Clean => Clean')
    BY <2>1, FirewallRests DEF MeshcheckInv
  <2>3. Installing => Installing'
    BY <2>1, <2>2 DEF Rests, Installing, Done
  <2>4. (AfterD => AfterD') /\ (AfterF => AfterF') /\ (AfterX => AfterX')
    BY <2>1 DEF Rests, AfterD, AfterF, AfterX
  <2> QED
    BY <2>1, <2>2, <2>3, <2>4 DEF Rests, Cleaning
<1>6. FirewallInv'
  BY <1>1, <1>2, <1>5 DEF MeshcheckInv, FirewallInv, firewall, history
<1>7. pc' \in Labels
  BY <1>2 DEF MeshcheckInv, Labels
<1> QED
  BY <1>1, <1>4, <1>5, <1>6, <1>7 DEF MeshcheckInv, firewall

------------------------------------------------------------------------------
(* Invariants *)

\* Every step of the check preserves the invariant.
LEMMA InvNext == MeshcheckInv /\ [Next]_vars => MeshcheckInv'
<1> SUFFICES ASSUME MeshcheckInv, [Next]_vars PROVE MeshcheckInv'
  OBVIOUS
<1>1. CASE ReadStatus \/ Baseline \/ DirectBefore \/ DirectPing \/ DirectRead \/ DirectFails
  BY <1>1, DirectStep
<1>2. CASE FallbackPing \/ QuietPasses \/ FallbackRead \/ ConfirmPing
  BY <1>2, FallbackStep
<1>3. CASE FallbackBefore
  BY <1>3, FallbackBeforeStep
<1>4. CASE Install
  BY <1>4, InstallStep
<1>5. CASE InstallFails
  BY <1>5, InstallFailsStep
<1>6. CASE ConfirmRead \/ FallbackFails
  BY <1>6, CloseStep
<1>7. CASE Cleanup \/ CleanupFails
  BY <1>7, CleanupStep
<1>8. CASE Background \/ Signal \/ Finish \/ UNCHANGED vars
  BY <1>8, OtherStep
<1> QED
  BY <1>1, <1>2, <1>3, <1>4, <1>5, <1>6, <1>7, <1>8 DEF Next, Checker

\* The inductive invariant of the deployment check.
THEOREM MeshcheckInvariant == Spec => []MeshcheckInv
BY InvInit, InvNext, PTL DEF Spec

\* Chains that are a beginning of the rules let the relay through.
LEMMA RelayPasses == InOrder => RelayStaysReachable
<1> SUFFICES ASSUME InOrder, Contains(chain, Drop), NEW r \in ToSet(RelayIPs)
             PROVE  \E i \in 1..Len(chain) : chain[i] = r /\ \A j \in 1..i : chain[j] # Drop
  BY DEF RelayStaysReachable, RelayBlocked, Blocking
<1>1. /\ N \in Nat /\ Len(chain) \in Nat /\ Len(chain) <= N + 1
      /\ \A i \in 1..Len(chain) : i <= N => chain[i] = RelayIPs[i]
  BY Addresses, LenProperties DEF InOrder
<1>2. PICK d \in 1..Len(chain) : chain[d] = Drop
  BY DEF Contains
<1>3. \A i \in 1..N : RelayIPs[i] # Drop
  BY Addresses
<1>4. Len(chain) = N + 1
  <2>1. ~(d <= N)
    <3> SUFFICES ASSUME d <= N PROVE FALSE
      OBVIOUS
    <3>1. d \in 1..N /\ chain[d] = RelayIPs[d]
      BY <1>1
    <3> QED
      BY <1>2, <1>3, <3>1
  <2> QED
    BY <1>1, <2>1
<1>5. PICK i \in 1..N : r = RelayIPs[i]
  BY Addresses DEF ToSet
<1>6. i \in 1..Len(chain) /\ chain[i] = r
  BY <1>1, <1>4, <1>5
<1>7. ASSUME NEW j \in 1..i PROVE chain[j] # Drop
  <2>1. j \in 1..N /\ j \in 1..Len(chain) /\ j <= N
    BY <1>1, <1>4
  <2> QED
    BY <1>1, <1>3, <2>1
<1> QED
  BY <1>6, <1>7

\* RelayStaysReachable for any number of relay addresses: whichever iptables
\* command of installation, roll-back or clean-up fails, with or without effect,
\* UDP to the relay is never dropped.
THEOREM RelayAlwaysReachable == Spec => []RelayStaysReachable
<1>1. MeshcheckInv => RelayStaysReachable
  BY RelayPasses DEF MeshcheckInv
<1> QED
  BY <1>1, MeshcheckInvariant, PTL

\* PassedMeansRecovered: run() returns nil after a forced fallback only if cleanup
\* has removed the firewall and waitForDirect has then seen direct_tx grow.
THEOREM PassedAlwaysMeansRecovered == Spec => []PassedMeansRecovered
<1>1. MeshcheckInv => PassedMeansRecovered
  BY DEF MeshcheckInv, FirewallInv, CounterInv, AfterD, AfterX, PassedMeansRecovered
<1> QED
  BY <1>1, MeshcheckInvariant, PTL

\* LeftoversExplained: whatever the firewall leaves behind when the process exits
\* is what a clean-up command that failed should have removed, or a chain whose
\* creation was reported as failed.
THEOREM LeftoversAlwaysExplained == Spec => []LeftoversExplained
<1>1. Blocking => chain # <<>>
  <2> SUFFICES ASSUME Blocking, chain = <<>> PROVE FALSE
    OBVIOUS
  <2>1. Len(chain) = 0
    BY EmptySeq
  <2> QED
    BY <2>1 DEF Blocking, Contains
<1>2. MeshcheckInv => LeftoversExplained
  BY <1>1 DEF MeshcheckInv, FirewallInv, AfterD, AfterF, AfterX, Blocking, LeftoversExplained
<1> QED
  BY <1>2, MeshcheckInvariant, PTL

\* FallbackIsReal: verifyFallback reports success only after pings that all went
\* over the relay, with the firewall blocking direct UDP and direct_tx unmoved.
THEOREM FallbackAlwaysReal == Spec => FallbackIsReal
<1> DEFINE Real == pc = "cread" /\ pc' = "cleanup" /\ ~err' =>
                        Blocking /\ routes = {"relay"} /\ tx = base
<1>1. MeshcheckInv /\ [Next]_vars => Real
  <2> SUFFICES ASSUME MeshcheckInv, [Next]_vars, pc = "cread", pc' = "cleanup", ~err'
               PROVE  Blocking /\ routes = {"relay"} /\ tx = base
    OBVIOUS
  <2>1. routes = {"relay"} /\ active /\ Complete
    BY DEF MeshcheckInv, RouteInv, FirewallInv
  <2>2. Blocking
    <3>1. N + 1 \in 1..Len(chain) /\ chain[N + 1] = Drop
      BY <2>1, Addresses DEF Complete
    <3> QED
      BY <2>1, <3>1 DEF Blocking, Contains
  <2>3. ConfirmRead
    BY DEF Next, Checker, vars, ReadStatus, Baseline, DirectBefore, DirectPing, DirectRead,
           DirectFails, FallbackBefore, Install, InstallFails, FallbackPing, QuietPasses,
           FallbackRead, ConfirmPing, FallbackFails, Cleanup, CleanupFails, Finish, Signal,
           Background
  <2>4. tx = base
    BY <2>3 DEF ConfirmRead, Goto
  <2> QED
    BY <2>1, <2>2, <2>4
<1>2. [][Real]_vars <=> FallbackIsReal
  BY PTL DEF FallbackIsReal
<1>3. MeshcheckInv /\ [Next]_vars => [Real]_vars
  BY <1>1
<1> QED
  BY <1>2, <1>3, MeshcheckInvariant, PTL DEF Spec

==============================================================================
