------------------------- MODULE SketchStreamProofs -------------------------
(***************************************************************************)
(* Proofs about SketchStream: what a report copies is a state that the     *)
(* device's sketch had, reports do not go back in time, and a collector    *)
(* that is in time never writes past its buffer.                           *)
(***************************************************************************)
EXTENDS SketchStream, TLAPS

-----------------------------------------------------------------------------
(* The inductive invariant.                                                *)

\* A sketch is the versions its two halves are of.
Pairs == Int \X Int

\* A whole version, or what was never written.
IsWhole(v) == v[1] = v[2]

\* Version v is not after w, half by half.
NotAfter(v, w) == v[1] <= w[1] /\ v[2] <= w[2]

\* The types.  Both ends count what is on the stream, and len is what of a
\* frame has been received.
TypeInv ==
    /\ dev \in Nat \X Nat
    /\ buf \in Pairs
    /\ sent \in Seq(Nat \X Nat)
    /\ asm \in Pairs
    /\ sketch \in Pairs
    /\ copy \in Pairs
    /\ rcvd \in Nat
    /\ len \in 0 .. (FrameLen - 1)
    /\ late \in BOOLEAN
    /\ overrun \in BOOLEAN
    /\ hpc \in {"idle", "first", "second"}
    /\ dpc \in {"connect", "sleep", "first", "second", "send", "exit"}
    /\ rpc \in {"accept", "frame", "install", "first", "second", "crashed"}
    /\ ppc \in {"idle", "first", "second"}

\* Who is between the two halves of a sketch holds its mutex, and nothing is
\* received before there is a connection.
LockInv ==
    /\ dpc = "connect" => rpc = "accept"
    /\ hpc # "idle" <=> devLock = "handler"
    /\ dpc \in {"first", "second"} <=> devLock = "monitor"
    /\ rpc \in {"first", "second"} <=> srvLock = "receiver"
    /\ ppc # "idle" <=> srvLock = "report"

\* What the device sends is whole, and in the order of its states.
DeviceInv ==
    /\ IF hpc = "second" THEN dev[1] = dev[2] + 1 ELSE IsWhole(dev)
    /\ dpc = "second" => buf[1] = dev[1]
    /\ dpc = "send" => IsWhole(buf) /\ buf[2] \in Nat /\ NotAfter(buf, dev)
    /\ \A k \in DOMAIN sent :
          /\ IsWhole(sent[k])
          /\ NotAfter(sent[k], dev)
          /\ dpc = "send" => NotAfter(sent[k], buf)
    /\ \A j, k \in DOMAIN sent : j <= k => NotAfter(sent[j], sent[k])

\* The frames that came before the one being received are whole: k of them.
Behind(k) == rcvd = k * FrameLen + len

\* The collector receives what was sent and no more.  As long as the device
\* never sent while an earlier frame was still under way, at most one frame is
\* outstanding and nothing has been written past the buffer.
StreamInv ==
    /\ rcvd <= FrameLen * Len(sent)
    /\ ~overrun => \E k \in Nat : Behind(k)
    /\ ~late => Outstanding <= FrameLen
    /\ ~late => ~overrun

\* v is a sketch that was never installed, or that was sent and received.
Received(v) ==
    \/ v = Uninitialised
    \/ \E k \in DOMAIN sent : v = sent[k] /\ k * FrameLen <= rcvd

\* What the collector installs and copies was sent, and never before what it
\* replaces.
CollectorInv ==
    ~overrun =>
        /\ rpc \in {"install", "first", "second"} =>
              \E k \in DOMAIN sent : asm = sent[k] /\ rcvd = k * FrameLen
        /\ rpc # "second" => Received(sketch)
        /\ rpc = "second" => /\ sketch[1] = asm[1]
                             /\ sketch[2] <= asm[2]
        /\ NotAfter(copy, sketch)
        /\ ppc # "second" => Received(copy)
        /\ ppc = "second" => copy[1] = sketch[1]

\* The inductive invariant.
IInv == TypeInv /\ LockInv /\ DeviceInv /\ StreamInv /\ CollectorInv

-----------------------------------------------------------------------------
(* Arithmetic of whole frames, and the halves of a sketch.                 *)

\* Multiples of a frame are ordered as their factors are.
LEMMA FramesOrdered ==
  ASSUME NEW F \in Nat \ {0}, NEW j \in Nat, NEW k \in Nat, j * F <= k * F
  PROVE  j <= k
OBVIOUS

\* A stream that has not ended is in its last frame when it is less than a
\* frame behind.
LEMMA FrameCount ==
  ASSUME NEW F \in Nat \ {0}, NEW k \in Nat, NEW m \in Nat, NEW l \in 0 .. (F - 1),
         k * F + l < m * F, m * F <= k * F + l + F
  PROVE  m = k + 1
OBVIOUS

\* The end of the k-th frame divides into k frames.
LEMMA FrameEnds ==
  ASSUME NEW F \in Nat \ {0}, NEW k \in Nat
  PROVE  (k * F) % F = 0 /\ (k * F) \div F = k
OBVIOUS

\* A position that is the end of a frame is as many frames as it divides into.
LEMMA FrameDivides ==
  ASSUME NEW F \in Nat \ {0}, NEW p \in Nat, p % F = 0
  PROVE  p = (p \div F) * F /\ p \div F \in Nat
OBVIOUS

\* One frame more.
LEMMA FramePlus ==
  ASSUME NEW F \in Nat, NEW k \in Nat
  PROVE  (k + 1) * F = k * F + F /\ k * F \in Nat /\ F * k = k * F
OBVIOUS

\* The indices and the elements of a sequence.
LEMMA SeqElements ==
  ASSUME NEW S, NEW s \in Seq(S)
  PROVE  \A k \in DOMAIN s : k \in Nat /\ s[k] \in S
OBVIOUS

\* Half a sketch is written and the other half stays.
LEMMA HalfWritten ==
  ASSUME NEW S, NEW v \in S \X S, NEW x \in S
  PROVE  /\ [v EXCEPT ![1] = x] = <<x, v[2]>>
         /\ [v EXCEPT ![2] = x] = <<v[1], x>>
OBVIOUS

\* One more sketch is sent.
LEMMA AppendKeeps ==
  ASSUME NEW S, NEW q \in Seq(S), NEW x \in S, NEW k \in DOMAIN q
  PROVE  k \in DOMAIN Append(q, x) /\ Append(q, x)[k] = q[k]
OBVIOUS

\* And its domain grows by one.
LEMMA Appended ==
  ASSUME NEW S, NEW q \in Seq(S), NEW x \in S
  PROVE  /\ DOMAIN Append(q, x) = DOMAIN q \cup {Len(q) + 1}
         /\ Append(q, x)[Len(q) + 1] = x
         /\ \A k \in DOMAIN q : Append(q, x)[k] = q[k] /\ k < Len(q) + 1
OBVIOUS

-----------------------------------------------------------------------------
(* The inductive invariant.                                                *)

LEMMA InitIInv == Init => IInv
<1> SUFFICES ASSUME Init PROVE IInv
  OBVIOUS
<1> USE StreamAssumption DEF Init
<1>1. TypeInv
  <2>1. <<0, 0>> \in Nat \X Nat /\ <<-1, -1>> \in Int \X Int
    OBVIOUS
  <2>2. 0 \in 0 .. (FrameLen - 1)
    OBVIOUS
  <2>3. <<>> \in Seq(Nat \X Nat)
    OBVIOUS
  <2> QED
    BY <2>1, <2>2, <2>3 DEF TypeInv, Pairs, Whole, Uninitialised
<1> USE DEF Whole, Uninitialised
<1>2. LockInv
  BY DEF LockInv
<1>3. DeviceInv
  BY DEF DeviceInv, IsWhole
<1>4. StreamInv
  <2>1. Behind(0) /\ 0 \in Nat
    BY DEF Behind
  <2> QED
    BY <2>1 DEF StreamInv, Outstanding
<1>5. CollectorInv
  BY DEF CollectorInv, NotAfter, Received
<1> QED
  BY <1>1, <1>2, <1>3, <1>4, <1>5 DEF IInv

\* Every step keeps the types.
LEMMA TypeInvStep ==
  ASSUME IInv, [Next]_vars
  PROVE  TypeInv'
<1> USE StreamAssumption DEF vars, device, monitor, receiver, server, report
<1>1. ASSUME HandlerLocks PROVE TypeInv'
  BY <1>1 DEF IInv, TypeInv, HandlerLocks
<1>2. ASSUME HandlerInserts PROVE TypeInv'
  <2>1. CASE hpc = "first"
    <3>1. dev' = <<dev[1] + 1, dev[2]>> /\ dev[1] + 1 \in Nat
      BY <1>2, <2>1, HalfWritten DEF HandlerInserts, IInv, TypeInv
    <3> QED
      BY <1>2, <2>1, <3>1 DEF HandlerInserts, IInv, TypeInv
  <2>2. CASE hpc = "second"
    <3>1. dev' = <<dev[1], dev[2] + 1>> /\ dev[2] + 1 \in Nat
      BY <1>2, <2>2, HalfWritten DEF HandlerInserts, IInv, TypeInv
    <3> QED
      BY <1>2, <2>2, <3>1 DEF HandlerInserts, IInv, TypeInv
  <2> QED
    BY <1>2, <2>1, <2>2 DEF HandlerInserts
<1>3. ASSUME ConnectFailed PROVE TypeInv'
  BY <1>3 DEF IInv, TypeInv, ConnectFailed
<1>4. ASSUME Connected PROVE TypeInv'
  BY <1>4 DEF IInv, TypeInv, Connected
<1>5. ASSUME MonitorLocks PROVE TypeInv'
  BY <1>5 DEF IInv, TypeInv, MonitorLocks
<1>6. ASSUME MonitorCopies PROVE TypeInv'
  <2>1. dev[1] \in Int /\ dev[2] \in Int
    BY DEF IInv, TypeInv
  <2>2. CASE dpc = "first"
    <3>1. buf' = <<dev[1], buf[2]>>
      BY <1>6, <2>1, <2>2, HalfWritten DEF MonitorCopies, IInv, TypeInv, Pairs
    <3> QED
      BY <1>6, <2>1, <2>2, <3>1 DEF MonitorCopies, IInv, TypeInv, Pairs
  <2>3. CASE dpc = "second"
    <3>1. buf' = <<buf[1], dev[2]>>
      BY <1>6, <2>1, <2>3, HalfWritten DEF MonitorCopies, IInv, TypeInv, Pairs
    <3> QED
      BY <1>6, <2>1, <2>3, <3>1 DEF MonitorCopies, IInv, TypeInv, Pairs
  <2> QED
    BY <1>6, <2>2, <2>3 DEF MonitorCopies
<1>7. ASSUME MonitorSends PROVE TypeInv'
  <2>1. buf \in Nat \X Nat
    BY <1>7 DEF MonitorSends, IInv, TypeInv, DeviceInv, IsWhole, Pairs
  <2>2. sent' \in Seq(Nat \X Nat)
    BY <1>7, <2>1 DEF MonitorSends, IInv, TypeInv
  <2> QED
    BY <1>7, <2>2 DEF MonitorSends, IInv, TypeInv, Outstanding
<1>8. ASSUME MonitorSendFails PROVE TypeInv'
  BY <1>8 DEF IInv, TypeInv, MonitorSendFails
<1>9. ASSUME Receive PROVE TypeInv'
  <2> USE DEF IInv, TypeInv
  <2>1. PICK r \in 1 .. BufSiz :
           /\ r <= Outstanding
           /\ rcvd' = rcvd + r
           /\ len' = NextLen(len + r)
           /\ \/ len + r < FrameLen /\ UNCHANGED <<rpc, asm, overrun>>
              \/ /\ len + r = FrameLen
                 /\ asm' = FrameEndingAt(rcvd')
                 /\ rpc' = "install"
                 /\ UNCHANGED overrun
              \/ /\ len + r > FrameLen
                 /\ overrun' = TRUE
                 /\ rpc' \in {"frame", "crashed"}
                 /\ UNCHANGED asm
    BY <1>9 DEF Receive
  <2>2. r \in Nat /\ rcvd' \in Nat /\ len' \in 0 .. (FrameLen - 1)
    BY <2>1 DEF NextLen
  <2>3. rcvd' \div FrameLen \in DOMAIN sent \/ rcvd' % FrameLen # 0
    <3> DEFINE q == rcvd' \div FrameLen
    <3> SUFFICES ASSUME rcvd' % FrameLen = 0 PROVE q \in 1 .. Len(sent)
      OBVIOUS
    <3>1. rcvd' = q * FrameLen /\ q \in Nat
      BY <2>2, FrameDivides
    <3>2. rcvd' <= Len(sent) * FrameLen /\ Len(sent) \in Nat /\ rcvd' > 0
      BY <2>1, <2>2, FramePlus DEF Outstanding
    <3> HIDE DEF q
    <3>3. q <= Len(sent)
      BY <3>1, <3>2, FramesOrdered
    <3>4. q # 0
      BY <3>1, <3>2
    <3> QED
      BY <3>1, <3>2, <3>3, <3>4
  <2>4. FrameEndingAt(rcvd') \in Pairs
    <3>1. sent \in Seq(Nat \X Nat)
      OBVIOUS
    <3> HIDE DEF IInv, TypeInv
    <3>2. \A k \in DOMAIN sent : sent[k] \in Pairs
      <4>1. \A k \in DOMAIN sent : sent[k] \in Nat \X Nat
        BY <3>1
      <4> QED
        BY <4>1 DEF Pairs
    <3>3. Torn \in Pairs
      BY DEF Torn, Whole, Pairs
    <3> QED
      BY <2>3, <3>2, <3>3 DEF FrameEndingAt
  <2> QED
    BY <1>9, <2>1, <2>2, <2>4 DEF Receive
<1>10. ASSUME InstallLocks PROVE TypeInv'
  BY <1>10 DEF IInv, TypeInv, InstallLocks
<1>11. ASSUME Install PROVE TypeInv'
  <2>1. asm[1] \in Int /\ asm[2] \in Int
    BY DEF IInv, TypeInv, Pairs
  <2>2. CASE rpc = "first"
    <3>1. sketch' = <<asm[1], sketch[2]>>
      BY <1>11, <2>1, <2>2, HalfWritten DEF Install, IInv, TypeInv, Pairs
    <3> QED
      BY <1>11, <2>1, <2>2, <3>1 DEF Install, IInv, TypeInv, Pairs
  <2>3. CASE rpc = "second"
    <3>1. sketch' = <<sketch[1], asm[2]>>
      BY <1>11, <2>1, <2>3, HalfWritten DEF Install, IInv, TypeInv, Pairs
    <3> QED
      BY <1>11, <2>1, <2>3, <3>1 DEF Install, IInv, TypeInv, Pairs
  <2> QED
    BY <1>11, <2>2, <2>3 DEF Install
<1>12. ASSUME ReportLocks PROVE TypeInv'
  BY <1>12 DEF IInv, TypeInv, ReportLocks
<1>13. ASSUME ReportCopies PROVE TypeInv'
  <2>1. sketch[1] \in Int /\ sketch[2] \in Int
    BY DEF IInv, TypeInv, Pairs
  <2>2. CASE ppc = "first"
    <3>1. copy' = <<sketch[1], copy[2]>>
      BY <1>13, <2>1, <2>2, HalfWritten DEF ReportCopies, IInv, TypeInv, Pairs
    <3> QED
      BY <1>13, <2>1, <2>2, <3>1 DEF ReportCopies, IInv, TypeInv, Pairs
  <2>3. CASE ppc = "second"
    <3>1. copy' = <<copy[1], sketch[2]>>
      BY <1>13, <2>1, <2>3, HalfWritten DEF ReportCopies, IInv, TypeInv, Pairs
    <3> QED
      BY <1>13, <2>1, <2>3, <3>1 DEF ReportCopies, IInv, TypeInv, Pairs
  <2> QED
    BY <1>13, <2>2, <2>3 DEF ReportCopies
<1>14. ASSUME UNCHANGED vars PROVE TypeInv'
  BY <1>14 DEF IInv, TypeInv
<1> QED
  BY <1>1, <1>2, <1>3, <1>4, <1>5, <1>6, <1>7, <1>8, <1>9, <1>10, <1>11, <1>12, <1>13,
     <1>14 DEF Next, Handler, Monitor, Receiver, Report

\* Every step respects the mutexes: each is released by whoever took it.
LEMMA LockInvStep ==
  ASSUME IInv, [Next]_vars
  PROVE  LockInv'
<1> USE StreamAssumption DEF vars, device, monitor, receiver, server, report
<1>1. ASSUME HandlerLocks PROVE LockInv'
  BY <1>1 DEF IInv, LockInv, HandlerLocks
<1>2. ASSUME HandlerInserts PROVE LockInv'
  BY <1>2 DEF IInv, LockInv, HandlerInserts
<1>3. ASSUME ConnectFailed PROVE LockInv'
  BY <1>3 DEF IInv, LockInv, ConnectFailed
<1>4. ASSUME Connected PROVE LockInv'
  BY <1>4 DEF IInv, LockInv, Connected
<1>5. ASSUME MonitorLocks PROVE LockInv'
  BY <1>5 DEF IInv, LockInv, MonitorLocks
<1>6. ASSUME MonitorCopies PROVE LockInv'
  BY <1>6 DEF IInv, LockInv, MonitorCopies
<1>7. ASSUME MonitorSends PROVE LockInv'
  BY <1>7 DEF IInv, LockInv, MonitorSends
<1>8. ASSUME MonitorSendFails PROVE LockInv'
  BY <1>8 DEF IInv, LockInv, MonitorSendFails
<1>9. ASSUME Receive PROVE LockInv'
  BY <1>9 DEF IInv, LockInv, Receive
<1>10. ASSUME InstallLocks PROVE LockInv'
  BY <1>10 DEF IInv, LockInv, InstallLocks
<1>11. ASSUME Install PROVE LockInv'
  BY <1>11 DEF IInv, LockInv, Install
<1>12. ASSUME ReportLocks PROVE LockInv'
  BY <1>12 DEF IInv, LockInv, ReportLocks
<1>13. ASSUME ReportCopies PROVE LockInv'
  BY <1>13 DEF IInv, LockInv, ReportCopies
<1>14. ASSUME UNCHANGED vars PROVE LockInv'
  BY <1>14 DEF IInv, LockInv
<1> QED
  BY <1>1, <1>2, <1>3, <1>4, <1>5, <1>6, <1>7, <1>8, <1>9, <1>10, <1>11, <1>12, <1>13,
     <1>14 DEF Next, Handler, Monitor, Receiver, Report

\* Whatever the device does, what it sends is whole and in order.
LEMMA DeviceInvStep ==
  ASSUME IInv, [Next]_vars
  PROVE  DeviceInv'
<1> USE StreamAssumption DEF vars, device, monitor, receiver, server, report
<1>1. ASSUME HandlerLocks PROVE DeviceInv'
  BY <1>1 DEF IInv, DeviceInv, HandlerLocks
<1>2. ASSUME HandlerInserts PROVE DeviceInv'
  <2> USE DEF IInv, TypeInv, LockInv
  <2>1. dpc \notin {"first", "second"}
    BY <1>2 DEF HandlerInserts
  <2>2. \A k \in DOMAIN sent : sent[k][1] \in Nat /\ sent[k][2] \in Nat
    <3>1. sent \in Seq(Nat \X Nat)
      OBVIOUS
    <3>2. \A k \in DOMAIN sent : sent[k] \in Nat \X Nat
      BY <3>1, SeqElements, Zenon
    <3> HIDE DEF IInv, TypeInv, LockInv
    <3> QED
      BY <3>2
  <2>3. CASE hpc = "first"
    <3>1. dev' = <<dev[1] + 1, dev[2]>>
      BY <1>2, <2>3, HalfWritten DEF HandlerInserts
    <3> QED
      <4>1. dev[1] = dev[2] /\ dev[1] \in Nat /\ dev[2] \in Nat
        BY <2>3 DEF DeviceInv, IsWhole
      <4>2. dev'[1] = dev[1] + 1 /\ dev'[2] = dev[2] /\ hpc' = "second"
        BY <1>2, <2>3, <3>1 DEF HandlerInserts
      <4>3. UNCHANGED <<dpc, buf, sent>>
        BY <1>2 DEF HandlerInserts
      <4>4. \A k \in DOMAIN sent : NotAfter(sent[k], dev')
        BY <2>2, <4>1, <4>2 DEF DeviceInv, NotAfter
      <4>5. dpc = "send" => NotAfter(buf, dev')
        BY <4>1, <4>2 DEF DeviceInv, NotAfter, IsWhole, Pairs
      <4> QED
        BY <2>1, <4>1, <4>2, <4>3, <4>4, <4>5 DEF DeviceInv
  <2>4. CASE hpc = "second"
    <3>1. dev' = <<dev[1], dev[2] + 1>>
      BY <1>2, <2>4, HalfWritten DEF HandlerInserts
    <3> QED
      BY <1>2, <2>1, <2>2, <2>4, <3>1 DEF HandlerInserts, DeviceInv, IsWhole, NotAfter
  <2> QED
    BY <1>2, <2>3, <2>4 DEF HandlerInserts
<1>3. ASSUME ConnectFailed PROVE DeviceInv'
  BY <1>3 DEF IInv, DeviceInv, ConnectFailed
<1>4. ASSUME Connected PROVE DeviceInv'
  BY <1>4 DEF IInv, DeviceInv, Connected
<1>5. ASSUME MonitorLocks PROVE DeviceInv'
  BY <1>5 DEF IInv, DeviceInv, MonitorLocks
<1>6. ASSUME MonitorCopies PROVE DeviceInv'
  <2> USE DEF IInv, TypeInv, LockInv
  <2>1. hpc # "second"
    BY <1>6 DEF MonitorCopies
  <2>2. CASE dpc = "first"
    <3>1. buf' = <<dev[1], buf[2]>>
      BY <1>6, <2>2, HalfWritten DEF MonitorCopies, Pairs
    <3> QED
      BY <1>6, <2>1, <2>2, <3>1 DEF MonitorCopies, DeviceInv, IsWhole, NotAfter
  <2>3. CASE dpc = "second"
    <3>1. buf' = <<buf[1], dev[2]>>
      BY <1>6, <2>3, HalfWritten DEF MonitorCopies, Pairs
    <3> QED
      <4>1. buf[1] = dev[1] /\ dev[1] = dev[2] /\ dev[1] \in Nat /\ dev[2] \in Nat
        BY <2>1, <2>3 DEF DeviceInv, IsWhole
      <4>2. buf' = <<dev[1], dev[2]>> /\ buf'[1] = dev[1] /\ buf'[2] = dev[2]
        BY <3>1, <4>1
      <4>3. UNCHANGED <<dev, hpc, sent>> /\ dpc' = "send"
        BY <1>6, <2>3 DEF MonitorCopies
      <4>4. IsWhole(buf') /\ buf'[2] \in Nat /\ NotAfter(buf', dev)
        BY <4>1, <4>2 DEF IsWhole, NotAfter
      <4>5. \A k \in DOMAIN sent : NotAfter(sent[k], buf')
        BY <4>2 DEF DeviceInv, NotAfter
      <4> QED
        BY <2>1, <4>3, <4>4, <4>5 DEF DeviceInv
  <2> QED
    BY <1>6, <2>2, <2>3 DEF MonitorCopies
<1>7. ASSUME MonitorSends PROVE DeviceInv'
  <2> USE DEF IInv, TypeInv
  <2>0. sent' = Append(sent, buf) /\ dpc = "send" /\ dpc' = "sleep" /\ UNCHANGED <<dev, hpc, buf>>
    BY <1>7 DEF MonitorSends
  <2>1. buf \in Nat \X Nat /\ sent \in Seq(Nat \X Nat)
    BY <2>0 DEF DeviceInv, IsWhole, Pairs
  <2>2. /\ DOMAIN sent' = DOMAIN sent \cup {Len(sent) + 1}
        /\ sent'[Len(sent) + 1] = buf
        /\ \A k \in DOMAIN sent : sent'[k] = sent[k] /\ k < Len(sent) + 1
    <3>1. /\ DOMAIN Append(sent, buf) = DOMAIN sent \cup {Len(sent) + 1}
          /\ Append(sent, buf)[Len(sent) + 1] = buf
          /\ \A k \in DOMAIN sent : Append(sent, buf)[k] = sent[k] /\ k < Len(sent) + 1
      BY <2>1, Appended, Zenon
    <3> QED
      BY <2>0, <3>1, Zenon
  <2>3. NotAfter(buf, dev) /\ IsWhole(buf)
    BY <2>0 DEF DeviceInv
  <2>4. NotAfter(buf, buf)
    BY <2>1 DEF NotAfter
  <2>5. \A k \in DOMAIN sent' : IsWhole(sent'[k]) /\ NotAfter(sent'[k], dev) /\ NotAfter(sent'[k], buf)
    BY <2>0, <2>2, <2>3, <2>4 DEF DeviceInv
  <2>6. \A j, k \in DOMAIN sent' : j <= k => NotAfter(sent'[j], sent'[k])
    <3> TAKE j, k \in DOMAIN sent'
    <3>1. CASE k = Len(sent) + 1
      BY <2>2, <2>5, <3>1
    <3>2. CASE k # Len(sent) + 1 /\ j = Len(sent) + 1
      BY <2>2, <3>2
    <3>3. CASE k # Len(sent) + 1 /\ j # Len(sent) + 1
      BY <2>2, <3>3 DEF DeviceInv
    <3> QED
      BY <3>1, <3>2, <3>3
  <2> QED
    BY <2>0, <2>5, <2>6 DEF DeviceInv, NotAfter, IsWhole
<1>8. ASSUME MonitorSendFails PROVE DeviceInv'
  BY <1>8 DEF IInv, DeviceInv, MonitorSendFails
<1>9. ASSUME Receive PROVE DeviceInv'
  BY <1>9 DEF IInv, DeviceInv, Receive
<1>10. ASSUME InstallLocks PROVE DeviceInv'
  BY <1>10 DEF IInv, DeviceInv, InstallLocks
<1>11. ASSUME Install PROVE DeviceInv'
  BY <1>11 DEF IInv, DeviceInv, Install
<1>12. ASSUME ReportLocks PROVE DeviceInv'
  BY <1>12 DEF IInv, DeviceInv, ReportLocks
<1>13. ASSUME ReportCopies PROVE DeviceInv'
  BY <1>13 DEF IInv, DeviceInv, ReportCopies
<1>14. ASSUME UNCHANGED vars PROVE DeviceInv'
  BY <1>14 DEF IInv, DeviceInv
<1> QED
  BY <1>1, <1>2, <1>3, <1>4, <1>5, <1>6, <1>7, <1>8, <1>9, <1>10, <1>11, <1>12, <1>13,
     <1>14 DEF Next, Handler, Monitor, Receiver, Report

\* However recv cuts the stream, a sketch begins where the one before ended,
\* until one was overrun; and none is while the collector is in time.
LEMMA StreamInvStep ==
  ASSUME IInv, [Next]_vars
  PROVE  StreamInv'
<1> USE StreamAssumption DEF vars, device, monitor, receiver, server, report
<1>1. ASSUME HandlerLocks PROVE StreamInv'
  BY <1>1 DEF IInv, StreamInv, Behind, Outstanding, HandlerLocks
<1>2. ASSUME HandlerInserts PROVE StreamInv'
  <2>1. UNCHANGED <<rcvd, len, sent, late, overrun>>
    BY <1>2 DEF HandlerInserts
  <2> QED
    BY <2>1 DEF IInv, StreamInv, Behind, Outstanding
<1>3. ASSUME ConnectFailed PROVE StreamInv'
  BY <1>3 DEF IInv, StreamInv, Behind, Outstanding, ConnectFailed
<1>4. ASSUME Connected PROVE StreamInv'
  BY <1>4 DEF IInv, StreamInv, Behind, Outstanding, Connected
<1>5. ASSUME MonitorLocks PROVE StreamInv'
  BY <1>5 DEF IInv, StreamInv, Behind, Outstanding, MonitorLocks
<1>6. ASSUME MonitorCopies PROVE StreamInv'
  <2>1. UNCHANGED <<rcvd, len, sent, late, overrun>>
    BY <1>6 DEF MonitorCopies
  <2> QED
    BY <2>1 DEF IInv, StreamInv, Behind, Outstanding
<1>7. ASSUME MonitorSends PROVE StreamInv'
  <2> USE DEF IInv, TypeInv
  <2>1. /\ sent' = Append(sent, buf)
        /\ Outstanding <= Lag
        /\ late' = (late \/ Outstanding > 0)
        /\ UNCHANGED <<rcvd, len, overrun>>
    BY <1>7 DEF MonitorSends
  <2>2. Len(sent') = Len(sent) + 1 /\ Len(sent) \in Nat
    BY <2>1
  <2>3. FrameLen * Len(sent') = FrameLen * Len(sent) + FrameLen /\ FrameLen * Len(sent) \in Nat
    BY <2>2, FramePlus
  <2>4. Outstanding' = Outstanding + FrameLen /\ Outstanding \in Int
    BY <2>1, <2>3 DEF Outstanding
  <2>5. rcvd' <= FrameLen * Len(sent')
    BY <2>1, <2>3 DEF StreamInv
  <2>6. ~overrun' => \E k \in Nat : Behind(k)'
    BY <2>1 DEF StreamInv, Behind
  <2>7. ~late' => Outstanding' <= FrameLen
    <3>1. ~late' => ~(Outstanding > 0)
      BY <2>1, Zenon
    <3> QED
      BY <2>4, <3>1
  <2> QED
    BY <2>1, <2>5, <2>6, <2>7 DEF StreamInv
<1>8. ASSUME MonitorSendFails PROVE StreamInv'
  BY <1>8 DEF IInv, StreamInv, Behind, Outstanding, MonitorSendFails
<1>9. ASSUME Receive PROVE StreamInv'
  <2> USE DEF IInv, TypeInv
  <2>1. PICK r \in 1 .. BufSiz :
           /\ r <= Outstanding
           /\ rcvd' = rcvd + r
           /\ len' = NextLen(len + r)
           /\ \/ len + r < FrameLen /\ UNCHANGED <<rpc, asm, overrun>>
              \/ /\ len + r = FrameLen
                 /\ asm' = FrameEndingAt(rcvd')
                 /\ rpc' = "install"
                 /\ UNCHANGED overrun
              \/ /\ len + r > FrameLen
                 /\ overrun' = TRUE
                 /\ rpc' \in {"frame", "crashed"}
                 /\ UNCHANGED asm
    BY <1>9 DEF Receive
  <2>2. UNCHANGED <<sent, late, sketch, copy, ppc>> /\ rpc = "frame"
    BY <1>9 DEF Receive
  <2>3. r \in Nat /\ FrameLen * Len(sent) \in Nat /\ Len(sent) \in Nat
    BY FramePlus

  <2>4. rcvd' <= FrameLen * Len(sent') /\ Outstanding' = Outstanding - r
    BY <2>1, <2>2, <2>3 DEF Outstanding
  <2>5. ~overrun' => ~overrun /\ len + r <= FrameLen
    BY <2>1
  <2>6. ASSUME ~overrun' PROVE \E k \in Nat : Behind(k)'
    <3>1. PICK k \in Nat : Behind(k)
      BY <2>5, <2>6 DEF StreamInv
    <3>2. CASE len + r < FrameLen
      <4>1. Behind(k)'
        BY <2>1, <2>3, <3>1, <3>2, FramePlus DEF Behind, NextLen
      <4> QED
        BY <4>1
    <3>3. CASE len + r = FrameLen
      <4>1. Behind(k + 1)'
        BY <2>1, <2>3, <3>1, <3>3, FramePlus DEF Behind, NextLen
      <4> QED
        BY <4>1
    <3> QED
      BY <2>5, <2>6, <3>2, <3>3
  <2>7. ASSUME ~late' PROVE ~overrun'
    <3>1. ~overrun /\ Outstanding <= FrameLen
      BY <2>2, <2>7 DEF StreamInv
    <3>2. PICK k \in Nat : Behind(k)
      BY <3>1 DEF StreamInv
    <3> DEFINE m == Len(sent)
    <3>3. k * FrameLen \in Nat /\ m * FrameLen \in Nat /\ FrameLen * m = m * FrameLen
      BY <2>3, FramePlus
    <3>4. k * FrameLen + len < m * FrameLen /\ k * FrameLen + len + r <= m * FrameLen
      BY <2>1, <2>3, <3>2, <3>3 DEF Behind, Outstanding
    <3>5. m * FrameLen <= k * FrameLen + len + FrameLen
      BY <3>1, <3>2, <3>3 DEF Behind, Outstanding
    <3>6. m = k + 1
      BY <2>3, <3>4, <3>5, FrameCount
    <3>7. m * FrameLen = k * FrameLen + FrameLen
      BY <3>6, FramePlus
    <3> QED
      BY <2>1, <2>3, <3>1, <3>3, <3>4, <3>7
  <2>8. ~late' => Outstanding' <= FrameLen
    BY <2>2, <2>3, <2>4 DEF StreamInv, Outstanding
  <2> QED
    BY <2>4, <2>6, <2>7, <2>8 DEF StreamInv
<1>10. ASSUME InstallLocks PROVE StreamInv'
  BY <1>10 DEF IInv, StreamInv, Behind, Outstanding, InstallLocks
<1>11. ASSUME Install PROVE StreamInv'
  <2>1. UNCHANGED <<rcvd, len, sent, late, overrun>>
    BY <1>11 DEF Install
  <2> QED
    BY <2>1 DEF IInv, StreamInv, Behind, Outstanding
<1>12. ASSUME ReportLocks PROVE StreamInv'
  BY <1>12 DEF IInv, StreamInv, Behind, Outstanding, ReportLocks
<1>13. ASSUME ReportCopies PROVE StreamInv'
  <2>1. UNCHANGED <<rcvd, len, sent, late, overrun>>
    BY <1>13 DEF ReportCopies
  <2> QED
    BY <2>1 DEF IInv, StreamInv, Behind, Outstanding
<1>14. ASSUME UNCHANGED vars PROVE StreamInv'
  BY <1>14 DEF IInv, StreamInv, Behind, Outstanding
<1> QED
  BY <1>1, <1>2, <1>3, <1>4, <1>5, <1>6, <1>7, <1>8, <1>9, <1>10, <1>11, <1>12, <1>13,
     <1>14 DEF Next, Handler, Monitor, Receiver, Report

\* What is installed and copied was sent, and is not older than what it
\* replaces.
LEMMA CollectorInvStep ==
  ASSUME IInv, [Next]_vars
  PROVE  CollectorInv'
<1> USE StreamAssumption DEF vars, device, monitor, receiver, server, report
<1>1. ASSUME HandlerLocks PROVE CollectorInv'
  BY <1>1 DEF IInv, CollectorInv, Received, HandlerLocks
<1>2. ASSUME HandlerInserts PROVE CollectorInv'
  BY <1>2 DEF IInv, CollectorInv, Received, HandlerInserts
<1>3. ASSUME ConnectFailed PROVE CollectorInv'
  BY <1>3 DEF IInv, CollectorInv, Received, ConnectFailed
<1>4. ASSUME Connected PROVE CollectorInv'
  <2>1. rpc = "accept" /\ rpc' = "frame" /\ UNCHANGED <<sent, rcvd, asm, sketch, copy, ppc, overrun>>
    BY <1>4 DEF Connected, IInv, LockInv
  <2> QED
    BY <2>1 DEF IInv, CollectorInv, Received, NotAfter
<1>5. ASSUME MonitorLocks PROVE CollectorInv'
  BY <1>5 DEF IInv, CollectorInv, Received, MonitorLocks
<1>6. ASSUME MonitorCopies PROVE CollectorInv'
  BY <1>6 DEF IInv, CollectorInv, Received, MonitorCopies
<1>7. ASSUME MonitorSends PROVE CollectorInv'
  <2> USE DEF IInv, TypeInv
  <2>1. sent' = Append(sent, buf) /\ UNCHANGED <<rcvd, rpc, asm, sketch, copy, ppc, overrun>>
    BY <1>7 DEF MonitorSends
  <2> buf \in Nat \X Nat /\ sent \in Seq(Nat \X Nat)
    BY <1>7 DEF MonitorSends, DeviceInv, IsWhole, Pairs
  <2> HIDE DEF IInv, TypeInv
  <2>2. \A k \in DOMAIN sent : k \in DOMAIN sent' /\ sent'[k] = sent[k]
    <3>1. \A k \in DOMAIN sent :
             k \in DOMAIN Append(sent, buf) /\ Append(sent, buf)[k] = sent[k]
      <4> DEFINE T == Nat \X Nat
      <4>1. sent \in Seq(T) /\ buf \in T
        OBVIOUS
      <4> HIDE DEF T
      <4> QED
        BY <4>1, AppendKeeps
    <3>2. sent' = Append(sent, buf)
      BY <2>1
    <3> QED
      BY <3>1, <3>2, Zenon
  <2>3. (Received(sketch) => Received(sketch)') /\ (Received(copy) => Received(copy)')
    BY <2>1, <2>2 DEF Received
  <2> QED
    BY <2>1, <2>2, <2>3 DEF CollectorInv, NotAfter, IInv
<1>8. ASSUME MonitorSendFails PROVE CollectorInv'
  BY <1>8 DEF IInv, CollectorInv, Received, MonitorSendFails
<1>9. ASSUME Receive PROVE CollectorInv'
  <2> USE DEF IInv, TypeInv
  <2>1. PICK r \in 1 .. BufSiz :
           /\ r <= Outstanding
           /\ rcvd' = rcvd + r
           /\ len' = NextLen(len + r)
           /\ \/ len + r < FrameLen /\ UNCHANGED <<rpc, asm, overrun>>
              \/ /\ len + r = FrameLen
                 /\ asm' = FrameEndingAt(rcvd')
                 /\ rpc' = "install"
                 /\ UNCHANGED overrun
              \/ /\ len + r > FrameLen
                 /\ overrun' = TRUE
                 /\ rpc' \in {"frame", "crashed"}
                 /\ UNCHANGED asm
    BY <1>9 DEF Receive
  <2>2. UNCHANGED <<sent, late, sketch, copy, ppc>> /\ rpc = "frame"
    BY <1>9 DEF Receive
  <2>3. r \in Nat /\ FrameLen * Len(sent) \in Nat /\ Len(sent) \in Nat
    BY FramePlus

  <2>4. SUFFICES ASSUME ~overrun' PROVE CollectorInv'
    BY DEF CollectorInv
  <2>5. ~overrun /\ len + r <= FrameLen
    BY <2>1, <2>4
  <2>6. (Received(sketch) => Received(sketch)') /\ (Received(copy) => Received(copy)')
    <3>1. \A k \in DOMAIN sent : k * FrameLen <= rcvd => k * FrameLen <= rcvd'
      <4> TAKE k \in DOMAIN sent
      <4>1. k * FrameLen \in Nat
        <5>1. sent \in Seq(Nat \X Nat)
          OBVIOUS
        <5>2. k \in Nat /\ FrameLen \in Nat
          BY <5>1, SeqElements
        <5> QED
          BY <5>2, FramePlus, Zenon
      <4> QED
        BY <2>1, <2>3, <4>1
    <3> QED
      BY <2>2, <3>1 DEF Received
  <2>7. /\ Received(sketch) /\ NotAfter(copy, sketch)
        /\ ppc # "second" => Received(copy)
        /\ ppc = "second" => copy[1] = sketch[1]
    BY <2>2, <2>5 DEF CollectorInv
  <2>8. ASSUME rpc' = "install"
        PROVE  \E k \in DOMAIN sent : asm' = sent[k] /\ rcvd' = k * FrameLen
    <3>1. len + r = FrameLen /\ asm' = FrameEndingAt(rcvd')
      BY <2>1, <2>2, <2>5, <2>8
    <3>2. PICK k \in Nat : Behind(k)
      BY <2>5 DEF StreamInv
    <3>3. rcvd' = (k + 1) * FrameLen /\ k + 1 \in Nat
      BY <2>1, <2>3, <3>1, <3>2, FramePlus DEF Behind
    <3>4. rcvd' % FrameLen = 0 /\ rcvd' \div FrameLen = k + 1
      BY <3>3, FrameEnds
    <3>5. (k + 1) * FrameLen <= Len(sent) * FrameLen
      BY <2>1, <2>3, <3>3, FramePlus DEF Outstanding
    <3>6. k + 1 <= Len(sent)
      <4> DEFINE q == k + 1
      <4>1. q \in Nat /\ q * FrameLen <= Len(sent) * FrameLen
        BY <3>5
      <4> HIDE DEF q
      <4>2. q <= Len(sent)
        BY <2>3, <4>1, FramesOrdered
      <4> QED
        BY <4>2 DEF q
    <3>7. k + 1 \in DOMAIN sent
      BY <3>6
    <3> QED
      BY <3>1, <3>3, <3>4, <3>7 DEF FrameEndingAt
  <2>9. rpc' \in {"frame", "install"}
    BY <2>1, <2>2, <2>5
  <2> QED
    BY <2>2, <2>6, <2>7, <2>8, <2>9 DEF CollectorInv, NotAfter
<1>10. ASSUME InstallLocks PROVE CollectorInv'
  BY <1>10 DEF IInv, CollectorInv, Received, InstallLocks
<1>11. ASSUME Install PROVE CollectorInv'
  <2> USE DEF IInv, TypeInv, LockInv
  <2>1. SUFFICES ASSUME ~overrun' PROVE CollectorInv'
    BY DEF CollectorInv
  <2>2. UNCHANGED <<sent, rcvd, asm, copy, ppc, overrun>> /\ rpc \in {"first", "second"} /\ ~overrun
    BY <1>11, <2>1 DEF Install
  <2>3. ppc = "idle"
    BY <2>2
  <2>4. PICK k \in DOMAIN sent : asm = sent[k] /\ rcvd = k * FrameLen
    BY <2>2 DEF CollectorInv
  <2>0. asm \in Nat \X Nat /\ asm = <<asm[1], asm[2]>>
    <3>1. sent \in Seq(Nat \X Nat)
      OBVIOUS
    <3>2. sent[k] \in Nat \X Nat
      BY <3>1
    <3> QED
      BY <2>4, <3>2
  <2>5. /\ sketch[1] \in Int /\ sketch[2] \in Int /\ asm[1] \in Nat /\ asm[2] \in Nat
        /\ copy[1] \in Int /\ copy[2] \in Int
    BY <2>0 DEF Pairs
  <2>6. Received(copy)' /\ NotAfter(copy, sketch)
    BY <2>2, <2>3 DEF CollectorInv, Received
  <2>7. CASE rpc = "first"
    <3>1. sketch' = <<asm[1], sketch[2]>> /\ rpc' = "second"
      BY <1>11, <2>5, <2>7, HalfWritten DEF Install, Pairs
    <3>2. NotAfter(sketch, asm)
      <4>1. Received(sketch)
        BY <2>2, <2>7 DEF CollectorInv
      <4>2. CASE sketch = Uninitialised
        <5> HIDE DEF IInv, TypeInv, LockInv
        <5>1. sketch[1] = -1 /\ sketch[2] = -1
          BY <4>2 DEF Uninitialised, Whole
        <5> QED
          BY <2>5, <5>1 DEF NotAfter
      <4>3. ASSUME NEW j \in DOMAIN sent, sketch = sent[j], j * FrameLen <= rcvd PROVE NotAfter(sketch, asm)
        <5>1. j \in Nat /\ k \in Nat
          <6>1. sent \in Seq(Nat \X Nat)
            OBVIOUS
          <6> QED
            BY <6>1, SeqElements, Zenon
        <5>2. j <= k
          BY <2>4, <4>3, <5>1, FramesOrdered
        <5> QED
          BY <2>4, <4>3, <5>2 DEF DeviceInv
      <4> QED
        BY <4>1, <4>2, <4>3 DEF Received
    <3>3. NotAfter(copy', sketch')
      <4>1. sketch'[1] = asm[1] /\ sketch'[2] = sketch[2] /\ copy' = copy
        BY <2>2, <3>1
      <4> HIDE DEF IInv, TypeInv, LockInv
      <4>2. copy[1] <= asm[1] /\ copy[2] <= sketch[2] /\ copy[2] <= asm[2]
        BY <2>5, <2>6, <3>2 DEF NotAfter
      <4> QED
        BY <4>1, <4>2 DEF NotAfter
    <3>4. sketch'[1] = asm[1] /\ sketch'[2] <= asm[2]
      BY <3>1, <3>2 DEF NotAfter
    <3> QED
      BY <2>2, <2>3, <2>4, <2>6, <3>1, <3>3, <3>4 DEF CollectorInv, NotAfter
  <2>8. CASE rpc = "second"
    <3>1. sketch' = <<sketch[1], asm[2]>> /\ rpc' = "frame"
      BY <1>11, <2>5, <2>8, HalfWritten DEF Install, Pairs
    <3>2. sketch[1] = asm[1] /\ sketch[2] <= asm[2]
      BY <2>2, <2>8 DEF CollectorInv
    <3>3. sketch' = asm
      BY <2>0, <3>1, <3>2
    <3>4. NotAfter(copy', sketch')
      <4>1. sketch'[1] = asm[1] /\ sketch'[2] = asm[2] /\ copy' = copy
        BY <2>2, <3>3
      <4> HIDE DEF IInv, TypeInv, LockInv
      <4>2. copy[1] <= asm[1] /\ copy[2] <= sketch[2] /\ copy[2] <= asm[2]
        BY <2>5, <2>6, <3>2 DEF NotAfter
      <4> QED
        BY <4>1, <4>2 DEF NotAfter
    <3>5. k * FrameLen <= rcvd
      BY <2>4
    <3>6. Received(sketch)'
      BY <2>2, <2>4, <3>3, <3>5 DEF Received
    <3> QED
      BY <2>2, <2>3, <2>6, <3>1, <3>4, <3>6 DEF CollectorInv, NotAfter
  <2> QED
    BY <2>2, <2>7, <2>8
<1>12. ASSUME ReportLocks PROVE CollectorInv'
  BY <1>12 DEF IInv, CollectorInv, Received, ReportLocks
<1>13. ASSUME ReportCopies PROVE CollectorInv'
  <2> USE DEF IInv, TypeInv, LockInv
  <2>1. SUFFICES ASSUME ~overrun' PROVE CollectorInv'
    BY DEF CollectorInv
  <2>2. UNCHANGED <<sent, rcvd, rpc, asm, sketch, overrun>> /\ ppc \in {"first", "second"} /\ ~overrun
    BY <1>13, <2>1 DEF ReportCopies
  <2>3. rpc \notin {"first", "second"}
    BY <2>2
  <2>4. Received(sketch) /\ Received(sketch)' /\ NotAfter(copy, sketch)
    BY <2>2, <2>3 DEF CollectorInv, Received
  <2>5. /\ sketch[1] \in Int /\ sketch[2] \in Int /\ sketch = <<sketch[1], sketch[2]>>
        /\ copy[1] \in Int /\ copy[2] \in Int
    BY DEF Pairs
  <2>6. rpc = "install" => \E k \in DOMAIN sent : asm = sent[k] /\ rcvd = k * FrameLen
    BY <2>2 DEF CollectorInv
  <2>7. CASE ppc = "first"
    <3>1. copy' = <<sketch[1], copy[2]>> /\ ppc' = "second"
      BY <1>13, <2>5, <2>7, HalfWritten DEF ReportCopies, Pairs
    <3> QED
      BY <2>2, <2>3, <2>4, <2>5, <2>6, <3>1 DEF CollectorInv, NotAfter
  <2>8. CASE ppc = "second"
    <3>1. copy' = <<copy[1], sketch[2]>> /\ ppc' = "idle"
      BY <1>13, <2>5, <2>8, HalfWritten DEF ReportCopies, Pairs
    <3>2. copy[1] = sketch[1]
      BY <2>2, <2>8 DEF CollectorInv
    <3>3. copy' = sketch
      BY <2>5, <3>1, <3>2
    <3>4. Received(copy)'
      BY <2>2, <2>4, <3>3 DEF Received
    <3> QED
      BY <2>2, <2>3, <2>4, <2>5, <2>6, <3>1, <3>3, <3>4 DEF CollectorInv, NotAfter
  <2> QED
    BY <2>2, <2>7, <2>8
<1>14. ASSUME UNCHANGED vars PROVE CollectorInv'
  BY <1>14 DEF IInv, CollectorInv, Received
<1> QED
  BY <1>1, <1>2, <1>3, <1>4, <1>5, <1>6, <1>7, <1>8, <1>9, <1>10, <1>11, <1>12, <1>13,
     <1>14 DEF Next, Handler, Monitor, Receiver, Report

-----------------------------------------------------------------------------
(* What holds in every behaviour.                                          *)

\* The invariant holds at the start and after every step.
THEOREM Invariance == Spec => []IInv
<1>1. IInv /\ [Next]_vars => IInv'
  BY TypeInvStep, LockInvStep, DeviceInvStep, StreamInvStep, CollectorInvStep DEF IInv
<1> QED
  BY InitIInv, <1>1, PTL DEF Spec

\* What a report sees is a sketch that the device sent, or nothing.
THEOREM ReportsShowSnapshots == Spec => []ReportsAreSnapshots
<1>1. IInv => ReportsAreSnapshots
  BY DEF IInv, CollectorInv, Received, ReportsAreSnapshots
<1> QED
  BY Invariance, <1>1, PTL

\* The receiver stays within its buffer as long as the collector is in time.
THEOREM BufferSuffices == Spec => []NoOverrunInTime
<1>1. IInv => NoOverrunInTime
  BY DEF IInv, StreamInv, NoOverrunInTime
<1> QED
  BY Invariance, <1>1, PTL

\* The sketch that reports see does not go back in time.
THEOREM ReportsAdvance == Spec => ReportsNeverGoBack
<1>1. ASSUME IInv, [Next]_vars
      PROVE  [~overrun => \A half \in 1 .. 2 : copy'[half] >= copy[half]]_report
  <2> USE <1>1 DEF vars, device, monitor, receiver, server, report
  <2>1. CASE UNCHANGED copy
    <3>1. copy[1] \in Int /\ copy[2] \in Int
      BY DEF IInv, TypeInv, Pairs
    <3> QED
      BY <2>1, <3>1
  <2>2. ASSUME ReportCopies, ~overrun
        PROVE  copy'[1] >= copy[1] /\ copy'[2] >= copy[2]
    <3>1. /\ copy[1] \in Int /\ copy[2] \in Int /\ sketch[1] \in Int /\ sketch[2] \in Int
          /\ copy \in Int \X Int
      BY DEF IInv, TypeInv, Pairs
    <3>2. copy[1] <= sketch[1] /\ copy[2] <= sketch[2]
      BY <2>2 DEF IInv, CollectorInv, NotAfter
    <3>3. copy' = <<sketch[1], copy[2]>> \/ copy' = <<copy[1], sketch[2]>>
      BY <2>2, <3>1, HalfWritten DEF ReportCopies
    <3> HIDE <1>1
    <3> QED
      BY <3>1, <3>2, <3>3
  <2>3. UNCHANGED copy \/ ReportCopies
    BY DEF Next, Handler, Monitor, Receiver, Report, HandlerLocks, HandlerInserts,
       ConnectFailed, Connected, MonitorLocks, MonitorCopies, MonitorSends,
       MonitorSendFails, Receive, InstallLocks, Install, ReportLocks
  <2> QED
    BY <2>1, <2>2, <2>3
<1> QED
  BY Invariance, <1>1, PTL DEF Spec, ReportsNeverGoBack
=============================================================================
