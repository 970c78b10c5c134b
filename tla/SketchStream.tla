---------------------------- MODULE SketchStream ----------------------------
(***************************************************************************)
(* One device's sketch on its way to a report: the device's packet handler *)
(* updates it, its monitor thread copies it once a second and sends the    *)
(* copy, the collector's receiver reassembles the copy from the TCP stream *)
(* and installs it, and a report's process_data copies what is installed.  *)
(*                                                                         *)
(* A sketch is the pair of version numbers of its first and second half:   *)
(* an insert and a memcpy take two steps, so that the mutexes matter.      *)
(* Stream positions are counted in units of which a sketch has FrameLen    *)
(* and a recv returns at most BufSiz.                                      *)
(***************************************************************************)
EXTENDS Integers, Sequences, FiniteSets

CONSTANTS
    FrameLen,      \* sizeof(ElasticSketch)
    BufSiz,        \* BUFSIZ
    Lag,           \* units the collector may be behind when a copy is sent
    ConnectTries,  \* failed connects the monitor thread tolerates
    MaxPackets,    \* bound on the packets inserted
    MaxFrames      \* bound on the copies sent

ASSUME StreamAssumption ==
    /\ FrameLen \in Nat \ {0}
    /\ BufSiz \in 1 .. FrameLen
    /\ Lag \in Nat
    /\ {ConnectTries, MaxPackets, MaxFrames} \subseteq Nat

VARIABLES
    dev, devLock,      \* elastic, mtx of device.cpp
    hpc,               \* packetHandler
    dpc, tries, buf,   \* deliverSketch: where, timeout, buf
    sent, late,        \* the copies sent so far; was one sent while an
                       \* earlier one had not been received?
    rcvd,              \* stream units received so far
    rpc, len, asm,     \* recieveSketch: where, len, the sketch in buf
    overrun,           \* was buf written past its end?
    sketch, srvLock,   \* *ptr, mtx of server.cpp
    ppc, copy          \* process_data: where, its copy

device == <<dev, devLock, hpc>>
monitor == <<dpc, tries, buf, sent, late>>
receiver == <<rcvd, rpc, len, asm, overrun>>
server == <<sketch, srvLock>>
report == <<ppc, copy>>
vars == <<device, monitor, receiver, server, report>>

Whole(v) == <<v, v>>

\* The contents of memory that malloc returned, and of a sketch whose bytes
\* come from two different copies.
Uninitialised == Whole(-1)
Torn == Whole(-2)

Outstanding == FrameLen * Len(sent) - rcvd

-----------------------------------------------------------------------------
(* The device.                                                             *)

\* packetHandler: elastic->insert under mtx.
HandlerLocks ==
    /\ hpc = "idle"
    /\ devLock = "free"
    /\ dev[2] < MaxPackets
    /\ devLock' = "handler"
    /\ hpc' = "first"
    /\ UNCHANGED <<dev, monitor, receiver, server, report>>

HandlerInserts ==
    \/ /\ hpc = "first"
       /\ dev' = [dev EXCEPT ![1] = @ + 1]
       /\ hpc' = "second"
       /\ UNCHANGED <<devLock, monitor, receiver, server, report>>
    \/ /\ hpc = "second"
       /\ dev' = [dev EXCEPT ![2] = @ + 1]
       /\ hpc' = "idle"
       /\ devLock' = "free"
       /\ UNCHANGED <<monitor, receiver, server, report>>

\* deliverSketch: connect, sleeping between tries.
ConnectFailed ==
    /\ dpc = "connect"
    /\ tries' = tries + 1
    /\ dpc' = IF tries' > ConnectTries THEN "exit" ELSE "connect"
    /\ UNCHANGED <<buf, sent, late, device, receiver, server, report>>

\* The connection is made and the device's number is sent; the collector
\* reads it and adds a sketch it has allocated but not cleared.
Connected ==
    /\ dpc = "connect"
    /\ dpc' = "sleep"
    /\ rpc' = "frame"
    /\ UNCHANGED <<tries, buf, sent, late, rcvd, len, asm, overrun, device, server,
                   report>>

MonitorLocks ==
    /\ dpc = "sleep"
    /\ devLock = "free"
    /\ Len(sent) < MaxFrames
    /\ devLock' = "monitor"
    /\ dpc' = "first"
    /\ UNCHANGED <<dev, hpc, tries, buf, sent, late, receiver, server, report>>

\* Faulty variant: the device's sketch is cleared once it is copied.
MonitorCopiesAndClears ==
    \/ /\ dpc = "first"
       /\ buf' = [buf EXCEPT ![1] = dev[1]]
       /\ dpc' = "second"
       /\ UNCHANGED <<devLock, dev, hpc, tries, sent, late, receiver, server, report>>
    \/ /\ dpc = "second"
       /\ buf' = [buf EXCEPT ![2] = dev[2]]
       /\ dev' = Whole(0)
       /\ dpc' = "send"
       /\ devLock' = "free"
       /\ UNCHANGED <<hpc, tries, sent, late, receiver, server, report>>

MonitorCopies ==
    \/ /\ dpc = "first"
       /\ buf' = [buf EXCEPT ![1] = dev[1]]
       /\ dpc' = "second"
       /\ UNCHANGED <<devLock, dev, hpc, tries, sent, late, receiver, server, report>>
    \/ /\ dpc = "second"
       /\ buf' = [buf EXCEPT ![2] = dev[2]]
       /\ dpc' = "send"
       /\ devLock' = "free"
       /\ UNCHANGED <<dev, hpc, tries, sent, late, receiver, server, report>>

\* send blocks until TCP has taken all of it.  Lag bounds how far behind the
\* collector is by then, which the second between two copies keeps small.
MonitorSends ==
    /\ dpc = "send"
    /\ rpc # "crashed"
    /\ Outstanding <= Lag
    /\ sent' = Append(sent, buf)
    /\ late' = (late \/ Outstanding > 0)
    /\ dpc' = "sleep"
    /\ UNCHANGED <<tries, buf, device, receiver, server, report>>

\* The collector is gone: send fails and the device exits.
MonitorSendFails ==
    /\ dpc = "send"
    /\ rpc = "crashed"
    /\ dpc' = "exit"
    /\ UNCHANGED <<tries, buf, sent, late, device, receiver, server, report>>

-----------------------------------------------------------------------------
(* The collector.                                                          *)

\* What the FrameLen units of the stream up to position last spell.
FrameEndingAt(last) ==
    IF last % FrameLen = 0 THEN sent[last \div FrameLen] ELSE Torn

\* Faulty variant: the length of a sketch that is complete stays.
NextLenKept(total) == IF total <= FrameLen THEN total ELSE 0

\* len, once total units of a sketch are there.
NextLen(total) == IF total < FrameLen THEN total ELSE 0

\* One recv: any part of what has arrived, at most BufSiz, with no regard to
\* how much of the sketch is missing.  Past the end of buf the behaviour is
\* undefined: it goes on or it crashes.  Only a length that is exact is
\* installed; anything longer is dropped, and the next sketch starts there.
Receive ==
    /\ rpc = "frame"
    /\ \E r \in 1 .. BufSiz :
          /\ r <= Outstanding
          /\ rcvd' = rcvd + r
          /\ LET total == len + r
             IN /\ len' = NextLen(total)
                /\ \/ total < FrameLen /\ UNCHANGED <<rpc, asm, overrun>>
                   \/ /\ total = FrameLen
                      /\ asm' = FrameEndingAt(rcvd')
                      /\ rpc' = "install"
                      /\ UNCHANGED overrun
                   \/ /\ total > FrameLen
                      /\ overrun' = TRUE
                      /\ rpc' \in {"frame", "crashed"}
                      /\ UNCHANGED asm
    /\ UNCHANGED <<device, monitor, server, report>>

\* Faulty variant: mtx is not waited for.
InstallWithoutLock ==
    /\ rpc = "install"
    /\ rpc' = "first"
    /\ UNCHANGED <<rcvd, len, asm, overrun, server, device, monitor, report>>

\* Faulty variant: try_lock, and the copy is dropped when mtx is taken.
InstallTriesLock ==
    /\ rpc = "install"
    /\ IF srvLock = "free"
         THEN srvLock' = "receiver" /\ rpc' = "first"
         ELSE rpc' = "frame" /\ UNCHANGED srvLock
    /\ UNCHANGED <<rcvd, len, asm, overrun, sketch, device, monitor, report>>

InstallLocks ==
    /\ rpc = "install"
    /\ srvLock = "free"
    /\ srvLock' = "receiver"
    /\ rpc' = "first"
    /\ UNCHANGED <<rcvd, len, asm, overrun, sketch, device, monitor, report>>

Install ==
    \/ /\ rpc = "first"
       /\ sketch' = [sketch EXCEPT ![1] = asm[1]]
       /\ rpc' = "second"
       /\ UNCHANGED <<srvLock, rcvd, len, asm, overrun, device, monitor, report>>
    \/ /\ rpc = "second"
       /\ sketch' = [sketch EXCEPT ![2] = asm[2]]
       /\ rpc' = "frame"
       /\ srvLock' = "free"
       /\ UNCHANGED <<rcvd, len, asm, overrun, device, monitor, report>>

\* process_data, once per report: memcpy under mtx.
ReportLocks ==
    /\ ppc = "idle"
    /\ rpc \notin {"accept", "crashed"}
    /\ srvLock = "free"
    /\ srvLock' = "report"
    /\ ppc' = "first"
    /\ UNCHANGED <<copy, sketch, device, monitor, receiver>>

ReportCopies ==
    \/ /\ ppc = "first"
       /\ rpc # "crashed"
       /\ copy' = [copy EXCEPT ![1] = sketch[1]]
       /\ ppc' = "second"
       /\ UNCHANGED <<server, device, monitor, receiver>>
    \/ /\ ppc = "second"
       /\ rpc # "crashed"
       /\ copy' = [copy EXCEPT ![2] = sketch[2]]
       /\ ppc' = "idle"
       /\ srvLock' = "free"
       /\ UNCHANGED <<sketch, device, monitor, receiver>>

-----------------------------------------------------------------------------
Init ==
    /\ dev = Whole(0)
    /\ devLock = "free"
    /\ hpc = "idle"
    /\ dpc = "connect"
    /\ tries = 0
    /\ buf = Uninitialised
    /\ sent = <<>>
    /\ late = FALSE
    /\ rcvd = 0
    /\ rpc = "accept"
    /\ len = 0
    /\ asm = Uninitialised
    /\ overrun = FALSE
    /\ sketch = Uninitialised
    /\ srvLock = "free"
    /\ ppc = "idle"
    /\ copy = Uninitialised

\* exit() in the monitor thread ends the device's other threads too.
Handler == dpc # "exit" /\ (HandlerLocks \/ HandlerInserts)
Monitor ==
    \/ ConnectFailed \/ Connected
    \/ MonitorLocks \/ MonitorCopies \/ MonitorSends \/ MonitorSendFails
Receiver == Receive \/ InstallLocks \/ Install
Report == ReportLocks \/ ReportCopies

Next == Handler \/ Monitor \/ Receiver \/ Report

\* The scheduler runs every thread.  The receiver and the handler also take a
\* contended mutex eventually, since its holders sleep between two uses.
Fairness ==
    /\ WF_vars(Handler) /\ WF_vars(Monitor) /\ WF_vars(Receiver) /\ WF_vars(Report)
    /\ SF_vars(InstallLocks) /\ SF_vars(MonitorLocks)

Spec == Init /\ [][Next]_vars /\ Fairness

-----------------------------------------------------------------------------
(* Properties.                                                             *)

\* What a report sees is a state the device's sketch really had when it was
\* copied, or memory nothing was installed in; bytes of two copies are never
\* installed as one sketch before buf was overrun.
ReportsAreSnapshots ==
    (ppc = "idle" /\ ~overrun) =>
        copy \in {Uninitialised} \cup {sent[k] : k \in DOMAIN sent}

\* The receiver reads past the end of a sketch only if the collector was
\* already behind when the next one was sent, though it never asks for just
\* what is missing: one that is in time is cut where it ends, however recv
\* splits it.
NoOverrunInTime == ~late => ~overrun

\* The sketch of a device never goes back in time from one report to the
\* next, as long as the collector keeps up.
ReportsNeverGoBack ==
    [][~overrun => \A half \in 1 .. 2 : copy'[half] >= copy[half]]_report

\* Every copy sent, or a later one, is installed in the end, as long as the
\* collector keeps up: none is lost to the way the stream is cut into pieces.
CopiesArrive ==
    \A k \in 1 .. MaxFrames :
        (Len(sent) >= k) ~> (overrun \/ (Len(sent) >= k /\ sketch[2] >= sent[k][2]))
=============================================================================
