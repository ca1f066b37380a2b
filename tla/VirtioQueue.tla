----------------------------- MODULE VirtioQueue ----------------------------
(***************************************************************************)
(* The virtqueues in use.  A driver has one chain of descriptors per       *)
(* queue, always the same one, private copies of the indices it published, *)
(* and a completion test "used = what I published last".  The device takes *)
(* and finishes what is published whenever it likes, in any order.  The    *)
(* driver gives up after Tries waits (IrqWait models the waiting itself),  *)
(* and net_bypass_direct_send lets the kernel use the transmit queue       *)
(* behind the driver's back.                                               *)
(***************************************************************************)
EXTENDS Virtio

CONSTANTS
  IdxMod,      \* 2^16
  Tries,       \* MAX_WAIT_RETRIES of handle_io and handle_send_frame
  MaxRequests, MaxFrames   \* bounds: requests submitted, frames arriving

ASSUME QueueAssumption ==
  QueueSize \in Nat \ {0} /\ IdxMod \in Nat \ {0, 1} /\ IdxMod % QueueSize = 0 /\ Tries \in Nat \ {0}

VARIABLES
  kind,     \* "blk" or "net"
  phase,    \* the boot script sends through the driver, then by itself
  drv,      \* the driver: what it does, its private indices, its request
  ring,     \* request queue memory: indices and what the one chain describes
  dev,      \* the device's side of it
  rxq,      \* the receive queue and its one buffer
  answer,   \* the last answer about a request
  frame     \* the last PollFrame that found one, as the network stack sees it

qvars == <<kind, phase, drv, ring, dev, rxq, answer, frame>>

Fresh == 255   \* the status byte before the device wrote it

QueueInit ==
  /\ kind \in {"blk", "net"} /\ phase = "standard"
  /\ drv  = [at |-> "idle", next |-> 0, req |-> 0, tries |-> 0, alone |-> TRUE, rx |-> 1]
  /\ ring = [avail |-> 0, used |-> 0, buf |-> 0, data |-> 0, status |-> Fresh]
  /\ dev  = [seen |-> 0, flight |-> {}, done |-> {}, broken |-> FALSE]
  /\ rxq  = [avail |-> 1, used |-> 0, len |-> [i \in 0 .. QueueSize - 1 |-> 0], buf |-> 0, arrived |-> 0]
  /\ answer = [req |-> 0, ok |-> FALSE, alone |-> TRUE] /\ frame = [len |-> 0, nth |-> 0]

Inc(i)         == (i + 1) % IdxMod
Between(a, b)  == (b - a + IdxMod) % IdxMod
Outstanding    == Between(ring.used, ring.avail)

\* publish_and_notify: the one chain, under the next index of the driver's own
\* count.
Submitted(fresh) ==
  /\ drv.at = "idle" /\ drv.req < MaxRequests
  /\ Outstanding < IdxMod - 1   \* bound: requests given up on
  /\ drv'  = [drv EXCEPT !.at = "wait", !.next = Inc(@), !.req = @ + 1, !.tries = 0,
                         !.alone = Outstanding = 0]
  /\ ring' = [ring EXCEPT !.avail = Inc(drv.next), !.buf = drv.req + 1, !.status = fresh]
  /\ UNCHANGED <<kind, phase, dev, rxq, answer, frame>>

\* submit_request: header, three descriptors, a status byte.
SubmitRequest == kind = "blk" /\ Submitted(Fresh)

\* submit_tx_request: one descriptor; the script orders its sends.
\* mutant of SubmitTxRequest: a request starts with no regard to the order
SubmitTxRequestAnyTime == kind = "net" /\ phase # "polling" /\ Submitted(ring.status)

SubmitTxRequest == kind = "net" /\ phase = "standard" /\ Submitted(ring.status)

\* The device: it reads the chain when it takes an index, and the payload
\* then or when it finishes; more than the ring holds is a broken ring.
DeviceTake ==
  /\ ~dev.broken /\ dev.seen # ring.avail
  /\ dev' = IF Between(dev.seen, ring.avail) > QueueSize THEN [dev EXCEPT !.broken = TRUE]
            ELSE [dev EXCEPT !.seen = Inc(@), !.flight = @ \cup {[i |-> dev.seen, req |-> ring.buf]}]
  /\ UNCHANGED <<kind, phase, drv, ring, rxq, answer, frame>>

DeviceFinish ==
  \E f \in dev.flight, status \in IF kind = "net" THEN {0} ELSE {0, 1} :
    \E req \in {f.req, ring.buf} :
      /\ dev'  = [dev EXCEPT !.flight = @ \ {f}, !.done = IF status = 0 THEN @ \cup {req} ELSE @]
      /\ ring' = [ring EXCEPT !.used = Inc(@), !.data = req, !.status = status]
      /\ UNCHANGED <<kind, phase, drv, rxq, answer, frame>>

CompletionPending   == ring.used = drv.next
TxCompletionPending == ring.used = drv.next

\* After a Wait: the request is done, waited for once more or given up on.
AfterWait(pending, success) ==
  /\ drv.at = "wait"
  /\ \/ /\ pending
        /\ drv' = [drv EXCEPT !.at = "idle"]
        /\ answer' = [req |-> drv.req, ok |-> success, alone |-> drv.alone]
     \/ /\ ~pending /\ drv.tries + 1 < Tries
        /\ drv' = [drv EXCEPT !.tries = @ + 1] /\ UNCHANGED answer
     \/ /\ ~pending /\ drv.tries + 1 >= Tries
        /\ drv' = [drv EXCEPT !.at = "idle"]
        /\ answer' = [req |-> drv.req, ok |-> FALSE, alone |-> drv.alone]
  /\ UNCHANGED <<kind, phase, ring, dev, rxq, frame>>

HandleIo        == kind = "blk" /\ AfterWait(CompletionPending, ring.status = 0)
HandleSendFrame == kind = "net" /\ AfterWait(TxCompletionPending, TRUE)   \* no status byte

\* A frame arrives: the nth has length n.
DeviceReceive ==
  /\ kind = "net" /\ rxq.used # rxq.avail /\ rxq.arrived < MaxFrames
  /\ rxq' = [rxq EXCEPT !.used = Inc(@), !.len[rxq.used % QueueSize] = rxq.arrived + 1,
                        !.buf = rxq.arrived + 1, !.arrived = @ + 1]
  /\ UNCHANGED <<kind, phase, drv, ring, dev, answer, frame>>

\* poll_rx: the length from the used ring, then the buffer is posted again,
\* before the network stack has read it.
PostRxBuffer == drv' = [drv EXCEPT !.rx = Inc(@)] /\ rxq' = [rxq EXCEPT !.avail = Inc(drv.rx)]

HandlePollFrame ==
  /\ kind = "net" /\ drv.at = "idle" /\ rxq.used = drv.rx
  /\ frame' = [len |-> rxq.len[((drv.rx - 1 + IdxMod) % IdxMod) % QueueSize], nth |-> rxq.arrived]
  /\ PostRxBuffer
  /\ UNCHANGED <<kind, phase, ring, dev, answer>>

\* The boot script goes on to the kernel's own sends.
StartBypass ==
  /\ kind = "net" /\ phase = "standard" /\ drv.at = "idle"
  /\ phase' = "bypass"
  /\ UNCHANGED <<kind, drv, ring, dev, rxq, answer, frame>>

(***************************************************************************)
(* net_bypass_direct_send: refuse while something is outstanding, else the *)
(* driver's descriptor and buffer, the index after the one in memory, and  *)
(* a bounded poll.                                                         *)
(***************************************************************************)
BypassSend ==
  /\ phase = "bypass" /\ drv.req < MaxRequests
  /\ ring.used = ring.avail
  /\ phase' = "polling"
  /\ drv'  = [drv EXCEPT !.req = @ + 1]   \* numbers the frame; the index is not touched
  /\ ring' = [ring EXCEPT !.avail = Inc(@), !.buf = drv.req + 1]
  /\ UNCHANGED <<kind, dev, rxq, answer, frame>>

BypassPolled ==
  /\ phase = "polling"
  /\ answer' = [req |-> drv.req, ok |-> ring.used = ring.avail, alone |-> TRUE]
  /\ phase' = "bypass"
  /\ UNCHANGED <<kind, drv, ring, dev, rxq, frame>>

QueueDriver == SubmitRequest \/ SubmitTxRequest \/ HandleIo \/ HandleSendFrame \/ HandlePollFrame \/ StartBypass \/ BypassSend \/ BypassPolled
QueueNext   == QueueDriver \/ DeviceTake \/ DeviceFinish \/ DeviceReceive
QueueSpec   == QueueInit /\ [][QueueNext]_qvars
-----------------------------------------------------------------------------
(***************************************************************************)
(* What a driver reports about its device is so.  A frame reported sent    *)
(* went out, also after frames it gave up on; a block request reported     *)
(* complete is the one whose data lie in the buffer, if none given up on   *)
(* was outstanding when it was submitted (submit_request says none ever    *)
(* is: "never issues a second request before this one's completion is      *)
(* observed"); the length PollFrame answers is that of the frame that was  *)
(* in the buffer.                                                          *)
(***************************************************************************)
AnswersMatchDevice ==
  /\ answer.ok /\ (kind = "net" \/ answer.alone) => answer.req \in dev.done
  /\ kind = "blk" /\ answer.ok /\ answer.alone /\ drv.at = "idle" => ring.data = answer.req
  /\ kind = "net" => frame.len = frame.nth
=============================================================================
