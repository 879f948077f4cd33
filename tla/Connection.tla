----------------------------- MODULE Connection -----------------------------
(***************************************************************************)
(* One direction of a connection: a Sender and a Receiver joined by a      *)
(* network that loses, repeats, delays and reorders datagrams.  The        *)
(* network is the two histories of what was sent, wire and acks: either    *)
(* end may receive any datagram of its history at any time, again, or      *)
(* never.  The connection is established and nobody closes it.             *)
(***************************************************************************)
EXTENDS Sender, Receiver

ASSUME ConnectionAssumption ==
  /\ PeerISN = ISN             \* the handshake hands the sender's m_iISN over
  /\ MaxPkts = MaxEnqueued

cvars == <<vars, rvars>>

CInit == Init /\ RInit

SenderStep == /\ \/ App \/ Snd
                 \/ \E p \in acks : ProcessAck(p[1], p[2])
                 \/ RcvStep
              /\ UNCHANGED rvars

ReceiverStep == /\ \/ \E p \in wire : processData(p[1], p[2])
                   \/ DataSignal \/ Reader
                /\ UNCHANGED vars

CNext == SenderStep \/ ReceiverStep

CSpec == CInit /\ [][CNext]_cvars

(***************************************************************************)
(* Fairness: that of the threads of the two ends, and a network that does  *)
(* not fail forever: the last transmission that MaxTx allows a packet, and *)
(* its acknowledgement, arrive.                                            *)
(***************************************************************************)
DataArrives(s) == <<s, MaxTx>> \in wire /\ processData(s, MaxTx) /\ UNCHANGED vars
AckArrives(s) == <<s, MaxTx>> \in acks /\ ProcessAck(s, MaxTx) /\ UNCHANGED rvars

CFairness ==
  /\ WF_cvars(AppStep /\ UNCHANGED rvars)
  /\ SF_cvars(Snd /\ UNCHANGED rvars)
  /\ WF_cvars(RcvStep /\ UNCHANGED rvars)
  /\ SF_cvars(OldestOverdue /\ UNCHANGED rvars)
  /\ WF_cvars(DataSignal /\ UNCHANGED vars)
  /\ WF_cvars(Reader /\ UNCHANGED vars)
  /\ \A i \in 0 .. MaxEnqueued - 1 : /\ SF_cvars(DataArrives(incseqBy(ISN, i)))
                                     /\ SF_cvars(AckArrives(incseqBy(ISN, i)))

CFairSpec == CSpec /\ CFairness

-----------------------------------------------------------------------------
(* Properties. *)

\* The stream as the applications see it: each packet send() has queued adds its
\* bytes to the input, recv() produces the output.
Stream == INSTANCE ReliableStream
          WITH input <- [j \in 1 .. enqueued * PktLen |-> StreamByte(j)],
               output <- delivered

\* The connection implements the reliable stream: retransmissions, late and
\* repeated acknowledgements and the ring buffers never reorder, repeat or invent
\* data.
StreamRefined == Stream!SSpec

ReceivedInSequence(seq) == seqoff(rcvLastAck, seq) < 0

\* Given a receive buffer with room for all that may be out, no data is lost between
\* the tracker and the receive buffer, although each end acts on datagrams of any age:
\* the sender forgets a packet only after the receiver has taken it.
NothingLost ==
  \A i \in 0 .. enqueued - 1 :
    LET seq == incseqBy(ISN, i)
    IN  seq \in Recorded \/ ReceivedInSequence(seq) \/ \E k \in Slots : unit[k] = seq

\* With such a buffer, all that send() has queued is delivered by recv() in the end;
\* only a sender that dies with unacknowledged packets in its tracker keeps it back.
StreamDelivered ==
  Len(delivered) < enqueued * PktLen
    ~> (Len(delivered) = enqueued * PktLen \/ (fatal # "no" /\ Recorded # {}))

\* An acknowledged packet has been received: it is in the receive buffer or it has
\* been taken from there in sequence.
AckedIsReceived ==
  \A p \in acks : ReceivedInSequence(p[1]) \/ \E k \in Slots : unit[k] = p[1]
=============================================================================
