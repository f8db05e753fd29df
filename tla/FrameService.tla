---------------------------- MODULE FrameService ----------------------------
(***************************************************************************)
(* What the bridge promises a host, with no clock, no bytes in flight and  *)
(* no handshakes: one frame at a time is executed or refused, and each is  *)
(* answered once, with a reply that says what really happened to it.       *)
(*                                                                         *)
(* A frame is the sequence of its bytes after the start marker: command,   *)
(* address, payload, CRC.  A cut frame is one whose tail never arrived.    *)
(***************************************************************************)
EXTENDS BusProtocol, SequencesExt

VARIABLES phase,     \* "listening", "executing" or "answering"
          job,       \* the frame at hand, <<>> while listening
          outcome,   \* [status, data] to be answered
          reply      \* the reply just completed, until it is forgotten

serviceVars == <<phase, job, outcome, reply>>

FrameLen(cmd) == IF cmd = CMD_RESET THEN 2 ELSE 6 + PayloadBytes(cmd)

WholeFrame(f) == f # <<>> /\ Len(f) = FrameLen(f[1])
CrcAgrees(f)  == Last(f) = CrcOf(Front(f))
LegalFrame(f) == /\ WholeFrame(f) /\ CmdValid(f[1]) /\ f[1] # CMD_RESET
                 /\ CrcAgrees(f)

(* Why a frame is refused.  A reserved SIZE is reported before a bad CRC.   *)
Refusal(f) == IF ~WholeFrame(f) THEN STATUS_TIMEOUT
              ELSE IF ~CmdValid(f[1]) THEN STATUS_CMD_INV ELSE STATUS_CRC_ERR

BytesRead(cmd) == (LenField(cmd) + 1) * BeatSize(cmd)

Body(f, o) == <<o.status, f[1]>>
              \o (IF IsRead(f[1]) /\ o.status = STATUS_OK
                  THEN SubSeq(f, 2, 5) \o o.data ELSE <<>>)

(* r answers frame f with outcome o.  Of a frame cut right after its marker *)
(* nothing is known, so the echoed command may be any.                      *)
Answers(r, f, o) ==
    /\ Len(r) >= 4 /\ r[1] = 90
    /\ Last(r) = CrcOf(SubSeq(r, 2, Len(r) - 1))
    /\ IF f = <<>> THEN Len(r) = 4 /\ r[2] = STATUS_TIMEOUT
                   ELSE SubSeq(r, 2, Len(r) - 1) = Body(f, o)

Nothing == [status |-> STATUS_OK, data |-> <<>>]

ServiceInit == phase = "listening" /\ job = <<>> /\ outcome = Nothing /\ reply = <<>>

Accept == /\ phase = "listening" /\ phase' = "executing"
          /\ LegalFrame(job')
          /\ outcome' = Nothing /\ reply' = <<>>

Refuse == /\ phase = "listening" /\ phase' = "answering"
          /\ ~LegalFrame(job')
          /\ outcome' = [status |-> Refusal(job'), data |-> <<>>] /\ reply' = <<>>

Execute == /\ phase = "executing" /\ phase' = "answering"
           /\ outcome'.status \in Status \ {STATUS_CRC_ERR, STATUS_CMD_INV}
           /\ Len(outcome'.data) =
                 IF IsRead(job[1]) /\ outcome'.status = STATUS_OK THEN BytesRead(job[1]) ELSE 0
           /\ UNCHANGED <<job, reply>>

Answer == /\ phase = "answering" /\ phase' = "listening"
          /\ Answers(reply', job, outcome)
          /\ job' = <<>> /\ outcome' = Nothing

Forget == /\ phase = "listening" /\ reply' = <<>> /\ UNCHANGED <<phase, job, outcome>>

ServiceNext == Accept \/ Refuse \/ Execute \/ Answer \/ Forget

ServiceSpec == ServiceInit /\ [][ServiceNext]_serviceVars
=============================================================================
