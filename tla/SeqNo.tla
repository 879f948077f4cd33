------------------------------- MODULE SeqNo -------------------------------
(***************************************************************************)
(* The circular sequence-number arithmetic of class CSeqNo                 *)
(* (src/core/common.h).  The code fixes m_iSeqNoTH = 0x3FFFFFFF and        *)
(* m_iMaxSeqNo = 0x7FFFFFFF; here both are parameters, so that a small     *)
(* sequence space wraps within a few steps.                                *)
(***************************************************************************)
EXTENDS Integers

CONSTANTS SeqNoTH,     \* m_iSeqNoTH: threshold for comparing sequence numbers
          MaxSeqNo     \* m_iMaxSeqNo: the largest sequence number

ASSUME SeqNoAssumption == /\ SeqNoTH \in Nat \ {0}
                          /\ MaxSeqNo = 2 * SeqNoTH + 1

SeqNos == 0 .. MaxSeqNo

SeqDist(a, b) == IF a < b THEN b - a ELSE a - b

\* Mutant of seqcmp: compares as plain integers, without the wrap.
MutSeqcmp(seq1, seq2) == seq1 - seq2

seqcmp(seq1, seq2) ==
  IF SeqDist(seq1, seq2) < SeqNoTH THEN seq1 - seq2 ELSE seq2 - seq1

\* Mutant of seqlen: off by one when the range crosses the wrap.
MutSeqlen(seq1, seq2) ==
  IF seq1 <= seq2 THEN seq2 - seq1 + 1 ELSE seq2 - seq1 + MaxSeqNo + 1

seqlen(seq1, seq2) ==
  IF seq1 <= seq2 THEN seq2 - seq1 + 1 ELSE seq2 - seq1 + MaxSeqNo + 2

\* Mutant of seqoff: the wrapped branch forgets that 0 is a sequence number.
MutSeqoff(seq1, seq2) ==
  IF SeqDist(seq1, seq2) < SeqNoTH
  THEN seq2 - seq1
  ELSE IF seq1 < seq2 THEN seq2 - seq1 - MaxSeqNo
                      ELSE seq2 - seq1 + MaxSeqNo

seqoff(seq1, seq2) ==
  IF SeqDist(seq1, seq2) < SeqNoTH
  THEN seq2 - seq1
  ELSE IF seq1 < seq2 THEN seq2 - seq1 - MaxSeqNo - 1
                      ELSE seq2 - seq1 + MaxSeqNo + 1

incseq(seq) == IF seq = MaxSeqNo THEN 0 ELSE seq + 1

decseq(seq) == IF seq = 0 THEN MaxSeqNo ELSE seq - 1

\* The two-argument overload incseq(seq, inc), for inc >= 0.
incseqBy(seq, inc) ==
  IF MaxSeqNo - seq >= inc THEN seq + inc ELSE seq - MaxSeqNo + inc - 1
=============================================================================
