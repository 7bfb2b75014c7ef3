------------------------------ MODULE Transcript ------------------------------
(***************************************************************************)
(* Transcripts of a TLS connection and the parts of them that are made     *)
(* known: core/src/transcript.rs and common/src/transcript.rs.             *)
(*                                                                         *)
(* A transcript is a function from the directions to sequences of bytes.   *)
(* An Idx, a RangeSet in the code, is the set of its positions; position   *)
(* i of the code is i + 1 here, so that the end of an Idx is its greatest  *)
(* member.  A reference to a value of the VM is that value.                *)
(***************************************************************************)
EXTENDS Naturals, Sequences, FiniteSets, SequencesExt

Directions == {"Sent", "Received"}

\* Byte 0 stands in the places that are not authenticated.
Filler == 0

\* The option of the code.
None == <<>>
Some(x) == <<x>>

-----------------------------------------------------------------------------
\* Idx.

end(idx) == IF idx = {} THEN 0 ELSE Max(idx)

Positions(idx) == SetToSortSeq(idx, LAMBDA i, j : i < j)

\* The bytes at the positions of idx, in order.
index_ranges(data, idx) == [n \in 1..Cardinality(idx) |-> data[Positions(idx)[n]]]

\* The maximal ranges of idx, in order.
iter_ranges(idx) ==
  LET Maximal(r) == r[1]..r[2] \subseteq idx /\ r[1] - 1 \notin idx /\ r[2] + 1 \notin idx
  IN  SetToSortSeq({r \in idx \X idx : r[1] <= r[2] /\ Maximal(r)}, LAMBDA r, s : r[1] < s[1])

\* Data written over dest at the positions of idx.
copy_to(dest, idx, data) ==
  LET Rank(i) == Cardinality({j \in idx : j <= i})
  IN  [i \in DOMAIN dest |-> IF i \in idx THEN data[Rank(i)] ELSE dest[i]]

-----------------------------------------------------------------------------
\* Transcript and Subsequence.

Lengths(t) == [d \in Directions |-> Len(t[d])]

Subsequence(idx, data) == IF Cardinality(idx) = Len(data) THEN Some([idx |-> idx, data |-> data]) ELSE None

get(t, d, idx) == IF end(idx) > Len(t[d]) THEN None ELSE Subsequence(idx, index_ranges(t[d], idx))

Zeros(n) == [i \in 1..n |-> Filler]
EmptyPartial(lengths) ==
  [data |-> [d \in Directions |-> Zeros(lengths[d])], authed |-> [d \in Directions |-> {}]]

\* Transcript.to_partial; it panics when a range is out of bounds.
InBounds(t, idxs) == \A d \in Directions : end(idxs[d]) <= Len(t[d])
to_partial(t, idxs) ==
  [data |-> [d \in Directions |-> [i \in DOMAIN t[d] |-> IF i \in idxs[d] THEN t[d][i] ELSE Filler]],
   authed |-> idxs]

-----------------------------------------------------------------------------
\* PartialTranscript.

is_complete(p) == \A d \in Directions : Cardinality(p.authed[d]) = Len(p.data[d])
unauthed(p, d) == (1..Len(p.data[d])) \ p.authed[d]
iter(p, d) == index_ranges(p.data[d], p.authed[d])

\* The bytes of p stay where both are authenticated.
union_transcript(p, q) ==
  [data |-> [d \in Directions |-> [i \in DOMAIN p.data[d] |->
               IF i \in q.authed[d] \ p.authed[d] THEN q.data[d][i] ELSE p.data[d][i]]],
   authed |-> [d \in Directions |-> p.authed[d] \union q.authed[d]]]

union_subsequence(p, dir, seq) ==
  [data |-> [p.data EXCEPT ![dir] = copy_to(@, seq.idx, seq.data)],
   authed |-> [p.authed EXCEPT ![dir] = @ \union seq.idx]]

set_unauthed(p, value) ==
  [p EXCEPT !.data = [d \in Directions |-> [i \in DOMAIN p.data[d] |->
                        IF i \in unauthed(p, d) THEN value ELSE p.data[d][i]]]]

\* What is sent of a partial transcript, and what is made of it on arrival.
compress(p) == [data |-> [d \in Directions |-> iter(p, d)], idx |-> p.authed,
                total |-> [d \in Directions |-> Len(p.data[d])]]
ValidCompressed(c) ==
  \A d \in Directions : Len(c.data[d]) = Cardinality(c.idx[d]) /\ end(c.idx[d]) <= c.total[d]
decompress(c) ==
  [data |-> [d \in Directions |-> copy_to(Zeros(c.total[d]), c.idx[d], c.data[d])], authed |-> c.idx]

-----------------------------------------------------------------------------
\* Records of the connection: type and text, the plaintext and its reference
\* each known or not.

Record(typ, text, ref) == [typ |-> typ, text |-> text, ref |-> ref]
IsApplicationData(r) == r.typ = "ApplicationData"
DataRecords(rs) == SelectSeq(rs, IsApplicationData)

\* IncompleteTranscript when a text, or a reference, is missing.
Complete(rs, field) == \A i \in DOMAIN DataRecords(rs) : DataRecords(rs)[i][field] # None
Values(rs, field) == [i \in DOMAIN DataRecords(rs) |-> DataRecords(rs)[i][field][1]]
to_transcript(records) == [d \in Directions |-> FlattenSeq(Values(records[d], "text"))]
to_transcript_refs(records) == [d \in Directions |-> Values(records[d], "ref")]

\* Mutant: a range that ends with the reference goes on to the next one.
RangeEnds_Strict(range, stop) == range[2] < stop
\* Whether nothing of the range lies behind the reference.
RangeEnds(range, stop) == range[2] <= stop

\* TranscriptRefs.get: the slices of the references that make up idx.  The
\* loop goes over the ranges of idx and, never back, over the references.
refs_get(refs, idx) ==
  LET ranges == iter_ranges(idx)
      Start(s) == Len(FlattenSeq(SubSeq(refs, 1, s - 1)))
      Stop(s) == Start(s) + Len(refs[s])
      Slice(r, s) == LET from == IF ranges[r][1] > Start(s) THEN ranges[r][1] ELSE Start(s) + 1
                         to   == IF ranges[r][2] < Stop(s) THEN ranges[r][2] ELSE Stop(s)
                     IN  IF from <= to THEN <<SubSeq(refs[s], from - Start(s), to - Start(s))>> ELSE <<>>
      walk[r \in 1..Len(ranges) + 1, s \in 1..Len(refs) + 1] ==
        CASE r > Len(ranges) -> Some(<<>>)
          [] r <= Len(ranges) /\ s > Len(refs) -> None
          [] r <= Len(ranges) /\ s <= Len(refs) ->
               LET rest == IF RangeEnds(ranges[r], Stop(s)) THEN walk[r + 1, s] ELSE walk[r, s + 1]
               IN  IF rest = None THEN None ELSE Some(Slice(r, s) \o rest[1])
  IN  IF idx = {} THEN Some(<<>>) ELSE walk[1, 1]
===============================================================================
