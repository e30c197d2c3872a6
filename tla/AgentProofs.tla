----------------------------- MODULE AgentProofs -----------------------------
(***************************************************************************)
(* What a turn of the agent shows the model, runs for it and stores, for   *)
(* any tools, decisions, budgets and parallelism (AgentTurn), and what the *)
(* request of each of its steps holds, for any session, any limits and any *)
(* retrieved text (ContextBudget).                                         *)
(***************************************************************************)
EXTENDS AgentTurn, ContextBudget, TLAPS, FiniteSetTheorems, SequenceTheorems

-----------------------------------------------------------------------------
(* The inductive invariant of a turn.                                      *)

Told == {"succeeded"} \union Visible
Ended == {"succeeded", "failed", "badargs", "error", "cancelled"}
Call == [id : Nat, tool : STRING, args : {"ok", "bad"}]
Message == [role : {"assistant"}, items : Seq(Nat)] \union [role : {"tool"}, items : Seq(Told)]
Execution == [started : BOOLEAN, outcome : {"none"} \union Told \union Failures]
Received == [started : BOOLEAN, outcome : Ended]
Result == [call : Nat, started : BOOLEAN, outcome : Ended]
Entry == [calls : Seq(Nat), execs : Seq(Execution), sent : SUBSET Nat]

Indices == 1 .. Len(calls)

BatchTypes ==
    /\ calls \in Seq(Call) /\ Len(calls) > 0
    /\ results \in [Indices -> {"none"} \union Told]
    /\ execs \in [Indices -> {Untouched} \union Received]
    /\ routine \in [Indices -> {"none", "launched", "out", "waiting", "cancelling", "done"}]
    /\ resultCh \in Seq(Result)
    /\ firstErr \in {"none"} \union Failures
    /\ sent \subseteq Indices

\* The group is an interval of calls that may overlap, or one call; what
\* comes before it has its result, what comes after it is untouched.
Placed(lo, hi) ==
    /\ lo <= hi /\ group = lo .. hi /\ launched \subseteq group
    /\ lo = hi \/ \A k \in lo .. hi : calls[k].tool \in ParallelSafe
    /\ \A i \in Indices : i < lo => execs[i] # Untouched
    /\ \A i \in Indices \ launched : i >= lo => execs[i] = Untouched /\ i \notin sent

GroupPlaced == \E lo, hi \in Indices : Placed(lo, hi)

\* The execution and the result of one call agree.
ResultAccounted(i) ==
    /\ execs[i] = Untouched => results[i] = "none"
    /\ execs[i] # Untouched =>
         /\ i \in sent => execs[i].started
         /\ execs[i].outcome \notin Failures => results[i] = execs[i].outcome
         /\ firstErr = "none" => execs[i].outcome \notin Failures

\* And so does its goroutine.
CallAccounted(i) ==
    /\ routine[i] = "none" <=> i \notin launched
    /\ routine[i] = "launched" => i \notin sent
    /\ routine[i] \in {"launched", "out", "waiting", "cancelling"} => execs[i] = Untouched
    /\ ResultAccounted(i)

\* The channel holds one result of each call that is done and not received.
ChannelSound ==
    /\ \A k \in 1 .. Len(resultCh) :
         LET r == resultCh[k]
         IN /\ r.call \in launched /\ routine[r.call] = "done"
            /\ execs[r.call] = Untouched
            /\ r.call \in sent => r.started
    /\ \A k, l \in 1 .. Len(resultCh) : k # l => resultCh[k].call # resultCh[l].call

BatchInv ==
    /\ BatchTypes
    /\ GroupPlaced
    /\ \A i \in Indices : CallAccounted(i)
    /\ ChannelSound
    /\ Cardinality(Active) <= MaxParallelToolCalls

\* The first m exchanges of the transcript t: each asks and tells.
Exchanged(t, m) ==
    \A k \in 1 .. m :
      /\ t[2 * k - 1].role = "assistant" /\ t[2 * k].role = "tool"
      /\ Len(t[2 * k].items) = Len(t[2 * k - 1].items)

\* Arguments were refused at most once, and where depends on the state of
\* the correction: nowhere, in the last exchange, or in an earlier one.
Corrections(t, m, c) ==
    \A k \in 1 .. m : ArgumentFailure(t[2 * k].items) =>
      /\ \A n \in 1 .. m : n > k => ~ArgumentFailure(t[2 * n].items)
      /\ k < m => ~InvalidResult(t[2 * (k + 1)].items)
      /\ c # "unused"
      /\ c = "pending" => k = m
      /\ c = "used" => k < m

Alive == pc \notin {"terminal", "completing", "ended"}

TranscriptInv ==
    \E m \in 0 .. Len(transcript) :
      /\ Len(transcript) = (IF pc = "batch" THEN 2 * m + 1 ELSE 2 * m)
      /\ Exchanged(transcript, m)
      /\ Corrections(transcript, m, correction)
      /\ pc = "batch" => transcript[2 * m + 1] = Assistant(calls)

\* One entry of the history, of a turn that is over with status s.
EntryTruthful(h, s) ==
    /\ \A i \in h.sent : i \in DOMAIN h.execs /\ h.execs[i].started
    /\ \A i \in DOMAIN h.execs : h.execs[i].outcome # "none"
    /\ s \in {"none", "completed"} => Len(h.execs) = Len(h.calls)

TurnInv ==
    /\ transcript \in Seq(Message)
    /\ correction \in {"unused", "pending", "used"}
    /\ history \in Seq(Entry)
    /\ Alive => TranscriptInv
    /\ Alive => terminal = "none"
    /\ \A k \in 1 .. Len(history) : EntryTruthful(history[k], terminal)
    /\ pc = "batch" => BatchInv
    /\ pc # "batch" => routine = <<>>

-----------------------------------------------------------------------------
(* Sets of indices.                                                         *)

LEMMA LeastIndex ==
  ASSUME NEW T \in SUBSET Nat, T # {}
  PROVE  \E x \in T : \A y \in T : x <= y
<1>1. PICK x \in T : \A y \in T : ~(<<y, x>> \in OpToRel(<, Nat))
  BY NatLessThanWellFounded, WFMin
<1>2. \A y \in T : ~(y < x)
  BY <1>1 DEF OpToRel
<1>3. QED
  BY <1>2

LEMMA GreatestIndex ==
  ASSUME NEW n \in Nat, NEW T \in SUBSET (1 .. n), T # {}
  PROVE  \E x \in T : \A y \in T : y <= x
<1> DEFINE U == {n - y : y \in T}
<1>1. U \in SUBSET Nat /\ U # {}
  <2>1. \A y \in T : n - y \in Nat
    OBVIOUS
  <2>2. QED
    BY <2>1
<1>2. PICK u \in U : \A v \in U : u <= v
  <2> HIDE DEF U
  <2>1. QED
    BY <1>1, LeastIndex
<1>3. PICK x \in T : u = n - x
  OBVIOUS
<1>4. ASSUME NEW y \in T
      PROVE  y <= x
  <2>1. n - y \in U
    OBVIOUS
  <2>2. n - x <= n - y
    BY <1>2, <1>3, <2>1
  <2>3. QED
    BY <2>2
<1>5. QED
  BY <1>4

\* NextOf names at most as many calls as there are free slots.
LEMMA NextOfBound ==
  ASSUME NEW n \in Nat, NEW g \in SUBSET (1 .. n), NEW l, NEW free \in Nat
  PROVE  /\ NextOf(g, l, free) \subseteq g \ l
         /\ IsFiniteSet(NextOf(g, l, free))
         /\ Cardinality(NextOf(g, l, free)) <= free
<1> DEFINE N == NextOf(g, l, free)
           B(m) == {j \in g \ l : j < m}
<1>1. N \subseteq g \ l /\ N \in SUBSET (1 .. n)
  BY DEF NextOf
<1>2. IsFiniteSet(1 .. n)
  BY FS_Interval
<1>3. IsFiniteSet(N)
  BY <1>1, <1>2, FS_Subset
<1>4. CASE N = {}
  BY <1>1, <1>3, <1>4, FS_EmptySet
<1>5. CASE N # {}
  <2>1. PICK m \in N : \A j \in N : j <= m
    <3> HIDE DEF N
    <3>1. QED
      BY <1>1, <1>5, GreatestIndex
  <2>2. Cardinality(B(m)) < free
    BY <2>1 DEF NextOf
  <2>3. IsFiniteSet(B(m))
    <3>1. B(m) \in SUBSET (1 .. n)
      OBVIOUS
    <3>2. QED
      BY <3>1, <1>2, FS_Subset
  <2>4. N \in SUBSET (B(m) \union {m})
    <3>1. ASSUME NEW j \in N, j # m
          PROVE  j \in B(m)
      <4>1. j \in g \ l /\ j \in 1 .. n /\ m \in 1 .. n /\ j <= m
        BY <1>1, <2>1
      <4>2. QED
        BY <3>1, <4>1
    <3>2. QED
      BY <3>1
  <2> HIDE DEF N, B
  <2>5. /\ IsFiniteSet(B(m) \union {m})
        /\ Cardinality(B(m) \union {m})
             = IF m \in B(m) THEN Cardinality(B(m)) ELSE Cardinality(B(m)) + 1
    BY <2>3, FS_AddElement
  <2>6. Cardinality(N) <= Cardinality(B(m) \union {m})
    BY <2>4, <2>5, FS_Subset
  <2>7. Cardinality(B(m)) \in Nat /\ Cardinality(N) \in Nat
    BY <1>3, <2>3, FS_CardinalityType
  <2>8. Cardinality(B(m) \union {m}) <= Cardinality(B(m)) + 1
        /\ Cardinality(B(m) \union {m}) \in Nat
    BY <2>5, <2>7
  <2>9. Cardinality(N) <= free
    BY <2>2, <2>6, <2>7, <2>8
  <2>10. QED
    BY <1>1, <1>3, <2>9 DEF N
<1>6. QED
  BY <1>4, <1>5

\* A group is an interval of overlapping calls, or one call.
LEMMA GroupAtInterval ==
  ASSUME NEW b \in Seq(Call), NEW i \in 1 .. Len(b)
  PROVE  \E hi \in i .. Len(b) :
           /\ GroupAt(b, i) = i .. hi
           /\ i = hi \/ \A k \in i .. hi : b[k].tool \in ParallelSafe
<1> DEFINE n == Len(b)
<1>1. n \in Nat /\ i \in Nat /\ i >= 1 /\ i <= n
  BY LenProperties
<1> HIDE DEF n
<1>2. CASE b[i].tool \notin ParallelSafe
  <2>1. GroupAt(b, i) = i .. i
    BY <1>1, <1>2 DEF GroupAt
  <2>2. i \in i .. n
    BY <1>1
  <2>3. QED
    BY <2>1, <2>2 DEF n
<1>3. CASE b[i].tool \in ParallelSafe
  <2> DEFINE G == {j \in i .. n : \A k \in i .. j : b[k].tool \in ParallelSafe}
  <2>1. GroupAt(b, i) = G
    BY <1>3 DEF GroupAt, n
  <2>2. i \in G
    BY <1>1, <1>3
  <2>3. G \in SUBSET (1 .. n) /\ G # {}
    BY <1>1, <2>2
  <2>4. PICK hi \in G : \A j \in G : j <= hi
    <3> HIDE DEF G
    <3>1. QED
      BY <1>1, <2>3, GreatestIndex
  <2>5. hi \in i .. n /\ \A k \in i .. hi : b[k].tool \in ParallelSafe
    OBVIOUS
  <2>6. G \subseteq i .. hi
    <3>1. ASSUME NEW j \in G PROVE j \in i .. hi
      <4>1. j \in i .. n /\ j <= hi
        BY <2>4
      <4>2. QED
        BY <1>1, <2>5, <4>1
    <3>2. QED
      BY <3>1
  <2>7. i .. hi \subseteq G
    <3>1. ASSUME NEW j \in i .. hi PROVE j \in G
      <4>1. j \in i .. n
        BY <1>1, <2>5
      <4>2. \A k \in i .. j : k \in i .. hi
        BY <1>1, <2>5
      <4>3. QED
        BY <2>5, <4>1, <4>2
    <3>2. QED
      BY <3>1
  <2> HIDE DEF G
  <2>8. QED
    BY <2>1, <2>5, <2>6, <2>7 DEF n
<1>4. QED
  BY <1>2, <1>3

LEMMA LastOfInterval ==
  ASSUME NEW lo \in Nat, NEW hi \in Nat, lo <= hi
  PROVE  LastOf(lo .. hi) = hi
<1>1. hi \in lo .. hi /\ \A j \in lo .. hi : j <= hi
  OBVIOUS
<1>2. \A i \in lo .. hi : (\A j \in lo .. hi : j <= i) => i = hi
  OBVIOUS
<1>3. QED
  BY <1>1, <1>2 DEF LastOf

-----------------------------------------------------------------------------
(* The goroutines of a batch.                                               *)

\* A function on 1 .. n is a sequence of length n.
LEMMA FunctionIsSeq ==
  ASSUME NEW n \in Nat, NEW S, NEW f \in [1 .. n -> S]
  PROVE  f \in Seq(S) /\ Len(f) = n /\ DOMAIN f = 1 .. n
<1>1. f \in Seq(S)
  BY SeqDef
<1>2. Len(f) = n
  BY <1>1, LenProperties
<1>3. QED
  BY <1>1, <1>2

LEMMA GroupIndices ==
  ASSUME BatchInv
  PROVE  /\ Len(calls) \in Nat /\ Len(calls) > 0 /\ Indices \in SUBSET Nat
         /\ launched \in SUBSET group /\ group \in SUBSET Indices
         /\ launched \in SUBSET Indices
<1>1. Len(calls) \in Nat /\ Len(calls) > 0
  BY LenProperties DEF BatchInv, BatchTypes
<1>2. PICK lo \in Indices, hi \in Indices : Placed(lo, hi)
  BY DEF BatchInv, GroupPlaced
<1>3. lo \in 1 .. Len(calls) /\ hi \in 1 .. Len(calls)
  BY DEF Indices
<1>4. lo .. hi \subseteq 1 .. Len(calls)
  BY <1>1, <1>3
<1>5. QED
  BY <1>1, <1>2, <1>4 DEF Placed, Indices

\* A goroutine in flight belongs to a launched call with no result so far.
LEMMA InFlight ==
  ASSUME BatchInv, NEW i \in Indices, routine[i] \in {"launched", "out", "waiting", "cancelling"}
  PROVE  /\ i \in launched /\ execs[i] = Untouched /\ i \in Active
         /\ \A k \in 1 .. Len(resultCh) : resultCh[k].call # i
<1>1. CallAccounted(i)
  BY DEF BatchInv
<1>2. i \in launched /\ execs[i] = Untouched
  BY <1>1 DEF CallAccounted, ResultAccounted
<1>3. i \in Active
  BY <1>2 DEF Active
<1>4. ASSUME NEW k \in 1 .. Len(resultCh), resultCh[k].call = i
      PROVE  FALSE
  BY <1>4 DEF BatchInv, ChannelSound
<1>5. QED
  BY <1>2, <1>3, <1>4

\* A goroutine that goes on, without a result, changes nobody's account.
LEMMA GoesOn ==
  ASSUME BatchInv, NEW i \in Indices, routine[i] \in {"launched", "out", "waiting", "cancelling"},
         NEW w \in {"out", "waiting", "cancelling", "done"},
         routine' = [routine EXCEPT ![i] = w],
         UNCHANGED <<calls, results, execs, group, launched, firstErr>>,
         sent' = sent \/ (w # "done" /\ sent' = sent \union {i})
  PROVE  /\ Indices' = Indices
         /\ routine' \in [Indices -> {"none", "launched", "out", "waiting", "cancelling", "done"}]
         /\ sent' \subseteq Indices
         /\ GroupPlaced'
         /\ \A j \in Indices : CallAccounted(j)'
         /\ Cardinality(Active') <= MaxParallelToolCalls
<1>1. Indices' = Indices
  BY DEF Indices
<1>2. routine \in [Indices -> {"none", "launched", "out", "waiting", "cancelling", "done"}]
  BY DEF BatchInv, BatchTypes
<1>3. i \in launched /\ execs[i] = Untouched
  BY InFlight
<1>4. GroupPlaced'
  <2>1. PICK lo \in Indices, hi \in Indices : Placed(lo, hi)
    BY DEF BatchInv, GroupPlaced
  <2>2. \A j \in Indices \ launched : j \in sent' <=> j \in sent
    BY <1>3
  <2>3. Placed(lo, hi)'
    BY <1>1, <2>1, <2>2 DEF Placed
  <2>4. QED
    BY <1>1, <2>1, <2>3 DEF GroupPlaced
<1>5. ASSUME NEW j \in Indices
      PROVE  CallAccounted(j)'
  <2>1. CallAccounted(j)
    BY DEF BatchInv
  <2>2. CASE j = i
    <3>1. routine'[j] = w
      BY <1>2, <2>2
    <3>2. QED
      BY <1>3, <2>1, <2>2, <3>1 DEF CallAccounted, ResultAccounted
  <2>3. CASE j # i
    <3>1. routine'[j] = routine[j] /\ (j \in sent' <=> j \in sent)
      BY <1>2, <2>3
    <3>2. QED
      BY <2>1, <3>1 DEF CallAccounted, ResultAccounted
  <2>4. QED
    BY <2>2, <2>3
<1>6. Active' = Active
  <2>1. ASSUME NEW j \in launched
        PROVE  (routine'[j] # "none") <=> (routine[j] # "none")
    <3>1. j \in Indices
      BY GroupIndices
    <3>2. QED
      BY <1>2, <3>1
  <2>2. QED
    BY <2>1 DEF Active
<1>7. routine' \in [Indices -> {"none", "launched", "out", "waiting", "cancelling", "done"}]
  BY <1>2
<1>8. sent' \subseteq Indices
  BY DEF BatchInv, BatchTypes
<1>9. QED
  BY <1>1, <1>4, <1>5, <1>6, <1>7, <1>8 DEF BatchInv

\* Submit, Accepted and GiveUp: the goroutine is away.
LEMMA AwayKeeps ==
  ASSUME BatchInv, NEW i \in Indices, Submit(i) \/ Accepted(i) \/ GiveUp(i)
  PROVE  BatchInv'
<1> DEFINE w == IF Submit(i) THEN "out" ELSE IF Accepted(i) THEN "waiting" ELSE "cancelling"
<1>1. /\ routine[i] \in {"launched", "out", "waiting", "cancelling"}
      /\ w \in {"out", "waiting", "cancelling", "done"} /\ w # "done"
      /\ routine' = [routine EXCEPT ![i] = w]
      /\ UNCHANGED <<calls, results, execs, group, launched, firstErr>>
      /\ sent' = sent \/ (w # "done" /\ sent' = sent \union {i})
      /\ resultCh' = resultCh
  <2>1. CASE Submit(i) BY <2>1 DEF Submit
  <2>2. CASE ~Submit(i) /\ Accepted(i) BY <2>2 DEF Accepted
  <2>3. CASE ~Submit(i) /\ ~Accepted(i) /\ GiveUp(i) BY <2>3 DEF GiveUp
  <2>4. QED
    BY <2>1, <2>2, <2>3
<1> HIDE DEF w
<1>2. /\ Indices' = Indices
      /\ routine' \in [Indices -> {"none", "launched", "out", "waiting", "cancelling", "done"}]
      /\ sent' \subseteq Indices
      /\ GroupPlaced'
      /\ \A j \in Indices : CallAccounted(j)'
      /\ Cardinality(Active') <= MaxParallelToolCalls
  BY <1>1, GoesOn
<1>3. BatchTypes'
  BY <1>1, <1>2 DEF BatchInv, BatchTypes
<1>4. ChannelSound'
  <2>1. \A k \in 1 .. Len(resultCh) : resultCh[k].call # i
    BY <1>1, InFlight
  <2>2. ASSUME NEW k \in 1 .. Len(resultCh)
        PROVE  LET r == resultCh[k]
               IN /\ r.call \in launched' /\ routine'[r.call] = "done"
                  /\ execs'[r.call] = Untouched
                  /\ r.call \in sent' => r.started
    <3> DEFINE c == resultCh[k].call
    <3>1. /\ c \in launched /\ routine[c] = "done" /\ execs[c] = Untouched
          /\ c \in sent => resultCh[k].started
      BY DEF BatchInv, ChannelSound
    <3>2. c # i
      BY <2>1
    <3>3. c \in Indices
      BY <3>1, GroupIndices
    <3>4. routine'[c] = routine[c]
      BY <1>1, <3>2, <3>3 DEF BatchInv, BatchTypes
    <3>5. QED
      BY <1>1, <3>1, <3>2, <3>4
  <2>3. \A k, l \in 1 .. Len(resultCh) : k # l => resultCh[k].call # resultCh[l].call
    BY DEF BatchInv, ChannelSound
  <2>4. QED
    BY <1>1, <2>2, <2>3 DEF ChannelSound
<1>5. QED
  BY <1>2, <1>3, <1>4 DEF BatchInv

\* RefuseAction and Answer: the goroutine reports and ends.
LEMMA ReportKeeps ==
  ASSUME BatchInv, NEW i \in Indices, routine[i] \in {"launched", "out", "waiting", "cancelling"},
         NEW started \in BOOLEAN, NEW outcome \in Ended,
         i \in sent => started,
         Report(i, started, outcome), UNCHANGED sent
  PROVE  BatchInv'
<1> DEFINE r == [call |-> i, started |-> started, outcome |-> outcome]
<1>1. /\ routine' = [routine EXCEPT ![i] = "done"]
      /\ UNCHANGED <<calls, results, execs, group, launched, firstErr>>
      /\ resultCh' = Append(resultCh, r)
  BY DEF Report
<1>2. /\ Indices' = Indices
      /\ routine' \in [Indices -> {"none", "launched", "out", "waiting", "cancelling", "done"}]
      /\ sent' \subseteq Indices
      /\ GroupPlaced'
      /\ \A j \in Indices : CallAccounted(j)'
      /\ Cardinality(Active') <= MaxParallelToolCalls
  BY <1>1, GoesOn
<1>3. r \in Result
  BY DEF Result, Indices
<1>4. resultCh \in Seq(Result) /\ Len(resultCh) \in Nat
  BY LenProperties DEF BatchInv, BatchTypes
<1>5. /\ resultCh' \in Seq(Result)
      /\ Len(resultCh') = Len(resultCh) + 1
      /\ resultCh'[Len(resultCh) + 1] = r
      /\ \A k \in 1 .. Len(resultCh) : resultCh'[k] = resultCh[k]
  BY <1>1, <1>3, <1>4
<1>6. BatchTypes'
  BY <1>1, <1>2, <1>5 DEF BatchInv, BatchTypes
<1>7. ChannelSound'
  <2>1. /\ i \in launched /\ execs[i] = Untouched
        /\ \A k \in 1 .. Len(resultCh) : resultCh[k].call # i
    BY InFlight
  <2>2. routine'[i] = "done"
    BY <1>1 DEF BatchInv, BatchTypes
  <2>3. ASSUME NEW k \in 1 .. Len(resultCh)
        PROVE  /\ resultCh[k].call \in launched /\ routine'[resultCh[k].call] = "done"
               /\ execs[resultCh[k].call] = Untouched
               /\ resultCh[k].call \in sent => resultCh[k].started
    <3>1. /\ resultCh[k].call \in launched /\ routine[resultCh[k].call] = "done"
          /\ execs[resultCh[k].call] = Untouched
          /\ resultCh[k].call \in sent => resultCh[k].started
      BY DEF BatchInv, ChannelSound
    <3>2. resultCh[k].call \in Indices
      BY <3>1, GroupIndices
    <3>3. routine'[resultCh[k].call] = routine[resultCh[k].call]
      BY <1>1, <2>1, <3>2 DEF BatchInv, BatchTypes
    <3>4. QED
      BY <3>1, <3>3
  <2>4. ASSUME NEW k \in 1 .. Len(resultCh')
        PROVE  LET q == resultCh'[k]
               IN /\ q.call \in launched' /\ routine'[q.call] = "done"
                  /\ execs'[q.call] = Untouched
                  /\ q.call \in sent' => q.started
    <3>1. CASE k \in 1 .. Len(resultCh)
      BY <1>1, <1>5, <2>3, <3>1
    <3>2. CASE k = Len(resultCh) + 1
      BY <1>1, <1>5, <2>1, <2>2, <3>2
    <3>3. QED
      BY <1>4, <1>5, <3>1, <3>2
  <2>5. ASSUME NEW k \in 1 .. Len(resultCh'), NEW l \in 1 .. Len(resultCh'), k # l
        PROVE  resultCh'[k].call # resultCh'[l].call
    <3>1. \A a, b \in 1 .. Len(resultCh) : a # b => resultCh[a].call # resultCh[b].call
      BY DEF BatchInv, ChannelSound
    <3>2. r.call = i
      OBVIOUS
    <3> HIDE DEF r
    <3>3. /\ k \in 1 .. Len(resultCh) \/ k = Len(resultCh) + 1
          /\ l \in 1 .. Len(resultCh) \/ l = Len(resultCh) + 1
      BY <1>4, <1>5
    <3>4. QED
      BY <1>5, <2>1, <2>5, <3>1, <3>2, <3>3
  <2>6. QED
    BY <2>4, <2>5 DEF ChannelSound
<1>8. QED
  BY <1>2, <1>6, <1>7 DEF BatchInv

LEMMA RefuseActionKeeps ==
  ASSUME BatchInv, NEW i \in Indices, RefuseAction(i)
  PROVE  BatchInv'
<1>1. routine[i] = "launched" /\ Report(i, FALSE, "error") /\ UNCHANGED sent
  BY DEF RefuseAction
<1>2. i \notin sent
  BY <1>1 DEF BatchInv, CallAccounted
<1>3. "error" \in Ended /\ FALSE \in BOOLEAN
  BY DEF Ended
<1>4. QED
  BY <1>1, <1>2, <1>3, ReportKeeps

LEMMA AnswerKeeps ==
  ASSUME BatchInv, NEW i \in Indices, NEW c, Answer(i, c)
  PROVE  BatchInv'
<1>1. PICK outcome \in Outcomes(i, c) : Report(i, TRUE, outcome)
  BY DEF Answer
<1>2. outcome \in Ended
  BY DEF Outcomes, Ended
<1>3. routine[i] \in {"launched", "out", "waiting", "cancelling"} /\ UNCHANGED sent
  BY DEF Answer
<1>4. QED
  BY <1>1, <1>2, <1>3, ReportKeeps

LEMMA CancelSentKeeps ==
  ASSUME BatchInv, NEW i \in Indices, NEW c, CancelSent(i, c)
  PROVE  BatchInv'
<1>1. PICK outcome \in {"error", "cancelled"} : Report(i, TRUE, outcome)
  BY DEF CancelSent
<1>2. outcome \in Ended
  BY DEF Ended
<1>3. routine[i] \in {"launched", "out", "waiting", "cancelling"} /\ UNCHANGED sent
  BY DEF CancelSent
<1>4. QED
  BY <1>1, <1>2, <1>3, ReportKeeps

-----------------------------------------------------------------------------
(* Groups.                                                                  *)

\* A group starts over calls that nothing has touched.
LEMMA GroupStarts ==
  ASSUME NEW b \in Seq(Call), Len(b) > 0, NEW i \in 1 .. Len(b),
         calls' = b, StartGroup(b, GroupAt(b, i)),
         results' \in [1 .. Len(b) -> {"none"} \union Told],
         execs' \in [1 .. Len(b) -> {Untouched} \union Received],
         firstErr' \in {"none"} \union Failures,
         sent' \subseteq 1 .. Len(b),
         \A j \in 1 .. Len(b) : j < i => execs'[j] # Untouched,
         \A j \in 1 .. Len(b) : j >= i => execs'[j] = Untouched /\ j \notin sent',
         \A j \in 1 .. Len(b) : ResultAccounted(j)'
  PROVE  BatchInv'
<1> DEFINE n == Len(b)
           g == GroupAt(b, i)
           first == NextOf(g, {}, MaxParallelToolCalls)
<1>1. n \in Nat /\ n > 0 /\ DOMAIN b = 1 .. n /\ Indices' = 1 .. n
  BY LenProperties DEF Indices
<1>2. /\ group' = g /\ launched' = first /\ resultCh' = <<>>
      /\ routine' = [j \in 1 .. n |-> IF j \in first THEN "launched" ELSE "none"]
  BY <1>1 DEF StartGroup
<1>3. PICK hi \in i .. n :
           /\ g = i .. hi
           /\ i = hi \/ \A k \in i .. hi : b[k].tool \in ParallelSafe
  BY GroupAtInterval
<1>4. MaxParallelToolCalls \in Nat
  BY BatchAssumption
<1>5. g \in SUBSET (1 .. n) /\ hi \in 1 .. n /\ i <= hi
  BY <1>1, <1>3
<1> HIDE DEF n, g
<1>6. /\ first \subseteq g \ {} /\ IsFiniteSet(first)
      /\ Cardinality(first) <= MaxParallelToolCalls
  BY <1>1, <1>4, <1>5, NextOfBound
<1> HIDE DEF first
<1>7. BatchTypes'
  <2>1. routine' \in [1 .. n -> {"none", "launched", "out", "waiting", "cancelling", "done"}]
    BY <1>2
  <2>2. resultCh' \in Seq(Result)
    BY <1>2, EmptySeq
  <2>3. QED
    BY <1>1, <2>1, <2>2 DEF BatchTypes, n
<1>8. GroupPlaced'
  <2>1. Placed(i, hi)'
    <3>1. i <= hi /\ group' = i .. hi /\ launched' \subseteq group'
      BY <1>2, <1>3, <1>5, <1>6
    <3>2. i = hi \/ \A k \in i .. hi : calls'[k].tool \in ParallelSafe
      BY <1>3
    <3>3. QED
      BY <1>1, <3>1, <3>2 DEF Placed, n
  <2>2. i \in Indices' /\ hi \in Indices'
    BY <1>1, <1>5 DEF n
  <2>3. QED
    BY <2>1, <2>2 DEF GroupPlaced
<1>9. ASSUME NEW j \in 1 .. n
      PROVE  CallAccounted(j)'
  <2>1. routine'[j] = IF j \in launched' THEN "launched" ELSE "none"
    BY <1>2
  <2>2. j \in launched' => execs'[j] = Untouched /\ j \notin sent'
    <3>1. ASSUME j \in launched' PROVE j >= i
      BY <1>2, <1>3, <1>5, <1>6, <3>1
    <3>2. QED
      BY <3>1 DEF n
  <2>3. QED
    BY <2>1, <2>2 DEF CallAccounted, n
<1>10. ChannelSound'
  <2>1. Len(resultCh') = 0
    BY <1>2
  <2>2. QED
    BY <2>1 DEF ChannelSound
<1>11. Cardinality(Active') <= MaxParallelToolCalls
  <2>1. Active' \in SUBSET first
    BY <1>2 DEF Active
  <2>2. /\ Cardinality(Active') <= Cardinality(first)
        /\ Cardinality(Active') \in Nat /\ Cardinality(first) \in Nat
    BY <1>6, <2>1, FS_Subset, FS_CardinalityType
  <2>3. QED
    BY <1>4, <1>6, <2>2
<1>12. QED
  BY <1>1, <1>7, <1>8, <1>9, <1>10, <1>11 DEF BatchInv

LEMMA BatchBegins ==
  ASSUME NEW b \in Seq(Call), b # <<>>, BeginBatch(b)
  PROVE  BatchInv'
<1>1. Len(b) \in Nat /\ Len(b) > 0 /\ DOMAIN b = 1 .. Len(b)
  BY LenProperties, EmptySeq
<1>2. /\ calls' = b /\ StartGroup(b, GroupAt(b, 1))
      /\ results' = [j \in 1 .. Len(b) |-> "none"]
      /\ execs' = [j \in 1 .. Len(b) |-> Untouched]
      /\ firstErr' = "none" /\ sent' = {}
  BY <1>1 DEF BeginBatch
<1>3. 1 \in 1 .. Len(b)
  BY <1>1
<1>4. results' \in [1 .. Len(b) -> {"none"} \union Told]
  BY <1>2
<1>5. execs' \in [1 .. Len(b) -> {Untouched} \union Received]
  BY <1>2
<1>6. \A j \in 1 .. Len(b) : j < 1 => execs'[j] # Untouched
  BY <1>1
<1>7. \A j \in 1 .. Len(b) : j >= 1 => execs'[j] = Untouched /\ j \notin sent'
  BY <1>2
<1>8. \A j \in 1 .. Len(b) : ResultAccounted(j)'
  BY <1>2 DEF ResultAccounted
<1>9. firstErr' \in {"none"} \union Failures /\ sent' \subseteq 1 .. Len(b)
  BY <1>2
<1>10. QED
  BY <1>1, <1>2, <1>3, <1>4, <1>5, <1>6, <1>7, <1>8, <1>9, GroupStarts

\* When a group is done without an error, all its calls have a result.
LEMMA GroupReceived ==
  ASSUME BatchInv, GroupDone, NEW lo \in Indices, NEW hi \in Indices, Placed(lo, hi)
  PROVE  /\ LastOf(group) = hi
         /\ firstErr = "none" => \A i \in Indices : i <= hi => execs[i] # Untouched
         /\ \A i \in sent : execs[i] # Untouched
<1>1. lo \in Nat /\ hi \in Nat /\ lo <= hi /\ group = lo .. hi /\ launched \subseteq group
  BY GroupIndices DEF Placed
<1>2. LastOf(group) = hi
  BY <1>1, LastOfInterval
<1>3. ASSUME NEW i \in launched
      PROVE  execs[i] # Untouched
  <2>1. i \in Indices
    BY GroupIndices
  <2>2. routine[i] # "none"
    BY <2>1 DEF BatchInv, CallAccounted
  <2>3. QED
    BY <2>2 DEF GroupDone, Active
<1>4. ASSUME firstErr = "none", NEW i \in Indices, i <= hi
      PROVE  execs[i] # Untouched
  <2>1. CASE i < lo
    BY <2>1 DEF Placed
  <2>2. CASE i >= lo
    <3>1. i \in launched
      <4>1. i \in Nat
        BY GroupIndices
      <4>2. QED
        BY <1>1, <1>4, <2>2, <4>1 DEF GroupDone
    <3>2. QED
      BY <1>3, <3>1
  <2>3. QED
    BY <1>1, <2>1, <2>2, GroupIndices
<1>5. ASSUME NEW i \in sent
      PROVE  execs[i] # Untouched
  <2>1. i \in Indices /\ i \in Nat
    BY GroupIndices DEF BatchInv, BatchTypes
  <2>2. CASE i < lo
    BY <2>1, <2>2 DEF Placed
  <2>3. CASE i >= lo
    <3>1. i \in launched
      BY <2>1, <2>3 DEF Placed
    <3>2. QED
      BY <1>3, <3>1
  <2>4. QED
    BY <1>1, <2>1, <2>2, <2>3
<1>6. QED
  BY <1>2, <1>4, <1>5

LEMMA NextGroupKeeps ==
  ASSUME BatchInv, NextGroup
  PROVE  BatchInv'
<1>1. PICK lo \in Indices, hi \in Indices : Placed(lo, hi)
  BY DEF BatchInv, GroupPlaced
<1>2. /\ GroupDone /\ firstErr = "none" /\ LastOf(group) < Len(calls)
      /\ StartGroup(calls, GroupAt(calls, LastOf(group) + 1))
      /\ UNCHANGED <<calls, results, execs, firstErr, sent>>
  BY DEF NextGroup
<1>3. LastOf(group) = hi /\ \A i \in Indices : i <= hi => execs[i] # Untouched
  BY <1>1, <1>2, GroupReceived
<1>4. /\ lo \in Nat /\ hi \in Nat /\ lo <= hi /\ launched \subseteq lo .. hi
      /\ Len(calls) \in Nat /\ Indices = 1 .. Len(calls) /\ Indices' = 1 .. Len(calls)
  BY <1>1, <1>2, GroupIndices DEF Placed, Indices
<1>5. hi + 1 \in 1 .. Len(calls)
  BY <1>2, <1>3, <1>4
<1>6. \A j \in 1 .. Len(calls) : j < hi + 1 => execs'[j] # Untouched
  BY <1>2, <1>3, <1>4
<1>7. ASSUME NEW j \in 1 .. Len(calls), j >= hi + 1
      PROVE  execs'[j] = Untouched /\ j \notin sent'
  <2>1. j \notin launched /\ j >= lo
    BY <1>4, <1>7
  <2>2. QED
    BY <1>1, <1>2, <1>4, <2>1 DEF Placed
<1>8. ASSUME NEW j \in 1 .. Len(calls)
      PROVE  ResultAccounted(j)'
  <2>1. ResultAccounted(j)
    BY <1>4 DEF BatchInv, CallAccounted
  <2>2. QED
    BY <1>2, <2>1 DEF ResultAccounted
<1>9. /\ calls \in Seq(Call) /\ Len(calls) > 0 /\ calls' = calls
      /\ results' \in [1 .. Len(calls) -> {"none"} \union Told]
      /\ execs' \in [1 .. Len(calls) -> {Untouched} \union Received]
      /\ firstErr' \in {"none"} \union Failures
      /\ sent' \subseteq 1 .. Len(calls)
  BY <1>2, <1>4 DEF BatchInv, BatchTypes
<1>10. StartGroup(calls, GroupAt(calls, hi + 1))
  BY <1>2, <1>3
<1>11. QED
  BY <1>5, <1>6, <1>7, <1>8, <1>9, <1>10, GroupStarts

\* Receive: one call is accounted for, and the slots it frees are filled.
LEMMA ReceiveKeeps ==
  ASSUME BatchInv, Receive
  PROVE  BatchInv'
<1> DEFINE r == Head(resultCh)
           c == r.call
           err == IF r.outcome \in Failures
                  THEN PreferTechnicalError(firstErr, r.outcome) ELSE firstErr
           free == MaxParallelToolCalls - (Cardinality(Active) - 1)
           more == IF err # "none" THEN {} ELSE NextOf(group, launched, free)
           done == [started |-> r.started, outcome |-> r.outcome]
<1>1. /\ resultCh # <<>>
      /\ execs' = [execs EXCEPT ![c] = done]
      /\ results' = IF r.outcome \in Failures THEN results
                    ELSE [results EXCEPT ![c] = r.outcome]
      /\ firstErr' = err
      /\ launched' = launched \union more
      /\ routine' = [i \in DOMAIN routine |-> IF i \in more THEN "launched" ELSE routine[i]]
      /\ resultCh' = Tail(resultCh)
      /\ UNCHANGED <<calls, group, sent>>
  BY DEF Receive
<1>2. resultCh \in Seq(Result) /\ Len(resultCh) \in Nat /\ Len(resultCh) > 0
  BY <1>1, LenProperties, EmptySeq DEF BatchInv, BatchTypes
<1>3. /\ r \in Result /\ r = resultCh[1]
      /\ Tail(resultCh) \in Seq(Result) /\ Len(Tail(resultCh)) = Len(resultCh) - 1
      /\ \A k \in 1 .. Len(Tail(resultCh)) : Tail(resultCh)[k] = resultCh[k + 1]
  BY <1>1, <1>2, HeadTailProperties
<1>4. /\ c \in launched /\ routine[c] = "done" /\ execs[c] = Untouched
      /\ c \in sent => r.started
  <2>1. 1 \in 1 .. Len(resultCh)
    BY <1>2
  <2>2. QED
    BY <1>3, <2>1 DEF BatchInv, ChannelSound
<1>5. \A k \in 2 .. Len(resultCh) : resultCh[k].call # c
  <2>1. ASSUME NEW k \in 2 .. Len(resultCh)
        PROVE  k \in 1 .. Len(resultCh) /\ 1 \in 1 .. Len(resultCh) /\ k # 1
    BY <1>2
  <2>2. QED
    BY <1>3, <2>1 DEF BatchInv, ChannelSound
<1>6. r.started \in BOOLEAN /\ r.outcome \in Ended /\ c \in Indices
  BY <1>3, <1>4, GroupIndices DEF Result
<1> HIDE DEF r
<1>7. done \in Received /\ done # Untouched
      /\ done.started = r.started /\ done.outcome = r.outcome
  BY <1>6 DEF Received, Untouched, Ended
<1> HIDE DEF c, done
<1>8. /\ err \in {"none"} \union Failures
      /\ err = "none" => firstErr = "none" /\ r.outcome \notin Failures
  BY <1>6 DEF PreferTechnicalError, Failures, Ended, BatchInv, BatchTypes
<1> HIDE DEF err
<1>9. /\ Len(calls) \in Nat /\ Indices \in SUBSET Nat
      /\ launched \in SUBSET Indices /\ group \in SUBSET Indices
      /\ launched \in SUBSET group /\ Indices = 1 .. Len(calls)
  BY GroupIndices DEF Indices
<1>10. Indices' = Indices
  BY <1>1 DEF Indices
<1>11. /\ IsFiniteSet(Active) /\ Cardinality(Active) \in Nat
       /\ c \in Active /\ Cardinality(Active) >= 1
       /\ IsFiniteSet(Active \ {c}) /\ Cardinality(Active \ {c}) = Cardinality(Active) - 1
  <2>1. c \in Active
    BY <1>4 DEF Active
  <2>2. Active \in SUBSET (1 .. Len(calls))
    BY <1>9 DEF Active
  <2>3. IsFiniteSet(1 .. Len(calls))
    BY <1>9, FS_Interval
  <2>4. IsFiniteSet(Active)
    BY <2>2, <2>3, FS_Subset
  <2>5. Cardinality(Active) \in Nat
    BY <2>4, FS_CardinalityType
  <2>6. IsFiniteSet(Active \ {c}) /\ Cardinality(Active \ {c}) = Cardinality(Active) - 1
    BY <2>1, <2>4, FS_RemoveElement
  <2>7. Cardinality(Active) # 0
    BY <2>1, <2>4, FS_EmptySet
  <2>8. QED
    BY <2>1, <2>4, <2>5, <2>6, <2>7
<1>12. free \in Nat /\ Cardinality(Active) - 1 + free = MaxParallelToolCalls
  <2>1. /\ Cardinality(Active) <= MaxParallelToolCalls /\ MaxParallelToolCalls \in Nat
    BY BatchAssumption DEF BatchInv
  <2>2. QED
    BY <1>11, <2>1
<1> HIDE DEF free
<1>13. /\ more \subseteq group \ launched /\ IsFiniteSet(more)
       /\ Cardinality(more) <= free /\ Cardinality(more) \in Nat
  <2>1. CASE err # "none"
    BY <1>12, <2>1, FS_EmptySet
  <2>2. CASE err = "none"
    <3>1. group \in SUBSET (1 .. Len(calls))
      BY <1>9
    <3>2. /\ NextOf(group, launched, free) \subseteq group \ launched
          /\ IsFiniteSet(NextOf(group, launched, free))
          /\ Cardinality(NextOf(group, launched, free)) <= free
      BY <1>9, <1>12, <3>1, NextOfBound
    <3>3. QED
      BY <2>2, <3>2, FS_CardinalityType
  <2>3. QED
    BY <2>1, <2>2
<1> HIDE DEF more
<1>14. /\ execs \in [Indices -> {Untouched} \union Received]
       /\ results \in [Indices -> {"none"} \union Told]
       /\ routine \in [Indices -> {"none", "launched", "out", "waiting", "cancelling", "done"}]
       /\ DOMAIN routine = Indices
  BY DEF BatchInv, BatchTypes
<1>15. /\ execs'[c] = done
       /\ \A i \in Indices : i # c => execs'[i] = execs[i] /\ results'[i] = results[i]
       /\ r.outcome \notin Failures => results'[c] = r.outcome
  BY <1>1, <1>6, <1>14
<1>16. \A i \in Indices : routine'[i] = IF i \in more THEN "launched" ELSE routine[i]
  BY <1>1, <1>14
<1>17. BatchTypes'
  <2>1. execs' \in [Indices -> {Untouched} \union Received]
    BY <1>1, <1>7, <1>14
  <2>2. results' \in [Indices -> {"none"} \union Told]
    <3>1. r.outcome \notin Failures => r.outcome \in Told
      BY <1>6 DEF Ended, Told, Failures, Visible
    <3>2. QED
      BY <1>1, <1>14, <3>1
  <2>3. routine' \in [Indices -> {"none", "launched", "out", "waiting", "cancelling", "done"}]
    BY <1>1, <1>14
  <2>4. QED
    BY <1>1, <1>3, <1>8, <1>10, <2>1, <2>2, <2>3 DEF BatchInv, BatchTypes
<1>18. PICK lo \in Indices, hi \in Indices : Placed(lo, hi)
  BY DEF BatchInv, GroupPlaced
<1>19. \A i \in more : i \in Indices /\ i # c /\ execs[i] = Untouched /\ i \notin sent
  <2>1. ASSUME NEW i \in more
        PROVE  i \in Indices /\ i \notin launched /\ i >= lo
    <3>1. i \in group /\ i \notin launched
      BY <1>13
    <3>2. i \in lo .. hi
      BY <1>18, <3>1 DEF Placed
    <3>3. QED
      BY <1>9, <3>1, <3>2
  <2>2. QED
    BY <1>4, <1>18, <2>1 DEF Placed
<1>20. GroupPlaced'
  <2>1. launched' \subseteq group'
    BY <1>1, <1>9, <1>13
  <2>2. \A i \in Indices : i < lo => execs'[i] # Untouched
    BY <1>7, <1>15, <1>18 DEF Placed
  <2>3. \A i \in Indices \ launched' : i >= lo => execs'[i] = Untouched /\ i \notin sent'
    BY <1>1, <1>4, <1>15, <1>18 DEF Placed
  <2>4. Placed(lo, hi)'
    BY <1>1, <1>10, <1>18, <2>1, <2>2, <2>3 DEF Placed
  <2>5. QED
    BY <1>10, <1>18, <2>4 DEF GroupPlaced
<1>21. ASSUME NEW i \in Indices
       PROVE  CallAccounted(i)'
  <2>1. CallAccounted(i)
    BY DEF BatchInv
  <2>2. i \in launched' <=> i \in launched \/ i \in more
    BY <1>1
  <2>3. CASE i = c
    <3>1. i \notin more /\ routine'[i] = "done" /\ execs'[i] = done /\ i \in launched'
      BY <1>4, <1>15, <1>16, <1>19, <2>2, <2>3
    <3>2. /\ i \in sent' => execs'[i].started
          /\ execs'[i].outcome \notin Failures => results'[i] = execs'[i].outcome
          /\ firstErr' = "none" => execs'[i].outcome \notin Failures
      BY <1>1, <1>4, <1>7, <1>8, <1>15, <2>3, <3>1
    <3>3. QED
      BY <1>7, <3>1, <3>2 DEF CallAccounted, ResultAccounted
  <2>4. CASE i # c
    <3>1. execs'[i] = execs[i] /\ results'[i] = results[i]
      BY <1>15, <2>4
    <3>2. firstErr' = "none" => firstErr = "none"
      BY <1>1, <1>8
    <3>3. ResultAccounted(i)'
      BY <1>1, <2>1, <3>1, <3>2 DEF CallAccounted, ResultAccounted
    <3>4. CASE i \in more
      <4>1. routine'[i] = "launched" /\ execs'[i] = Untouched /\ i \notin sent' /\ i \in launched'
        BY <1>1, <1>16, <1>19, <2>2, <3>1, <3>4
      <4>2. QED
        BY <3>3, <4>1 DEF CallAccounted
    <3>5. CASE i \notin more
      <4>1. routine'[i] = routine[i] /\ (i \in launched' <=> i \in launched) /\ sent' = sent
        BY <1>1, <1>16, <2>2, <3>5
      <4>2. QED
        BY <2>1, <3>1, <3>3, <4>1 DEF CallAccounted
    <3>6. QED
      BY <3>4, <3>5
  <2>5. QED
    BY <2>3, <2>4
<1>22. ChannelSound'
  <2>1. ASSUME NEW k \in 1 .. Len(resultCh')
        PROVE  k + 1 \in 1 .. Len(resultCh) /\ resultCh'[k] = resultCh[k + 1]
               /\ resultCh[k + 1].call # c
    <3>1. k + 1 \in 2 .. Len(resultCh) /\ k + 1 \in 1 .. Len(resultCh)
      BY <1>1, <1>2, <1>3
    <3>2. QED
      BY <1>1, <1>3, <1>5, <3>1
  <2>2. ASSUME NEW k \in 1 .. Len(resultCh')
        PROVE  LET q == resultCh'[k]
               IN /\ q.call \in launched' /\ routine'[q.call] = "done"
                  /\ execs'[q.call] = Untouched
                  /\ q.call \in sent' => q.started
    <3> DEFINE q == resultCh[k + 1]
    <3>1. /\ q.call \in launched /\ routine[q.call] = "done" /\ execs[q.call] = Untouched
          /\ q.call \in sent => q.started
      BY <2>1 DEF BatchInv, ChannelSound
    <3>2. q.call # c /\ q.call \in Indices /\ q.call \notin more
      BY <1>9, <1>13, <2>1, <3>1
    <3> HIDE DEF q
    <3>3. /\ q.call \in launched' /\ routine'[q.call] = "done" /\ execs'[q.call] = Untouched
          /\ q.call \in sent' => q.started
      BY <1>1, <1>15, <1>16, <3>1, <3>2
    <3>4. QED
      BY <2>1, <3>3 DEF q
  <2>3. ASSUME NEW k \in 1 .. Len(resultCh'), NEW l \in 1 .. Len(resultCh'), k # l
        PROVE  resultCh'[k].call # resultCh'[l].call
    <3>1. k + 1 # l + 1
      BY <2>3
    <3>2. QED
      BY <2>1, <3>1 DEF BatchInv, ChannelSound
  <2>4. QED
    BY <2>2, <2>3 DEF ChannelSound
<1>23. Cardinality(Active') <= MaxParallelToolCalls
  <2> DEFINE A == Active \ {c}
  <2>1. Active' \in SUBSET (A \union more)
    <3>1. ASSUME NEW i \in Active', i \notin more
          PROVE  i \in Active /\ i # c
      <4>1. i \in launched /\ i \in Indices /\ routine'[i] # "none" /\ execs'[i] = Untouched
        BY <1>1, <1>9, <3>1 DEF Active
      <4>2. i # c
        BY <1>7, <1>15, <4>1
      <4>3. QED
        BY <1>15, <1>16, <3>1, <4>1, <4>2 DEF Active
    <3>2. QED
      BY <3>1
  <2>2. /\ IsFiniteSet(A \union more)
        /\ Cardinality(A \union more) = Cardinality(A) + Cardinality(more)
                                          - Cardinality(A \cap more)
    BY <1>11, <1>13, FS_Union
  <2>3. Cardinality(A \cap more) \in Nat
    <3>1. A \cap more \in SUBSET more
      OBVIOUS
    <3>2. QED
      BY <1>13, <3>1, FS_Subset, FS_CardinalityType
  <2>4. Cardinality(Active') <= Cardinality(A \union more) /\ Cardinality(Active') \in Nat
    BY <2>1, <2>2, FS_Subset, FS_CardinalityType
  <2>5. Cardinality(A) = Cardinality(Active) - 1
    BY <1>11
  <2> HIDE DEF A
  <2>6. QED
    BY <1>11, <1>12, <1>13, <2>2, <2>3, <2>4, <2>5
<1>24. QED
  BY <1>10, <1>17, <1>20, <1>21, <1>22, <1>23 DEF BatchInv

-----------------------------------------------------------------------------
(* What a batch hands back.                                                 *)

\* Without an error every call of a batch that is over has a result.
LEMMA FinalResultsTold ==
  ASSUME BatchInv, BatchOver, firstErr = "none"
  PROVE  FinalResults \in [Indices -> Told]
<1>1. PICK lo \in Indices, hi \in Indices : Placed(lo, hi)
  BY DEF BatchInv, GroupPlaced
<1>2. GroupDone /\ (GroupFailed \/ LastOf(group) = Len(calls))
  BY DEF BatchOver
<1>3. LastOf(group) = hi /\ \A i \in Indices : i <= hi => execs[i] # Untouched
  BY <1>1, <1>2, GroupReceived
<1>4. /\ execs \in [Indices -> {Untouched} \union Received]
      /\ results \in [Indices -> {"none"} \union Told] /\ DOMAIN results = Indices
  BY DEF BatchInv, BatchTypes
<1>5. ASSUME NEW i \in Indices, i <= hi
      PROVE  results[i] \in Told
  <2>1. execs[i] \in Received /\ execs[i] # Untouched
    BY <1>3, <1>4, <1>5
  <2>2. execs[i].outcome \notin Failures /\ results[i] = execs[i].outcome
    BY <2>1 DEF BatchInv, CallAccounted, ResultAccounted
  <2>3. QED
    BY <2>1, <2>2 DEF Received, Ended, Failures, Told, Visible
<1>6. hi \in Nat /\ Indices \in SUBSET Nat /\ Indices = 1 .. Len(calls) /\ Len(calls) \in Nat
  BY GroupIndices DEF Indices
<1>7. CASE GroupFailed
  <2>1. FinalResults = [i \in Indices |-> IF i > hi THEN "skipped" ELSE results[i]]
    BY <1>3, <1>4, <1>7 DEF FinalResults, FillPriorGroupSkipped
  <2>2. "skipped" \in Told
    BY DEF Told, Visible
  <2>3. \A i \in Indices : (IF i > hi THEN "skipped" ELSE results[i]) \in Told
    BY <1>5, <1>6, <2>2
  <2>4. QED
    BY <2>1, <2>3
<1>8. CASE ~GroupFailed
  <2>1. hi = Len(calls) /\ FinalResults = results
    BY <1>2, <1>3, <1>8 DEF FinalResults
  <2>2. \A i \in Indices : results[i] \in Told
    BY <1>5, <1>6, <2>1
  <2>3. QED
    BY <1>4, <2>1, <2>2
<1>9. QED
  BY <1>7, <1>8

\* The executions of a batch that is over, as the deferred function of Run
\* leaves them: every one has an outcome, and what was sent was started.
LEMMA ExecutionsAccounted ==
  ASSUME BatchInv, BatchOver, NEW e \in BOOLEAN, e <=> (firstErr # "none")
  PROVE  LET exs == AccountExecutions(execs, FinalResults, e)
         IN /\ exs \in [Indices -> Execution]
            /\ \A i \in Indices : exs[i].outcome # "none"
            /\ \A i \in sent : i \in Indices /\ exs[i].started
<1> DEFINE exs == AccountExecutions(execs, FinalResults, e)
<1>1. /\ execs \in [Indices -> {Untouched} \union Received] /\ DOMAIN execs = Indices
      /\ sent \subseteq Indices
  BY DEF BatchInv, BatchTypes
<1>2. ASSUME NEW i \in Indices
      PROVE  exs[i] = IF execs[i].outcome # "none" THEN execs[i]
                      ELSE IF FinalResults[i] # "none"
                           THEN [started |-> execs[i].started, outcome |-> FinalResults[i]]
                      ELSE IF e /\ ~execs[i].started
                           THEN [started |-> FALSE, outcome |-> "skipped"]
                      ELSE execs[i]
  BY <1>1 DEF AccountExecutions
<1>3. DOMAIN exs = Indices /\ exs = [i \in Indices |-> exs[i]]
  BY <1>1 DEF AccountExecutions
<1> HIDE DEF exs
<1>4. ASSUME NEW i \in Indices, execs[i] \in Received
      PROVE  exs[i] = execs[i] /\ execs[i] # Untouched
  <2>1. execs[i].outcome # "none"
    BY <1>4 DEF Received, Ended
  <2>2. exs[i] = execs[i]
    BY <1>2, <2>1
  <2>3. QED
    BY <2>1, <2>2 DEF Untouched
<1>5. ASSUME NEW i \in Indices, execs[i] = Untouched
      PROVE  exs[i] \in Execution /\ exs[i].outcome # "none"
  <2>1. execs[i].outcome = "none" /\ ~execs[i].started
    BY <1>5 DEF Untouched
  <2>2. CASE firstErr = "none"
    <3>1. FinalResults[i] \in Told
      BY <2>2, FinalResultsTold
    <3>2. FinalResults[i] # "none"
      BY <3>1 DEF Told, Visible
    <3>3. exs[i] = [started |-> FALSE, outcome |-> FinalResults[i]]
      <4>1. exs[i] = [started |-> execs[i].started, outcome |-> FinalResults[i]]
        BY <1>2, <2>1, <3>2
      <4>2. QED
        BY <1>5, <4>1 DEF Untouched
    <3>4. QED
      BY <3>1, <3>2, <3>3 DEF Execution
  <2>3. CASE firstErr # "none"
    <3>1. FinalResults = results
      BY <2>3 DEF FinalResults
    <3>2. results[i] = "none"
      BY <1>5 DEF BatchInv, CallAccounted, ResultAccounted
    <3>3. exs[i] = [started |-> FALSE, outcome |-> "skipped"]
      BY <1>2, <2>1, <2>3, <3>1, <3>2
    <3>4. QED
      BY <3>3 DEF Execution, Told, Visible
  <2>4. QED
    BY <2>2, <2>3
<1>6. ASSUME NEW i \in Indices
      PROVE  exs[i] \in Execution /\ exs[i].outcome # "none"
  <2>1. CASE execs[i] = Untouched
    BY <1>5, <2>1
  <2>2. CASE execs[i] \in Received
    <3>1. exs[i] = execs[i]
      BY <1>4, <2>2
    <3>2. QED
      BY <2>2, <3>1 DEF Received, Ended, Execution, Told, Visible, Failures
  <2>3. QED
    BY <1>1, <2>1, <2>2
<1>7. ASSUME NEW i \in sent
      PROVE  i \in Indices /\ exs[i].started
  <2>1. PICK lo \in Indices, hi \in Indices : Placed(lo, hi)
    BY DEF BatchInv, GroupPlaced
  <2>2. i \in Indices /\ execs[i] # Untouched
    BY <1>1, <2>1, GroupReceived DEF BatchOver
  <2>3. execs[i].started
    BY <2>2 DEF BatchInv, CallAccounted, ResultAccounted
  <2>4. QED
    BY <1>1, <1>4, <2>2, <2>3
<1>8. exs \in [Indices -> Execution]
  BY <1>3, <1>6
<1>9. QED
  BY <1>6, <1>7, <1>8 DEF exs

\* The identities of a batch, in order.
LEMMA IdSeqType ==
  ASSUME NEW b \in Seq(Call)
  PROVE  IdSeq(b) \in Seq(Nat) /\ Len(IdSeq(b)) = Len(b)
<1>1. Len(b) \in Nat /\ DOMAIN b = 1 .. Len(b)
  BY LenProperties
<1>2. \A i \in 1 .. Len(b) : b[i] \in Call
  BY ElementOfSeq
<1>3. IdSeq(b) \in [1 .. Len(b) -> Nat]
  BY <1>1, <1>2 DEF IdSeq, Call
<1>4. QED
  BY <1>1, <1>3, FunctionIsSeq

\* A batch that is not run records a refusal of every call.
LEMMA NeverRunTruthful ==
  ASSUME NEW b \in Seq(Call), NEW res \in [1 .. Len(b) -> Told], NEW s
  PROVE  LET h == [calls |-> IdSeq(b), execs |-> NeverRun(res), sent |-> {}]
         IN h \in Entry /\ EntryTruthful(h, s)
<1> DEFINE h == [calls |-> IdSeq(b), execs |-> NeverRun(res), sent |-> {}]
<1>1. Len(b) \in Nat /\ IdSeq(b) \in Seq(Nat) /\ Len(IdSeq(b)) = Len(b)
  BY LenProperties, IdSeqType
<1>2. NeverRun(res) = [i \in 1 .. Len(b) |-> [started |-> FALSE, outcome |-> res[i]]]
  BY DEF NeverRun
<1>3. NeverRun(res) \in [1 .. Len(b) -> Execution]
  BY <1>2 DEF Execution
<1>4. /\ NeverRun(res) \in Seq(Execution) /\ Len(NeverRun(res)) = Len(b)
      /\ DOMAIN NeverRun(res) = 1 .. Len(b)
  BY <1>1, <1>3, FunctionIsSeq
<1>5. \A i \in 1 .. Len(b) : NeverRun(res)[i].outcome # "none"
  BY <1>2 DEF Told, Visible
<1>6. h \in Entry
  BY <1>1, <1>4 DEF Entry
<1>7. EntryTruthful(h, s)
  BY <1>1, <1>4, <1>5 DEF EntryTruthful
<1>8. QED
  BY <1>6, <1>7

\* A decision that is refused or settles runs nothing and records nothing.
LEMMA UnrunTruthful ==
  ASSUME NEW b \in Seq(Call), NEW s, b = <<>> \/ s \notin {"none", "completed"}
  PROVE  LET h == [calls |-> IdSeq(b), execs |-> NoExecutions, sent |-> {}]
         IN h \in Entry /\ EntryTruthful(h, s)
<1> DEFINE h == [calls |-> IdSeq(b), execs |-> NoExecutions, sent |-> {}]
<1>1. IdSeq(b) \in Seq(Nat) /\ Len(IdSeq(b)) = Len(b)
  BY IdSeqType
<1>2. NoExecutions \in Seq(Execution) /\ Len(NoExecutions) = 0 /\ DOMAIN NoExecutions = {}
  BY DEF NoExecutions
<1>3. b = <<>> => Len(b) = 0
  OBVIOUS
<1>4. h \in Entry
  BY <1>1, <1>2 DEF Entry
<1>5. EntryTruthful(h, s)
  BY <1>1, <1>2, <1>3 DEF EntryTruthful
<1>6. QED
  BY <1>4, <1>5

\* A batch that is over records what was done.
LEMMA OverTruthful ==
  ASSUME BatchInv, BatchOver, NEW e \in BOOLEAN, e <=> (firstErr # "none"), NEW s
  PROVE  LET h == [calls |-> IdSeq(calls),
                   execs |-> AccountExecutions(execs, FinalResults, e), sent |-> sent]
         IN h \in Entry /\ EntryTruthful(h, s)
<1> DEFINE exs == AccountExecutions(execs, FinalResults, e)
           h == [calls |-> IdSeq(calls), execs |-> exs, sent |-> sent]
<1>1. /\ exs \in [Indices -> Execution]
      /\ \A i \in Indices : exs[i].outcome # "none"
      /\ \A i \in sent : i \in Indices /\ exs[i].started
  BY ExecutionsAccounted
<1> HIDE DEF exs
<1>2. calls \in Seq(Call) /\ Len(calls) \in Nat /\ Indices = 1 .. Len(calls)
      /\ sent \in SUBSET Nat
  BY GroupIndices DEF BatchInv, BatchTypes, Indices
<1>3. IdSeq(calls) \in Seq(Nat) /\ Len(IdSeq(calls)) = Len(calls)
  BY <1>2, IdSeqType
<1>4. exs \in Seq(Execution) /\ Len(exs) = Len(calls) /\ DOMAIN exs = Indices
  BY <1>1, <1>2, FunctionIsSeq
<1>5. h \in Entry
  BY <1>2, <1>3, <1>4 DEF Entry
<1>6. EntryTruthful(h, s)
  BY <1>1, <1>3, <1>4 DEF EntryTruthful
<1>7. QED
  BY <1>5, <1>6 DEF exs

\* preflight and the check across steps give every call a result.
LEMMA RefusalTold ==
  ASSUME NEW b \in Seq(Call), NEW open, NEW full, Refused(Preflight(b, open, full))
  PROVE  Preflight(b, open, full) \in [1 .. Len(b) -> Told]
<1> DEFINE v == [i \in DOMAIN b |-> Verdict(b, i, open, full)]
<1>1. DOMAIN b = 1 .. Len(b)
  BY LenProperties
<1>2. ~(\A i \in DOMAIN b : v[i] = "none")
  BY DEF Preflight, Refused
<1>3. Preflight(b, open, full)
        = [i \in DOMAIN b |-> IF v[i] = "none" THEN "skipped" ELSE v[i]]
  BY <1>2 DEF Preflight
<1>4. \A i \in DOMAIN b : v[i] \in {"none", "invalid", "badargs"}
  BY DEF Verdict
<1> HIDE DEF v
<1>5. QED
  BY <1>1, <1>3, <1>4 DEF Told, Visible

LEMMA ReuseTold ==
  ASSUME NEW b \in Seq(Call)
  PROVE  /\ ReuseResults(b) \in [1 .. Len(b) -> Told]
         /\ ~ArgumentFailure(ReuseResults(b))
<1>1. DOMAIN b = 1 .. Len(b)
  BY LenProperties
<1>2. ReuseResults(b) = [i \in 1 .. Len(b) |-> IF b[i].id \in seen THEN "invalid" ELSE "skipped"]
  BY <1>1 DEF ReuseResults
<1>3. QED
  BY <1>2 DEF Told, Visible, ArgumentFailure

-----------------------------------------------------------------------------
(* The transcript.                                                          *)

\* One more exchange, told as many results as were asked for.
LEMMA ExchangeAdded ==
  ASSUME NEW m \in Nat, NEW t, NEW u, Exchanged(t, m),
         \A k \in 1 .. 2 * m : u[k] = t[k],
         u[2 * m + 1].role = "assistant", u[2 * m + 2].role = "tool",
         Len(u[2 * m + 2].items) = Len(u[2 * m + 1].items)
  PROVE  Exchanged(u, m + 1)
<1>1. ASSUME NEW k \in 1 .. m + 1
      PROVE  /\ u[2 * k - 1].role = "assistant" /\ u[2 * k].role = "tool"
             /\ Len(u[2 * k].items) = Len(u[2 * k - 1].items)
  <2>1. CASE k \in 1 .. m
    <3>1. 2 * k - 1 \in 1 .. 2 * m /\ 2 * k \in 1 .. 2 * m
      BY <2>1
    <3>2. u[2 * k - 1] = t[2 * k - 1] /\ u[2 * k] = t[2 * k]
      BY <3>1
    <3>3. QED
      BY <2>1, <3>2 DEF Exchanged
  <2>2. CASE k = m + 1
    <3>1. 2 * k - 1 = 2 * m + 1 /\ 2 * k = 2 * m + 2
      BY <2>2
    <3>2. QED
      BY <3>1
  <2>3. QED
    BY <2>1, <2>2
<1>2. QED
  BY <1>1 DEF Exchanged

\* Where the refused arguments are after one more exchange.
LEMMA CorrectionsAdded ==
  ASSUME NEW m \in Nat, NEW t, NEW u, NEW res, NEW c,
         correction \in {"unused", "pending", "used"},
         Corrections(t, m, correction),
         \A k \in 1 .. 2 * m : u[k] = t[k],
         u[2 * m + 2].items = res,
         \/ c = correction /\ correction # "pending" /\ ~ArgumentFailure(res)
         \/ c = Corrected(res) /\ ~CorrectionFails(res)
  PROVE  Corrections(u, m + 1, c)
<1> DEFINE P(k) == ArgumentFailure(u[2 * k].items)
           Q(k) == InvalidResult(u[2 * k].items)
<1>1. ASSUME NEW k \in 1 .. m
      PROVE  u[2 * k] = t[2 * k]
  <2>1. 2 * k \in 1 .. 2 * m
    OBVIOUS
  <2>2. QED
    BY <2>1
<1>2. /\ 2 * (m + 1) = 2 * m + 2
      /\ P(m + 1) <=> ArgumentFailure(res)
      /\ Q(m + 1) <=> InvalidResult(res)
  <2>1. 2 * (m + 1) = 2 * m + 2
    OBVIOUS
  <2>2. QED
    BY <2>1
<1>3. ASSUME NEW k \in 1 .. m, P(k)
      PROVE  /\ \A n \in 1 .. m : n > k => ~P(n)
             /\ k < m => ~Q(k + 1)
             /\ correction # "unused"
             /\ correction = "pending" => k = m
             /\ correction = "used" => k < m
  <2>1. ArgumentFailure(t[2 * k].items)
    BY <1>1, <1>3
  <2>2. /\ \A n \in 1 .. m : n > k => ~ArgumentFailure(t[2 * n].items)
        /\ k < m => ~InvalidResult(t[2 * (k + 1)].items)
        /\ correction # "unused"
        /\ correction = "pending" => k = m
        /\ correction = "used" => k < m
    BY <2>1 DEF Corrections
  <2>3. k < m => k + 1 \in 1 .. m
    OBVIOUS
  <2>4. QED
    BY <1>1, <2>2, <2>3
<1>4. Corrections(u, m + 1, c) <=>
        \A k \in 1 .. m + 1 : P(k) =>
          /\ \A n \in 1 .. m + 1 : n > k => ~P(n)
          /\ k < m + 1 => ~Q(k + 1)
          /\ c # "unused"
          /\ c = "pending" => k = m + 1
          /\ c = "used" => k < m + 1
  BY DEF Corrections
<1> HIDE DEF P, Q
<1>5. CASE c = correction /\ correction # "pending" /\ ~P(m + 1)
  <2>1. ASSUME NEW k \in 1 .. m + 1, P(k)
        PROVE  /\ \A n \in 1 .. m + 1 : n > k => ~P(n)
               /\ k < m + 1 => ~Q(k + 1)
               /\ c # "unused"
               /\ c = "pending" => k = m + 1
               /\ c = "used" => k < m + 1
    <3>1. k \in 1 .. m
      BY <1>5, <2>1
    <3>2. correction # "unused" /\ k < m /\ ~Q(k + 1) /\ \A n \in 1 .. m : n > k => ~P(n)
      BY <1>3, <1>5, <2>1, <3>1
    <3>3. \A n \in 1 .. m + 1 : n \in 1 .. m \/ n = m + 1
      OBVIOUS
    <3>4. QED
      BY <1>5, <3>1, <3>2, <3>3
  <2>2. QED
    BY <1>4, <2>1
<1>6. CASE c = Corrected(res) /\ ~CorrectionFails(res) /\ NeedsCorrection(res)
  <2>1. correction = "unused" /\ c = "pending"
    BY <1>6 DEF CorrectionFails, Corrected
  <2>2. ASSUME NEW k \in 1 .. m + 1, P(k)
        PROVE  /\ \A n \in 1 .. m + 1 : n > k => ~P(n)
               /\ k < m + 1 => ~Q(k + 1)
               /\ c # "unused"
               /\ c = "pending" => k = m + 1
               /\ c = "used" => k < m + 1
    <3>1. k \notin 1 .. m
      BY <1>3, <2>1, <2>2
    <3>2. k = m + 1
      BY <3>1
    <3>3. QED
      BY <2>1, <3>2
  <2>3. QED
    BY <1>4, <2>2
<1>7. CASE c = Corrected(res) /\ ~NeedsCorrection(res) /\ correction = "pending"
  <2>1. c = "used" /\ ~P(m + 1) /\ ~Q(m + 1)
    BY <1>2, <1>7 DEF NeedsCorrection, Corrected
  <2>2. ASSUME NEW k \in 1 .. m + 1, P(k)
        PROVE  /\ \A n \in 1 .. m + 1 : n > k => ~P(n)
               /\ k < m + 1 => ~Q(k + 1)
               /\ c # "unused"
               /\ c = "pending" => k = m + 1
               /\ c = "used" => k < m + 1
    <3>1. k \in 1 .. m
      BY <2>1, <2>2
    <3>2. k = m
      BY <1>3, <1>7, <2>2, <3>1
    <3>3. \A n \in 1 .. m + 1 : n > k => n = m + 1
      BY <3>2
    <3>4. QED
      BY <2>1, <3>1, <3>2, <3>3
  <2>3. QED
    BY <1>4, <2>2
<1>8. CASE c = Corrected(res) /\ ~NeedsCorrection(res) /\ correction # "pending"
  BY <1>2, <1>5, <1>8 DEF NeedsCorrection, Corrected
<1>9. QED
  BY <1>2, <1>5, <1>6, <1>7, <1>8

-----------------------------------------------------------------------------
(* The turn.                                                                *)

\* One more entry, when the turn was still running.
LEMMA HistoryGrows ==
  ASSUME TurnInv, Alive, NEW h \in Entry, NEW s, EntryTruthful(h, s),
         history' = Append(history, h)
  PROVE  /\ history' \in Seq(Entry)
         /\ \A k \in 1 .. Len(history') : EntryTruthful(history'[k], s)
<1>1. history \in Seq(Entry) /\ Len(history) \in Nat /\ terminal = "none"
  BY LenProperties DEF TurnInv
<1>2. /\ history' \in Seq(Entry) /\ Len(history') = Len(history) + 1
      /\ history'[Len(history) + 1] = h
      /\ \A k \in 1 .. Len(history) : history'[k] = history[k]
  BY <1>1
<1>3. ASSUME NEW k \in 1 .. Len(history')
      PROVE  EntryTruthful(history'[k], s)
  <2>1. CASE k \in 1 .. Len(history)
    <3>1. EntryTruthful(history[k], "none")
      BY <1>1, <2>1 DEF TurnInv
    <3>2. EntryTruthful(history[k], s)
      BY <3>1 DEF EntryTruthful
    <3>3. QED
      BY <1>2, <2>1, <3>2
  <2>2. CASE k = Len(history) + 1
    BY <1>2, <2>2
  <2>3. QED
    BY <1>1, <1>2, <2>1, <2>2
<1>4. QED
  BY <1>2, <1>3

\* A step outside a batch that shows, runs and records nothing.
LEMMA QuietKeeps ==
  ASSUME TurnInv, pc # "batch", pc' # "batch",
         UNCHANGED <<transcript, correction, history, routine>>,
         Alive' => Alive /\ terminal' = terminal,
         terminal' = terminal \/ Alive
  PROVE  TurnInv'
<1>1. Alive' => TranscriptInv'
  BY DEF TurnInv, TranscriptInv
<1>2. ASSUME NEW k \in 1 .. Len(history)
      PROVE  EntryTruthful(history[k], terminal')
  BY DEF TurnInv, EntryTruthful
<1>3. QED
  BY <1>1, <1>2 DEF TurnInv

\* A step that only moves the batch, or nothing the invariant speaks of.
LEMMA BatchMoves ==
  ASSUME TurnInv, UNCHANGED <<pc, transcript, correction, history, terminal, calls>>,
         pc = "batch" => BatchInv', pc # "batch" => UNCHANGED routine
  PROVE  TurnInv'
<1>1. Alive' <=> Alive
  BY DEF Alive
<1>2. Assistant(calls)' = Assistant(calls)
  BY DEF Assistant, IdSeq
<1>3. Alive => TranscriptInv'
  BY <1>2 DEF TurnInv, TranscriptInv
<1>4. QED
  BY <1>1, <1>3 DEF TurnInv

\* What is asked and told are messages.
LEMMA MessageTypes ==
  ASSUME NEW b \in Seq(Call), NEW res \in [1 .. Len(b) -> Told]
  PROVE  /\ Assistant(b) \in Message /\ Assistant(b).role = "assistant"
         /\ ToolMessage(res) \in Message /\ ToolMessage(res).role = "tool"
         /\ ToolMessage(res).items = res
         /\ Len(ToolMessage(res).items) = Len(Assistant(b).items)
<1>1. Len(b) \in Nat /\ IdSeq(b) \in Seq(Nat) /\ Len(IdSeq(b)) = Len(b)
  BY LenProperties, IdSeqType
<1>2. res \in Seq(Told) /\ Len(res) = Len(b)
  BY <1>1, FunctionIsSeq
<1>3. QED
  BY <1>1, <1>2 DEF Assistant, ToolMessage, Message

\* The results of a step complete an exchange.
LEMMA TranscriptGrows ==
  ASSUME TurnInv, Alive, NEW b \in Seq(Call), NEW res \in [1 .. Len(b) -> Told],
         \/ /\ pc # "batch"
            /\ transcript' = transcript \o <<Assistant(b), ToolMessage(res)>>
         \/ /\ pc = "batch" /\ b = calls
            /\ transcript' = Append(transcript, ToolMessage(res)),
         pc' # "batch"
  PROVE  /\ transcript' \in Seq(Message)
         /\ \/ correction' = correction /\ correction # "pending" /\ ~ArgumentFailure(res)
            \/ correction' = Corrected(res) /\ ~CorrectionFails(res)
            => TranscriptInv'
<1>1. /\ Assistant(b) \in Message /\ Assistant(b).role = "assistant"
      /\ ToolMessage(res) \in Message /\ ToolMessage(res).role = "tool"
      /\ ToolMessage(res).items = res
      /\ Len(ToolMessage(res).items) = Len(Assistant(b).items)
  BY MessageTypes
<1>2. PICK m \in 0 .. Len(transcript) :
        /\ Len(transcript) = (IF pc = "batch" THEN 2 * m + 1 ELSE 2 * m)
        /\ Exchanged(transcript, m)
        /\ Corrections(transcript, m, correction)
        /\ pc = "batch" => transcript[2 * m + 1] = Assistant(calls)
  BY DEF TurnInv, TranscriptInv
<1>3. transcript \in Seq(Message) /\ Len(transcript) \in Nat /\ m \in Nat
  BY LenProperties DEF TurnInv
<1> DEFINE T == ToolMessage(res)
           A == Assistant(b)
<1> HIDE DEF T, A
<1>4. /\ transcript' \in Seq(Message) /\ Len(transcript') = 2 * m + 2
      /\ transcript'[2 * m + 1] = A /\ transcript'[2 * m + 2] = T
      /\ \A k \in 1 .. 2 * m : transcript'[k] = transcript[k]
  <2>1. T \in Message /\ A \in Message
    BY <1>1 DEF T, A
  <2>2. CASE pc # "batch"
    <3>1. Len(transcript) = 2 * m /\ transcript' = transcript \o <<A, T>>
      BY <1>2, <2>2 DEF T, A
    <3>2. /\ <<A, T>> \in Seq(Message) /\ Len(<<A, T>>) = 2
          /\ <<A, T>>[1] = A /\ <<A, T>>[2] = T
      BY <2>1
    <3>3. /\ transcript' \in Seq(Message) /\ Len(transcript') = 2 * m + 2
          /\ \A i \in 1 .. 2 * m + 2 : transcript'[i] =
               IF i <= 2 * m THEN transcript[i] ELSE <<A, T>>[i - 2 * m]
      BY <1>3, <3>1, <3>2, ConcatProperties
    <3>4. QED
      BY <1>3, <3>2, <3>3
  <2>3. CASE pc = "batch"
    <3>1. /\ Len(transcript) = 2 * m + 1 /\ transcript' = Append(transcript, T)
          /\ transcript[2 * m + 1] = A
      BY <1>2, <2>3 DEF T, A
    <3>2. QED
      BY <1>3, <2>1, <3>1
  <2>4. QED
    BY <2>2, <2>3
<1>5. ASSUME \/ correction' = correction /\ correction # "pending" /\ ~ArgumentFailure(res)
             \/ correction' = Corrected(res) /\ ~CorrectionFails(res)
      PROVE  TranscriptInv'
  <2>1. A.role = "assistant" /\ T.role = "tool" /\ Len(T.items) = Len(A.items) /\ T.items = res
    BY <1>1 DEF A, T
  <2>2. Exchanged(transcript', m + 1)
    BY <1>2, <1>3, <1>4, <2>1, ExchangeAdded
  <2>3. correction \in {"unused", "pending", "used"}
    BY DEF TurnInv
  <2>4. Corrections(transcript', m + 1, correction')
    <3>1. transcript'[2 * m + 2].items = res
      BY <1>4, <2>1
    <3>2. Corrections(transcript, m, correction) /\ m \in Nat
      BY <1>2, <1>3
    <3>3. \A k \in 1 .. 2 * m : transcript'[k] = transcript[k]
      BY <1>4
    <3> DEFINE u == transcript'
               c == correction'
    <3>4. /\ m \in Nat /\ Corrections(transcript, m, correction)
          /\ \A k \in 1 .. 2 * m : u[k] = transcript[k]
          /\ u[2 * m + 2].items = res
      BY <3>1, <3>2, <3>3
    <3>5. \/ c = correction /\ correction # "pending" /\ ~ArgumentFailure(res)
          \/ c = Corrected(res) /\ ~CorrectionFails(res)
      BY <1>5
    <3>6. Corrections(u, m + 1, c)
      <4> HIDE DEF u, c, A, T
      <4>1. QED
        BY <2>3, <3>4, <3>5, CorrectionsAdded
    <3>7. QED
      BY <3>6
  <2>5. m + 1 \in 0 .. Len(transcript') /\ Len(transcript') = 2 * (m + 1)
    BY <1>3, <1>4
  <2>6. QED
    BY <2>2, <2>4, <2>5 DEF TranscriptInv
<1>6. QED
  BY <1>4, <1>5

LEMMA CorrectedType ==
  ASSUME correction \in {"unused", "pending", "used"}, NEW res
  PROVE  Corrected(res) \in {"unused", "pending", "used"}
  BY DEF Corrected

\* The status of a turn that fails.
LEMMA FailTurnEnds ==
  ASSUME FailTurn \/ CancelTurn
  PROVE  pc' = "terminal" /\ terminal' \notin {"none", "completed"}
  BY DEF FailTurn, CancelTurn, Ending

LEMMA StoppedEnds ==
  ASSUME background /\ (CompleteTurn \/ FailTurn)
  PROVE  pc' = "terminal"
  BY DEF CompleteTurn, FailTurn, Ending

LEMMA ObserveKeeps ==
  ASSUME TurnInv, Observe
  PROVE  TurnInv'
<1>1. pc = "observe" /\ UNCHANGED <<transcript, correction, history, batchVars>>
  BY DEF Observe
<1>2. pc' = "terminal" \/ (pc' = "prepare" /\ UNCHANGED terminal)
  BY DEF Observe, StoppedOr, CompleteTurn, FailTurn, Ending
<1>3. pc # "batch" /\ pc' # "batch" /\ Alive /\ (Alive' => terminal' = terminal)
  BY <1>1, <1>2 DEF Alive
<1>4. QED
  BY <1>1, <1>3, QuietKeeps DEF batchVars

LEMMA PrepareContextKeeps ==
  ASSUME TurnInv, PrepareContext
  PROVE  TurnInv'
<1>1. pc = "prepare" /\ UNCHANGED <<transcript, correction, history, batchVars>>
  BY DEF PrepareContext
<1>2. pc' = "terminal" \/ (pc' = "step" /\ UNCHANGED terminal)
  BY DEF PrepareContext, FailTurn, Ending
<1>3. pc # "batch" /\ pc' # "batch" /\ Alive /\ (Alive' => terminal' = terminal)
  BY <1>1, <1>2 DEF Alive
<1>4. QED
  BY <1>1, <1>3, QuietKeeps DEF batchVars

LEMMA BeginStepKeeps ==
  ASSUME TurnInv, BeginStep
  PROVE  TurnInv'
<1>1. pc = "step" /\ UNCHANGED <<transcript, correction, history, batchVars>>
  BY DEF BeginStep
<1>2. pc' = "terminal" \/ (pc' = "model" /\ UNCHANGED terminal)
  BY DEF BeginStep, StoppedOr, CompleteTurn, FailTurn, CancelTurn, Ending
<1>3. pc # "batch" /\ pc' # "batch" /\ Alive /\ (Alive' => terminal' = terminal)
  BY <1>1, <1>2 DEF Alive
<1>4. QED
  BY <1>1, <1>3, QuietKeeps DEF batchVars

LEMMA GenerateFailsKeeps ==
  ASSUME TurnInv, GenerateFails
  PROVE  TurnInv'
<1>1. pc = "model" /\ UNCHANGED <<transcript, correction, history, batchVars>>
  BY DEF GenerateFails
<1>2. pc' = "terminal"
  BY DEF GenerateFails, FailTurn, Ending
<1>3. pc # "batch" /\ pc' # "batch" /\ Alive /\ (Alive' => terminal' = terminal)
  BY <1>1, <1>2 DEF Alive
<1>4. QED
  BY <1>1, <1>3, QuietKeeps DEF batchVars

LEMMA ResumeKeeps ==
  ASSUME TurnInv, Resume
  PROVE  TurnInv'
<1>1. pc = "resume" /\ UNCHANGED <<transcript, correction, history, batchVars>>
  BY DEF Resume
<1>2. pc' = "terminal" \/ (pc' = "step" /\ UNCHANGED terminal)
  BY DEF Resume, FailTurn, Ending
<1>3. pc # "batch" /\ pc' # "batch" /\ Alive /\ (Alive' => terminal' = terminal)
  BY <1>1, <1>2 DEF Alive
<1>4. QED
  BY <1>1, <1>3, QuietKeeps DEF batchVars

\* The history is handed to the store and the game is told.
LEMMA CompletionKeeps ==
  ASSUME TurnInv, RefuseTurn \/ PersistTerminalHistory \/ SendTurnCompletion
  PROVE  TurnInv'
<1>1. /\ pc \in {"observe", "terminal", "completing"} /\ pc' \in {"completing", "ended"}
      /\ UNCHANGED <<transcript, correction, history, terminal, batchVars>>
  BY DEF RefuseTurn, PersistTerminalHistory, SendTurnCompletion
<1>2. pc # "batch" /\ pc' # "batch" /\ ~Alive'
  BY <1>1 DEF Alive
<1>3. QED
  BY <1>1, <1>2, QuietKeeps DEF batchVars

\* A turn that ends keeps what it has shown and recorded.
LEMMA EndKeeps ==
  ASSUME TurnInv, pc' = "terminal",
         transcript' \in Seq(Message), correction' \in {"unused", "pending", "used"},
         history' \in Seq(Entry), routine' = <<>>,
         \A k \in 1 .. Len(history') : EntryTruthful(history'[k], terminal')
  PROVE  TurnInv'
<1>1. ~Alive' /\ pc' # "batch"
  BY DEF Alive
<1>2. QED
  BY <1>1 DEF TurnInv

\* A turn that goes on after an exchange is complete.
LEMMA ExchangeKeeps ==
  ASSUME TurnInv, Alive, pc' \in {"step", "resume"}, terminal' = terminal,
         transcript' \in Seq(Message), correction' \in {"unused", "pending", "used"},
         TranscriptInv',
         history' \in Seq(Entry), routine' = <<>>,
         \A k \in 1 .. Len(history') : EntryTruthful(history'[k], "none")
  PROVE  TurnInv'
<1>1. Alive' /\ pc' # "batch" /\ terminal' = "none"
  BY DEF Alive, TurnInv
<1>2. QED
  BY <1>1 DEF TurnInv

LEMMA RefuseDecisionKeeps ==
  ASSUME TurnInv, NEW d \in Decisions, RefuseDecision(d)
  PROVE  TurnInv'
<1> DEFINE h == [calls |-> IdSeq(d.calls), execs |-> NoExecutions, sent |-> {}]
<1>1. /\ pc = "model" /\ FailTurn /\ history' = Append(history, h)
      /\ UNCHANGED <<transcript, correction, routine>>
  BY DEF RefuseDecision, Collected, batchVars
<1>2. Alive /\ pc' = "terminal" /\ terminal' \notin {"none", "completed"}
  BY <1>1, FailTurnEnds DEF Alive
<1>3. d.calls \in Seq(Call)
  BY TurnAssumption DEF Call
<1>4. h \in Entry /\ EntryTruthful(h, terminal')
  BY <1>2, <1>3, UnrunTruthful
<1> HIDE DEF h
<1>5. /\ history' \in Seq(Entry)
      /\ \A k \in 1 .. Len(history') : EntryTruthful(history'[k], terminal')
  BY <1>1, <1>2, <1>4, HistoryGrows
<1>6. /\ transcript' \in Seq(Message) /\ correction' \in {"unused", "pending", "used"}
      /\ routine' = <<>>
  BY <1>1 DEF TurnInv
<1>7. QED
  BY <1>2, <1>5, <1>6, EndKeeps

LEMMA SettleKeeps ==
  ASSUME TurnInv, NEW d \in Decisions, Settle(d)
  PROVE  TurnInv'
<1> DEFINE h == [calls |-> IdSeq(d.calls), execs |-> NoExecutions, sent |-> {}]
<1>1. /\ pc = "model" /\ pc' = "terminal" /\ history' = Append(history, h)
      /\ UNCHANGED <<transcript, correction, routine>> /\ d.calls = <<>>
  BY DEF Settle, Collected, batchVars, CompleteTurn, Ending
<1>2. Alive
  BY <1>1 DEF Alive
<1>3. d.calls \in Seq(Call)
  BY TurnAssumption DEF Call
<1>4. h \in Entry /\ EntryTruthful(h, terminal')
  BY <1>1, <1>3, UnrunTruthful
<1> HIDE DEF h
<1>5. /\ history' \in Seq(Entry)
      /\ \A k \in 1 .. Len(history') : EntryTruthful(history'[k], terminal')
  BY <1>1, <1>2, <1>4, HistoryGrows
<1>6. /\ transcript' \in Seq(Message) /\ correction' \in {"unused", "pending", "used"}
      /\ routine' = <<>>
  BY <1>1 DEF TurnInv
<1>7. QED
  BY <1>1, <1>5, <1>6, EndKeeps

\* A batch that is refused, for a reused identity or by preflight.
LEMMA RefusedKeeps ==
  ASSUME TurnInv, pc = "model", NEW b \in Seq(Call), NEW res \in [1 .. Len(b) -> Told],
         transcript' = transcript \o <<Assistant(b), ToolMessage(res)>>,
         history' = Append(history, [calls |-> IdSeq(b), execs |-> NeverRun(res), sent |-> {}]),
         UNCHANGED routine, correction' \in {"unused", "pending", "used"},
         \/ pc' = "terminal"
         \/ /\ pc' = "step" /\ terminal' = terminal
            /\ \/ correction' = correction /\ correction # "pending" /\ ~ArgumentFailure(res)
               \/ correction' = Corrected(res) /\ ~CorrectionFails(res)
  PROVE  TurnInv'
<1> DEFINE h == [calls |-> IdSeq(b), execs |-> NeverRun(res), sent |-> {}]
<1>1. Alive /\ pc' # "batch" /\ pc # "batch"
  BY DEF Alive
<1>2. \A s : h \in Entry /\ EntryTruthful(h, s)
  BY NeverRunTruthful
<1>3. history' = Append(history, h)
  OBVIOUS
<1> HIDE DEF h
<1>4. \A s : /\ history' \in Seq(Entry)
             /\ \A k \in 1 .. Len(history') : EntryTruthful(history'[k], s)
  BY <1>1, <1>2, <1>3, HistoryGrows
<1>5. /\ transcript' \in Seq(Message)
      /\ \/ correction' = correction /\ correction # "pending" /\ ~ArgumentFailure(res)
         \/ correction' = Corrected(res) /\ ~CorrectionFails(res)
         => TranscriptInv'
  BY <1>1, TranscriptGrows
<1>6. routine' = <<>>
  BY <1>1 DEF TurnInv
<1>7. CASE pc' = "terminal"
  BY <1>4, <1>5, <1>6, <1>7, EndKeeps
<1>8. CASE pc' = "step" /\ terminal' = terminal
  <2>1. TranscriptInv'
    BY <1>5, <1>8
  <2>2. QED
    BY <1>1, <1>4, <1>5, <1>6, <1>8, <2>1, ExchangeKeeps
<1>9. QED
  BY <1>7, <1>8

LEMMA ReuseCallIdKeeps ==
  ASSUME TurnInv, NEW d \in Decisions, ReuseCallId(d)
  PROVE  TurnInv'
<1> DEFINE res == ReuseResults(d.calls)
<1>1. d.calls \in Seq(Call)
  BY TurnAssumption DEF Call
<1>2. res \in [1 .. Len(d.calls) -> Told] /\ ~ArgumentFailure(res)
  BY <1>1, ReuseTold
<1>3. /\ pc = "model"
      /\ transcript' = transcript \o <<Assistant(d.calls), ToolMessage(res)>>
      /\ history' = Append(history, [calls |-> IdSeq(d.calls), execs |-> NeverRun(res),
                                     sent |-> {}])
      /\ correction' = correction /\ UNCHANGED routine
  BY DEF ReuseCallId, Counted, Collected, batchVars
<1>4. pc' = "terminal" \/ (correction # "pending" /\ pc' = "step" /\ terminal' = terminal)
  BY DEF ReuseCallId, FailTurn, Ending
<1> HIDE DEF res
<1>5. correction' \in {"unused", "pending", "used"}
  BY <1>3 DEF TurnInv
<1>6. QED
  BY <1>1, <1>2, <1>3, <1>4, <1>5, RefusedKeeps

LEMMA RefuseBatchKeeps ==
  ASSUME TurnInv, NEW d \in Decisions, RefuseBatch(d)
  PROVE  TurnInv'
<1> DEFINE res == Screened(d)
<1>1. d.calls \in Seq(Call)
  BY TurnAssumption DEF Call
<1>2. res \in [1 .. Len(d.calls) -> Told]
  <2>1. Refused(res)
    BY DEF RefuseBatch
  <2>2. QED
    BY <1>1, <2>1, RefusalTold DEF Screened
<1>3. /\ pc = "model"
      /\ transcript' = transcript \o <<Assistant(d.calls), ToolMessage(res)>>
      /\ history' = Append(history, [calls |-> IdSeq(d.calls), execs |-> NeverRun(res),
                                     sent |-> {}])
      /\ UNCHANGED routine
  BY DEF RefuseBatch, Counted, Collected, batchVars
<1>4. \/ pc' = "terminal" /\ correction' = correction
      \/ /\ pc' = "terminal" \/ (pc' = "step" /\ terminal' = terminal)
         /\ correction' = Corrected(res) /\ ~CorrectionFails(res)
  BY DEF RefuseBatch, StoppedOr, CompleteTurn, FailTurn, Ending
<1> HIDE DEF res
<1>5. correction \in {"unused", "pending", "used"}
  BY DEF TurnInv
<1>6. correction' \in {"unused", "pending", "used"}
  BY <1>4, <1>5, CorrectedType
<1>7. QED
  BY <1>1, <1>2, <1>3, <1>4, <1>6, RefusedKeeps

LEMMA RefusedBatchFailsKeeps ==
  ASSUME TurnInv, NEW d \in Decisions, RefusedBatchFails(d)
  PROVE  TurnInv'
<1> DEFINE res == Screened(d)
           h == [calls |-> IdSeq(d.calls), execs |-> NeverRun(res), sent |-> {}]
<1>1. d.calls \in Seq(Call)
  BY TurnAssumption DEF Call
<1>2. res \in [1 .. Len(d.calls) -> Told]
  <2>1. Refused(res)
    BY DEF RefusedBatchFails
  <2>2. QED
    BY <1>1, <2>1, RefusalTold DEF Screened
<1>3. /\ pc = "model" /\ FailTurn /\ history' = Append(history, h)
      /\ transcript' = Append(transcript, Assistant(d.calls))
      /\ UNCHANGED <<correction, routine>>
  BY DEF RefusedBatchFails, Counted, Collected, batchVars
<1>4. Alive /\ pc' = "terminal"
  BY <1>3, FailTurnEnds DEF Alive
<1> HIDE DEF res
<1>5. h \in Entry /\ EntryTruthful(h, terminal')
  BY <1>1, <1>2, NeverRunTruthful
<1> HIDE DEF h
<1>6. /\ history' \in Seq(Entry)
      /\ \A k \in 1 .. Len(history') : EntryTruthful(history'[k], terminal')
  BY <1>3, <1>4, <1>5, HistoryGrows
<1>7. Assistant(d.calls) \in Message
  BY <1>1, IdSeqType DEF Assistant, Message
<1>8. /\ transcript' \in Seq(Message) /\ correction' \in {"unused", "pending", "used"}
      /\ routine' = <<>>
  BY <1>3, <1>7 DEF TurnInv
<1>9. QED
  BY <1>4, <1>6, <1>8, EndKeeps

LEMMA StartBatchKeeps ==
  ASSUME TurnInv, NEW d \in Decisions, StartBatch(d)
  PROVE  TurnInv'
<1>1. d.calls \in Seq(Call) /\ d.calls # <<>>
  BY TurnAssumption DEF Call, StartBatch, Counted
<1>2. /\ pc = "model" /\ pc' = "batch" /\ BeginBatch(d.calls)
      /\ transcript' = Append(transcript, Assistant(d.calls))
      /\ UNCHANGED <<correction, history, terminal>>
  BY DEF StartBatch, Counted
<1>3. BatchInv'
  BY <1>1, <1>2, BatchBegins
<1>4. calls' = d.calls
  BY <1>2 DEF BeginBatch
<1>5. Alive /\ Alive'
  BY <1>2 DEF Alive
<1>6. Assistant(d.calls) \in Message /\ Assistant(d.calls) = Assistant(calls)'
  <2>1. IdSeq(d.calls) \in Seq(Nat)
    BY <1>1, IdSeqType
  <2>2. QED
    BY <1>4, <2>1 DEF Assistant, Message, IdSeq
<1>7. PICK m \in 0 .. Len(transcript) :
        /\ Len(transcript) = 2 * m
        /\ Exchanged(transcript, m) /\ Corrections(transcript, m, correction)
  BY <1>2, <1>5 DEF TurnInv, TranscriptInv
<1>8. transcript \in Seq(Message) /\ Len(transcript) \in Nat /\ m \in Nat
  BY LenProperties DEF TurnInv
<1> DEFINE A == Assistant(d.calls)
<1>9. A \in Message /\ transcript' = Append(transcript, A)
  BY <1>2, <1>6
<1> HIDE DEF A
<1>10. /\ transcript' \in Seq(Message) /\ Len(transcript') = 2 * m + 1
       /\ transcript'[2 * m + 1] = A
       /\ \A k \in 1 .. 2 * m : transcript'[k] = transcript[k]
  BY <1>7, <1>8, <1>9
<1>11. ASSUME NEW k \in 1 .. m
       PROVE  transcript'[2 * k - 1] = transcript[2 * k - 1] /\ transcript'[2 * k] = transcript[2 * k]
  <2>1. 2 * k - 1 \in 1 .. 2 * m /\ 2 * k \in 1 .. 2 * m
    BY <1>8
  <2>2. QED
    BY <1>10, <2>1
<1>12. Exchanged(transcript', m)
  BY <1>7, <1>11 DEF Exchanged
<1>13. Corrections(transcript', m, correction')
  <2>1. \A k \in 1 .. m : k < m => k + 1 \in 1 .. m
    BY <1>8
  <2>2. QED
    BY <1>2, <1>7, <1>11, <2>1 DEF Corrections
<1>14. TranscriptInv'
  <2>1. m \in 0 .. Len(transcript')
    BY <1>8, <1>10
  <2>2. transcript'[2 * m + 1] = Assistant(calls)'
    BY <1>6, <1>10 DEF A
  <2>3. QED
    BY <1>2, <1>10, <1>12, <1>13, <2>1, <2>2 DEF TranscriptInv
<1>15. QED
  BY <1>2, <1>3, <1>5, <1>10, <1>14 DEF TurnInv

LEMMA RunBatchKeeps ==
  ASSUME TurnInv, RunBatch
  PROVE  TurnInv'
<1>1. pc = "batch" /\ BatchInv /\ UNCHANGED turnVars
  BY DEF RunBatch, TurnInv
<1>2. DOMAIN calls = Indices
  BY <1>1, LenProperties DEF BatchInv, BatchTypes, Indices
<1>3. BatchInv' /\ calls' = calls
  <2>1. ASSUME NEW i \in Indices, RefuseAction(i)
        PROVE  BatchInv' /\ calls' = calls
    BY <1>1, <2>1, RefuseActionKeeps DEF RefuseAction, Report
  <2>2. ASSUME NEW i \in Indices, Submit(i) \/ Accepted(i) \/ GiveUp(i)
        PROVE  BatchInv' /\ calls' = calls
    BY <1>1, <2>2, AwayKeeps DEF Submit, Accepted, GiveUp
  <2>3. ASSUME NEW i \in Indices, Answer(i, Cancelled)
        PROVE  BatchInv' /\ calls' = calls
    BY <1>1, <2>3, AnswerKeeps DEF Answer, Report
  <2>4. CASE Receive
    BY <1>1, <2>4, ReceiveKeeps DEF Receive
  <2>5. CASE NextGroup
    BY <1>1, <2>5, NextGroupKeeps DEF NextGroup
  <2>6. QED
    BY <1>2, <2>1, <2>2, <2>3, <2>4, <2>5 DEF RunBatch
<1>4. QED
  BY <1>1, <1>3, BatchMoves DEF turnVars

LEMMA CancelsSentKeeps ==
  ASSUME TurnInv, CancelsSent
  PROVE  TurnInv'
<1>1. pc = "batch" /\ BatchInv /\ UNCHANGED turnVars
  BY DEF CancelsSent, TurnInv
<1>2. DOMAIN calls = Indices
  BY <1>1, LenProperties DEF BatchInv, BatchTypes, Indices
<1>3. PICK i \in Indices : CancelSent(i, Cancelled)
  BY <1>2 DEF CancelsSent
<1>4. BatchInv' /\ calls' = calls
  BY <1>1, <1>3, CancelSentKeeps DEF CancelSent, Report
<1>5. QED
  BY <1>1, <1>4, BatchMoves DEF turnVars

LEMMA BatchFailsKeeps ==
  ASSUME TurnInv, BatchFails
  PROVE  TurnInv'
<1> DEFINE e == firstErr # "none"
           h == [calls |-> IdSeq(calls), execs |-> AccountExecutions(execs, FinalResults, e),
                 sent |-> sent]
<1>1. /\ pc = "batch" /\ BatchOver /\ BatchInv
      /\ history' = Append(history, h) /\ UNCHANGED <<transcript, correction>>
      /\ FailTurn \/ CancelTurn
      /\ routine' = <<>>
  BY DEF BatchFails, Collected, Idle, TurnInv
<1>2. Alive /\ pc' = "terminal"
  BY <1>1, FailTurnEnds DEF Alive
<1>3. h \in Entry /\ EntryTruthful(h, terminal')
  <2>1. e \in BOOLEAN /\ (e <=> (firstErr # "none"))
    OBVIOUS
  <2> HIDE DEF e
  <2>2. QED
    BY <1>1, <2>1, OverTruthful
<1> HIDE DEF h
<1>4. /\ history' \in Seq(Entry)
      /\ \A k \in 1 .. Len(history') : EntryTruthful(history'[k], terminal')
  BY <1>1, <1>2, <1>3, HistoryGrows
<1>5. transcript' \in Seq(Message) /\ correction' \in {"unused", "pending", "used"}
  BY <1>1 DEF TurnInv
<1>6. QED
  BY <1>1, <1>2, <1>4, <1>5, EndKeeps

LEMMA BatchEndsKeeps ==
  ASSUME TurnInv, BatchEnds
  PROVE  TurnInv'
<1> DEFINE h == [calls |-> IdSeq(calls), execs |-> AccountExecutions(execs, FinalResults, FALSE),
                 sent |-> sent]
<1>1. /\ pc = "batch" /\ BatchOver /\ BatchInv /\ firstErr = "none"
      /\ history' = Append(history, h)
      /\ transcript' = Append(transcript, ToolMessage(FinalResults))
      /\ routine' = <<>>
  BY DEF BatchEnds, Collected, Idle, TurnInv
<1>2. \/ pc' = "terminal" /\ correction' = correction
      \/ /\ pc' = "terminal" \/ (pc' \in {"step", "resume"} /\ terminal' = terminal)
         /\ correction' = Corrected(FinalResults) /\ ~CorrectionFails(FinalResults)
  BY DEF BatchEnds, StoppedOr, AfterBatch, CompleteTurn, FailTurn, Ending
<1>3. Alive /\ pc' # "batch"
  BY <1>1, <1>2 DEF Alive
<1>4. \A s : h \in Entry /\ EntryTruthful(h, s)
  <2>1. FALSE \in BOOLEAN /\ (FALSE <=> (firstErr # "none"))
    BY <1>1
  <2>2. QED
    BY <1>1, <2>1, OverTruthful
<1> HIDE DEF h
<1>5. \A s : /\ history' \in Seq(Entry)
             /\ \A k \in 1 .. Len(history') : EntryTruthful(history'[k], s)
  BY <1>1, <1>3, <1>4, HistoryGrows
<1>6. calls \in Seq(Call) /\ FinalResults \in [1 .. Len(calls) -> Told]
  BY <1>1, FinalResultsTold DEF BatchInv, BatchTypes, Indices
<1>7. /\ transcript' \in Seq(Message)
      /\ correction' = Corrected(FinalResults) /\ ~CorrectionFails(FinalResults)
         => TranscriptInv'
  BY <1>1, <1>3, <1>6, TranscriptGrows
<1>8. correction \in {"unused", "pending", "used"}
  BY DEF TurnInv
<1>9. correction' \in {"unused", "pending", "used"}
  BY <1>2, <1>8, CorrectedType
<1>10. CASE pc' = "terminal"
  BY <1>1, <1>5, <1>7, <1>9, <1>10, EndKeeps
<1>11. CASE pc' # "terminal"
  <2>1. TranscriptInv' /\ pc' \in {"step", "resume"} /\ terminal' = terminal
    BY <1>2, <1>7, <1>11
  <2>2. QED
    BY <1>1, <1>3, <1>5, <1>7, <1>9, <2>1, ExchangeKeeps
<1>12. QED
  BY <1>10, <1>11

\* The invariant holds at the start and every step keeps it.
LEMMA TurnInvInit ==
  ASSUME Init
  PROVE  TurnInv
<1>1. /\ transcript = <<>> /\ history = <<>> /\ routine = <<>> /\ terminal = "none"
      /\ pc = "observe" /\ correction = "unused"
  BY DEF Init, InitBatch
<1>2. TranscriptInv
  <2>1. Len(transcript) = 0 /\ 0 \in 0 .. Len(transcript) /\ Len(transcript) = 2 * 0
    BY <1>1
  <2>2. Exchanged(transcript, 0) /\ Corrections(transcript, 0, correction)
    BY DEF Exchanged, Corrections
  <2>3. QED
    BY <1>1, <2>1, <2>2 DEF TranscriptInv
<1>3. transcript \in Seq(Message) /\ history \in Seq(Entry) /\ Len(history) = 0
  BY <1>1
<1>4. QED
  BY <1>1, <1>2, <1>3 DEF TurnInv

LEMMA TurnInvNext ==
  ASSUME TurnInv, [Next]_vars
  PROVE  TurnInv'
<1>1. CASE Respond
  BY <1>1, GenerateFailsKeeps, RefuseDecisionKeeps, SettleKeeps, ReuseCallIdKeeps,
     RefuseBatchKeeps, RefusedBatchFailsKeeps, StartBatchKeeps DEF Respond
<1>2. ASSUME UNCHANGED <<pc, transcript, correction, history, terminal, batchVars>>
      PROVE  TurnInv'
  <2>1. UNCHANGED <<calls, results, execs, group, launched, routine, resultCh, firstErr, sent>>
    BY <1>2 DEF batchVars
  <2>2. BatchInv' <=> BatchInv
    BY <2>1 DEF BatchInv, BatchTypes, Indices, GroupPlaced, Placed, CallAccounted,
                ResultAccounted, ChannelSound, Active
  <2>3. QED
    BY <1>2, <2>1, <2>2, BatchMoves DEF TurnInv
<1>3. CASE Expire \/ CloseEnvironment
  BY <1>2, <1>3 DEF Expire, CloseEnvironment
<1>4. CASE UNCHANGED vars
  BY <1>2, <1>4 DEF vars, turnVars
<1>5. QED
  BY <1>1, <1>3, <1>4, ObserveKeeps, PrepareContextKeeps, BeginStepKeeps, RunBatchKeeps,
     CancelsSentKeeps, BatchFailsKeeps, BatchEndsKeeps, ResumeKeeps, CompletionKeeps
     DEF Next, Step, Sends

THEOREM TurnInvariant == Spec => []TurnInv
<1>1. Init => TurnInv
  BY TurnInvInit
<1>2. TurnInv /\ [Next]_vars => TurnInv'
  BY TurnInvNext
<1>3. QED
  BY <1>1, <1>2, PTL DEF Spec

-----------------------------------------------------------------------------
(* No call is sent twice.                                                   *)

\* What was sent has been seen; the batch that runs was not seen before it.
SentInv ==
    /\ \A k \in 1 .. Len(history) : \A i \in history[k].sent : history[k].calls[i] \in seen
    /\ SentOnce
    /\ pc = "batch" =>
         /\ \A i \in Indices : calls[i].id \in seen
         /\ \A i \in Indices : \A k \in 1 .. Len(history) : \A j \in history[k].sent :
              history[k].calls[j] # calls[i].id
         /\ \A i, j \in Indices : i # j => calls[i].id # calls[j].id

\* An entry whose sent calls are new and distinct may be added.
LEMMA SentGrows ==
  ASSUME TurnInv, SentInv, NEW h, history' = Append(history, h),
         pc' # "batch", seen \subseteq seen',
         \A i \in h.sent : h.calls[i] \in seen',
         \A i, j \in h.sent : h.calls[i] = h.calls[j] => i = j,
         \A i \in h.sent : \A k \in 1 .. Len(history) : \A j \in history[k].sent :
           history[k].calls[j] # h.calls[i],
         h \in Entry
  PROVE  SentInv'
<1>1. history \in Seq(Entry) /\ Len(history) \in Nat /\ DOMAIN history = 1 .. Len(history)
  BY LenProperties DEF TurnInv
<1>2. /\ Len(history') = Len(history) + 1 /\ DOMAIN history' = 1 .. Len(history) + 1
      /\ history'[Len(history) + 1] = h
      /\ \A k \in 1 .. Len(history) : history'[k] = history[k]
  <2>1. history' \in Seq(Entry)
    BY <1>1
  <2>2. Len(history') = Len(history) + 1 /\ DOMAIN history' = 1 .. Len(history')
    BY <1>1, <2>1, LenProperties
  <2>3. QED
    BY <1>1, <2>2
<1>3. \A k \in 1 .. Len(history) + 1 : k \in 1 .. Len(history) \/ k = Len(history) + 1
  BY <1>1
<1>4. \A k \in 1 .. Len(history') : \A i \in history'[k].sent : history'[k].calls[i] \in seen'
  BY <1>2, <1>3 DEF SentInv
<1>5. SentOnce'
  <2>1. ASSUME NEW k \in 1 .. Len(history) + 1, NEW l \in 1 .. Len(history) + 1,
               NEW i \in history'[k].sent, NEW j \in history'[l].sent,
               history'[k].calls[i] = history'[l].calls[j]
        PROVE  k = l /\ i = j
    <3>1. CASE k \in 1 .. Len(history) /\ l \in 1 .. Len(history)
      BY <1>1, <1>2, <2>1, <3>1 DEF SentInv, SentOnce
    <3>2. CASE k \in 1 .. Len(history) /\ l = Len(history) + 1
      BY <1>2, <2>1, <3>2
    <3>3. CASE k = Len(history) + 1 /\ l \in 1 .. Len(history)
      BY <1>2, <2>1, <3>3
    <3>4. CASE k = Len(history) + 1 /\ l = Len(history) + 1
      BY <1>2, <2>1, <3>4
    <3>5. QED
      BY <1>3, <3>1, <3>2, <3>3, <3>4
  <2>2. QED
    BY <1>2, <2>1 DEF SentOnce
<1>6. QED
  BY <1>4, <1>5 DEF SentInv

\* A batch that is over adds the calls it sent.
LEMMA BatchSentGrows ==
  ASSUME TurnInv, SentInv, pc = "batch", pc' # "batch", seen' = seen, BatchOver, NEW e \in BOOLEAN,
         e <=> (firstErr # "none"),
         history' = Collected(calls, AccountExecutions(execs, FinalResults, e), sent)
  PROVE  SentInv'
<1> DEFINE h == [calls |-> IdSeq(calls), execs |-> AccountExecutions(execs, FinalResults, e),
                 sent |-> sent]
<1>1. BatchInv /\ history' = Append(history, h)
  BY DEF TurnInv, Collected
<1>2. h \in Entry
  BY <1>1, OverTruthful
<1>3. h.sent = sent /\ sent \subseteq Indices
  BY <1>1 DEF BatchInv, BatchTypes
<1>4. \A i \in Indices : h.calls[i] = calls[i].id
  <2>1. DOMAIN calls = Indices
    BY <1>1, LenProperties DEF BatchInv, BatchTypes, Indices
  <2>2. QED
    BY <2>1 DEF IdSeq
<1> HIDE DEF h
<1>5. \A i \in h.sent : h.calls[i] \in seen'
  BY <1>3, <1>4 DEF SentInv
<1>6. \A i, j \in h.sent : h.calls[i] = h.calls[j] => i = j
  BY <1>3, <1>4 DEF SentInv
<1>7. \A i \in h.sent : \A k \in 1 .. Len(history) : \A j \in history[k].sent :
        history[k].calls[j] # h.calls[i]
  BY <1>3, <1>4 DEF SentInv
<1>8. seen \subseteq seen'
  OBVIOUS
<1>9. QED
  BY <1>1, <1>2, <1>5, <1>6, <1>7, <1>8, SentGrows

\* An entry of a batch that was not run adds none.
LEMMA UnrunSentGrows ==
  ASSUME TurnInv, SentInv, NEW b \in Seq(Call), NEW exs \in Seq(Execution),
         pc' # "batch", seen \subseteq seen', history' = Collected(b, exs, {})
  PROVE  SentInv'
<1> DEFINE h == [calls |-> IdSeq(b), execs |-> exs, sent |-> {}]
<1>1. h \in Entry
  BY IdSeqType DEF Entry
<1>2. history' = Append(history, h) /\ h.sent = {}
  BY DEF Collected
<1> HIDE DEF h
<1>3. QED
  BY <1>1, <1>2, SentGrows

LEMMA StartBatchSends ==
  ASSUME TurnInv, SentInv, NEW d \in Decisions, StartBatch(d)
  PROVE  SentInv'
<1>1. d.calls \in Seq(Call) /\ DOMAIN d.calls = 1 .. Len(d.calls)
  <2>1. d.calls \in Seq(Call)
    BY TurnAssumption DEF Call
  <2>2. QED
    BY <2>1, LenProperties
<1>2. /\ calls' = d.calls /\ history' = history /\ seen' = seen \union Ids(d.calls)
      /\ Ids(d.calls) \cap seen = {} /\ ~DuplicateWithinStep(d)
  BY DEF StartBatch, BeginBatch, Counted, Unacceptable
<1>3. Indices' = 1 .. Len(d.calls)
  BY <1>2 DEF Indices
<1>4. \A i \in 1 .. Len(d.calls) : d.calls[i].id \in Ids(d.calls)
  BY <1>1 DEF Ids
<1>5. \A i, j \in 1 .. Len(d.calls) : i # j => d.calls[i].id # d.calls[j].id
  BY <1>1, <1>2 DEF DuplicateWithinStep, Duplicated
<1>6. \A k \in 1 .. Len(history) : \A j \in history[k].sent :
        history[k].calls[j] \in seen /\ history[k].calls[j] \notin Ids(d.calls)
  BY <1>2 DEF SentInv
<1>7. SentOnce'
  BY <1>2 DEF SentInv, SentOnce
<1>8. QED
  BY <1>2, <1>3, <1>4, <1>5, <1>6, <1>7 DEF SentInv

LEMMA SentInvNext ==
  ASSUME TurnInv, SentInv, [Next]_vars
  PROVE  SentInv'
<1>1. ASSUME UNCHANGED <<history, seen>>, pc' # "batch" \/ (pc' = pc /\ calls' = calls)
      PROVE  SentInv'
  BY <1>1 DEF SentInv, SentOnce, Indices
<1>2. CASE RefuseTurn \/ Observe \/ PrepareContext \/ BeginStep \/ Resume \/ PersistTerminalHistory
           \/ SendTurnCompletion \/ GenerateFails
  <2>1. UNCHANGED <<history, seen>>
    BY <1>2 DEF RefuseTurn, Observe, PrepareContext, BeginStep, Resume, PersistTerminalHistory,
                SendTurnCompletion, GenerateFails
  <2>2. pc' # "batch"
    BY <1>2 DEF RefuseTurn, Observe, PrepareContext, BeginStep, Resume, PersistTerminalHistory,
                SendTurnCompletion, GenerateFails, StoppedOr, CompleteTurn, FailTurn,
                CancelTurn, Ending
  <2>3. QED
    BY <1>1, <2>1, <2>2
<1>3. ASSUME NEW d \in Decisions, RefuseDecision(d) \/ Settle(d) \/ ReuseCallId(d)
                                  \/ RefuseBatch(d) \/ RefusedBatchFails(d)
      PROVE  SentInv'
  <2>1. d.calls \in Seq(Call)
    BY TurnAssumption DEF Call
  <2>2. CASE RefuseDecision(d) \/ Settle(d)
    <3>1. history' = Collected(d.calls, NoExecutions, {}) /\ seen' = seen /\ pc' # "batch"
      BY <2>2 DEF RefuseDecision, Settle, CompleteTurn, FailTurn, Ending
    <3>2. NoExecutions \in Seq(Execution)
      BY DEF NoExecutions
    <3>3. QED
      BY <2>1, <3>1, <3>2, UnrunSentGrows
  <2>3. ASSUME NEW res \in [1 .. Len(d.calls) -> Told]
        PROVE  NeverRun(res) \in Seq(Execution)
    <3>1. Len(d.calls) \in Nat
      BY <2>1, LenProperties
    <3>2. NeverRun(res) \in [1 .. Len(d.calls) -> Execution]
      BY DEF NeverRun, Execution
    <3>3. QED
      BY <3>1, <3>2, FunctionIsSeq
  <2>4. CASE ReuseCallId(d)
    <3>1. /\ history' = Collected(d.calls, NeverRun(ReuseResults(d.calls)), {})
          /\ seen \subseteq seen' /\ pc' # "batch"
      BY <2>4 DEF ReuseCallId, Counted, FailTurn, Ending
    <3>2. NeverRun(ReuseResults(d.calls)) \in Seq(Execution)
      BY <2>1, <2>3, ReuseTold
    <3>3. QED
      BY <2>1, <3>1, <3>2, UnrunSentGrows
  <2>5. CASE RefuseBatch(d) \/ RefusedBatchFails(d)
    <3>1. /\ history' = Collected(d.calls, NeverRun(Screened(d)), {})
          /\ seen \subseteq seen' /\ pc' # "batch" /\ Refused(Screened(d))
      BY <2>5 DEF RefuseBatch, RefusedBatchFails, Counted, StoppedOr, CompleteTurn, FailTurn, Ending
    <3>2. Screened(d) \in [1 .. Len(d.calls) -> Told]
      BY <2>1, <3>1, RefusalTold DEF Screened
    <3>3. NeverRun(Screened(d)) \in Seq(Execution)
      BY <2>3, <3>2
    <3>4. QED
      BY <2>1, <3>1, <3>3, UnrunSentGrows
  <2>6. QED
    BY <1>3, <2>2, <2>4, <2>5
<1>4. CASE RunBatch \/ CancelsSent
  <2>1. pc' = pc /\ calls' = calls /\ UNCHANGED <<history, seen>>
    BY <1>4 DEF RunBatch, CancelsSent, turnVars, RefuseAction, Submit, Accepted, Answer, GiveUp,
                CancelSent, Report, Receive, NextGroup
  <2>2. QED
    BY <1>1, <2>1
<1>5. CASE BatchFails
  <2>1. FailTurn \/ CancelTurn
    BY <1>5 DEF BatchFails
  <2>2. pc' = "terminal"
    BY <2>1, FailTurnEnds
  <2> DEFINE e == firstErr # "none"
  <2>3. /\ pc = "batch" /\ seen' = seen /\ BatchOver /\ pc' # "batch"
        /\ history' = Collected(calls, AccountExecutions(execs, FinalResults, e), sent)
        /\ e \in BOOLEAN /\ (e <=> (firstErr # "none"))
    BY <1>5, <2>2 DEF BatchFails
  <2> HIDE DEF e
  <2>4. QED
    BY <2>3, BatchSentGrows
<1>6. CASE BatchEnds
  <2>1. pc' # "batch"
    BY <1>6 DEF BatchEnds, StoppedOr, AfterBatch, CompleteTurn, FailTurn, Ending
  <2>2. /\ pc = "batch" /\ seen' = seen /\ BatchOver
        /\ history' = Collected(calls, AccountExecutions(execs, FinalResults, FALSE), sent)
        /\ FALSE \in BOOLEAN /\ (FALSE <=> (firstErr # "none"))
    BY <1>6 DEF BatchEnds
  <2>3. QED
    BY <2>1, <2>2, BatchSentGrows
<1>7. CASE Expire \/ CloseEnvironment \/ UNCHANGED vars
  <2>1. pc' = pc /\ calls' = calls /\ UNCHANGED <<history, seen>>
    BY <1>7 DEF Expire, CloseEnvironment, vars, turnVars, batchVars
  <2>2. QED
    BY <1>1, <2>1
<1>8. QED
  BY <1>2, <1>3, <1>4, <1>5, <1>6, <1>7, StartBatchSends DEF Next, Step, Sends, Respond

-----------------------------------------------------------------------------
(* What the invariants say.                                                 *)

LEMMA PairedFromInv ==
  ASSUME TurnInv
  PROVE  RequestsPaired
<1> SUFFICES ASSUME pc = "model"
             PROVE  /\ Len(transcript) % 2 = 0
                    /\ \A k \in 1 .. Len(transcript) \div 2 :
                         LET asked == transcript[2 * k - 1]
                             told == transcript[2 * k]
                         IN /\ asked.role = "assistant" /\ told.role = "tool"
                            /\ Len(told.items) = Len(asked.items)
                            /\ \A i \in DOMAIN told.items :
                                 told.items[i] \in {"succeeded"} \union Visible
  BY DEF RequestsPaired
<1>1. PICK m \in 0 .. Len(transcript) : Len(transcript) = 2 * m /\ Exchanged(transcript, m)
  BY DEF TurnInv, Alive, TranscriptInv
<1>2. transcript \in Seq(Message) /\ Len(transcript) \in Nat /\ m \in Nat
  BY LenProperties DEF TurnInv
<1>3. Len(transcript) % 2 = 0 /\ Len(transcript) \div 2 = m
  BY <1>1, <1>2
<1>4. ASSUME NEW k \in 1 .. m
      PROVE  /\ transcript[2 * k - 1].role = "assistant" /\ transcript[2 * k].role = "tool"
             /\ Len(transcript[2 * k].items) = Len(transcript[2 * k - 1].items)
             /\ \A i \in DOMAIN transcript[2 * k].items :
                  transcript[2 * k].items[i] \in {"succeeded"} \union Visible
  <2>1. /\ transcript[2 * k - 1].role = "assistant" /\ transcript[2 * k].role = "tool"
        /\ Len(transcript[2 * k].items) = Len(transcript[2 * k - 1].items)
    BY <1>1 DEF Exchanged
  <2>2. 2 * k \in 1 .. Len(transcript)
    BY <1>1, <1>2
  <2>3. transcript[2 * k] \in Message
    BY <1>2, <2>2, ElementOfSeq
  <2>4. transcript[2 * k].items \in Seq(Told)
    BY <2>1, <2>3 DEF Message
  <2>5. \A i \in DOMAIN transcript[2 * k].items : transcript[2 * k].items[i] \in Told
    BY <2>4, LenProperties
  <2>6. QED
    BY <2>1, <2>5 DEF Told
<1>5. QED
  BY <1>3, <1>4

LEMMA CorrectionFromInv ==
  ASSUME TurnInv
  PROVE  OneCorrection
<1> DEFINE told == {k \in DOMAIN transcript : transcript[k].role = "tool"}
<1> SUFFICES ASSUME pc = "model", NEW k \in told, ArgumentFailure(transcript[k].items)
             PROVE  /\ \A n \in told : n > k => ~ArgumentFailure(transcript[n].items)
                    /\ k + 2 \in told => ~InvalidResult(transcript[k + 2].items)
  BY DEF OneCorrection
<1>1. PICK m \in 0 .. Len(transcript) :
        /\ Len(transcript) = 2 * m
        /\ Exchanged(transcript, m) /\ Corrections(transcript, m, correction)
  BY DEF TurnInv, Alive, TranscriptInv
<1>2. /\ Len(transcript) \in Nat /\ m \in Nat
      /\ DOMAIN transcript = 1 .. 2 * m
  BY <1>1, LenProperties DEF TurnInv
<1>3. ASSUME NEW n \in told
      PROVE  \E j \in 1 .. m : n = 2 * j
  <2>1. n \in 1 .. 2 * m /\ transcript[n].role = "tool"
    BY <1>2
  <2>2. PICK j \in 1 .. m : n = 2 * j \/ n = 2 * j - 1
    <3>1. n % 2 = 0 \/ n % 2 = 1
      BY <2>1
    <3>2. CASE n % 2 = 0
      <4>1. n \div 2 \in 1 .. m /\ n = 2 * (n \div 2)
        BY <1>2, <2>1, <3>2
      <4>2. QED
        BY <4>1
    <3>3. CASE n % 2 = 1
      <4>1. n = 2 * (n \div 2) + 1 /\ n \div 2 \in Nat
        BY <1>2, <2>1, <3>3
      <4> DEFINE q == n \div 2
      <4> HIDE DEF q
      <4>2. n = 2 * q + 1 /\ q \in Nat
        BY <4>1 DEF q
      <4>3. q + 1 \in 1 .. m /\ n = 2 * (q + 1) - 1
        BY <1>2, <2>1, <4>2
      <4>4. QED
        BY <4>3
    <3>4. QED
      BY <3>1, <3>2, <3>3
  <2>3. n # 2 * j - 1
    BY <1>1, <2>1 DEF Exchanged
  <2>4. QED
    BY <2>2, <2>3
<1>4. PICK i \in 1 .. m : k = 2 * i
  BY <1>3
<1>5. /\ \A n \in 1 .. m : n > i => ~ArgumentFailure(transcript[2 * n].items)
      /\ i < m => ~InvalidResult(transcript[2 * (i + 1)].items)
  BY <1>1, <1>4 DEF Corrections
<1>6. ASSUME NEW n \in told, n > k
      PROVE  ~ArgumentFailure(transcript[n].items)
  <2>1. PICK j \in 1 .. m : n = 2 * j
    BY <1>3
  <2>2. j > i
    BY <1>2, <1>4, <1>6, <2>1
  <2>3. QED
    BY <1>5, <2>1, <2>2
<1>7. ASSUME k + 2 \in told
      PROVE  ~InvalidResult(transcript[k + 2].items)
  <2>1. k + 2 \in 1 .. 2 * m
    BY <1>2, <1>7
  <2>2. i < m /\ k + 2 = 2 * (i + 1)
    BY <1>2, <1>4, <2>1
  <2>3. QED
    BY <1>5, <2>2
<1>8. QED
  BY <1>6, <1>7

LEMMA SerialFromInv ==
  ASSUME TurnInv
  PROVE  SerialRunsAlone
<1> DEFINE running == {i \in DOMAIN routine : routine[i] \in {"launched", "out", "waiting", "cancelling"}}
<1> SUFFICES /\ Cardinality(running) <= MaxParallelToolCalls
             /\ \A i, j \in running : i # j => calls[i].tool \in ParallelSafe
  BY DEF SerialRunsAlone
<1>1. MaxParallelToolCalls \in Nat
  BY BatchAssumption
<1>2. CASE pc # "batch"
  <2>1. running = {}
    BY <1>2 DEF TurnInv
  <2>2. QED
    BY <1>1, <2>1, FS_EmptySet
<1>3. CASE pc = "batch"
  <2>1. BatchInv /\ DOMAIN routine = Indices
    BY <1>3 DEF TurnInv, BatchInv, BatchTypes
  <2>2. \A i \in running : i \in launched /\ i \in Active
    BY <2>1, InFlight
  <2>3. /\ Len(calls) \in Nat /\ Indices \in SUBSET Nat /\ Indices = 1 .. Len(calls)
        /\ launched \in SUBSET Indices
    BY <2>1, GroupIndices DEF Indices
  <2>4. IsFiniteSet(Active)
    <3>1. Active \in SUBSET (1 .. Len(calls))
      BY <2>3 DEF Active
    <3>2. IsFiniteSet(1 .. Len(calls))
      BY <2>3, FS_Interval
    <3>3. QED
      BY <3>1, <3>2, FS_Subset
  <2>5. running \in SUBSET Active
    BY <2>2
  <2>6. PICK lo \in Indices, hi \in Indices : Placed(lo, hi)
    BY <2>1 DEF BatchInv, GroupPlaced
  <2>7. ASSUME NEW i \in running, NEW j \in running, i # j
        PROVE  calls[i].tool \in ParallelSafe
    <3>1. i \in lo .. hi /\ j \in lo .. hi
      BY <2>2, <2>6 DEF Placed
    <3>2. lo # hi
      BY <2>3, <2>7, <3>1
    <3>3. QED
      BY <2>6, <3>1, <3>2 DEF Placed
  <2> HIDE DEF running
  <2>8. /\ Cardinality(running) <= Cardinality(Active)
        /\ Cardinality(running) \in Nat /\ Cardinality(Active) \in Nat
    BY <2>4, <2>5, FS_Subset, FS_CardinalityType
  <2>9. Cardinality(running) <= MaxParallelToolCalls
    BY <1>1, <2>1, <2>8 DEF BatchInv
  <2>10. QED
    BY <2>7, <2>9
<1>4. QED
  BY <1>2, <1>3

LEMMA TruthFromInv ==
  ASSUME TurnInv
  PROVE  HistoryTruthful
<1>1. DOMAIN history = 1 .. Len(history)
  BY LenProperties DEF TurnInv
<1>2. QED
  BY <1>1 DEF TurnInv, HistoryTruthful, EntryTruthful

\* What the model is shown and what is run for it are sound in every turn,
\* for any tools, decisions and limits: Loop.runBoundedSteps pairs every
\* call with one result, asks for one correction, and toolBatchScheduler
\* neither overlaps a serial call nor exceeds its limit nor sends an
\* identity twice.
THEOREM TurnStepsSound == Spec => []StepsSound
<1>1. Init => SentInv
  <2>1. ASSUME Init
        PROVE  SentInv
    <3>1. history = <<>> /\ pc = "observe"
      BY <2>1 DEF Init
    <3>2. DOMAIN history = {} /\ Len(history) = 0
      BY <3>1
    <3>3. QED
      BY <3>1, <3>2 DEF SentInv, SentOnce
  <2>2. QED
    BY <2>1
<1>2. TurnInv /\ SentInv /\ [Next]_vars => SentInv'
  BY SentInvNext
<1>3. TurnInv /\ SentInv => StepsSound
  BY PairedFromInv, CorrectionFromInv, SerialFromInv DEF StepsSound, SentInv
<1>4. QED
  BY <1>1, <1>2, <1>3, TurnInvariant, PTL DEF Spec

\* The history a turn hands to the store is true in every turn: whatever was
\* sent is recorded as started, whatever was run has an outcome, and a turn
\* that completed accounts for every call of the model.
THEOREM TurnHistoryTruthful == Spec => []HistoryTruthful
<1>1. TurnInv => HistoryTruthful
  BY TruthFromInv
<1>2. QED
  BY <1>1, TurnInvariant, PTL

-----------------------------------------------------------------------------
(* Budgets.                                                                 *)

\* A turn stays within its budgets: steps asked of the model, calls counted,
\* asynchronous actions started.
WithinBudgets ==
    /\ step <= MaxSteps
    /\ total <= MaxToolCallsPerTurn
    /\ asyncs <= MaxAsyncActionsPerTurn

\* The batch that runs an asynchronous action was admitted with budget left,
\* and nothing else starts one before it ends.
BudgetInv ==
    /\ step \in Nat /\ total \in Nat /\ asyncs \in Nat
    /\ WithinBudgets
    /\ pc = "batch" /\ calls[1].tool \in Async => asyncs < MaxAsyncActionsPerTurn

\* preflight admits an asynchronous call only while the budget lasts.
LEMMA AdmittedWithinBudget ==
  ASSUME NEW b \in Seq(Call), b # <<>>, NEW open, NEW full,
         ~Refused(Preflight(b, open, full)), b[1].tool \in Async
  PROVE  ~full
<1>1. 1 \in DOMAIN b
  BY LenProperties, EmptySeq
<1> DEFINE v == [i \in DOMAIN b |-> Verdict(b, i, open, full)]
<1>2. \A i \in DOMAIN b : v[i] = "none"
  <2>1. SUFFICES ASSUME NEW i \in DOMAIN b, v[i] # "none"
                 PROVE  FALSE
    OBVIOUS
  <2> HIDE DEF v
  <2>2. Preflight(b, open, full)
          = [j \in DOMAIN b |-> IF v[j] = "none" THEN "skipped" ELSE v[j]]
    BY <2>1 DEF Preflight, v
  <2>3. Refused(Preflight(b, open, full))
    BY <2>1, <2>2 DEF Refused
  <2>4. QED
    BY <2>3
<1>3. Verdict(b, 1, open, full) = "none"
  BY <1>1, <1>2
<1>4. QED
  BY <1>3 DEF Verdict

LEMMA BudgetInvNext ==
  ASSUME BudgetInv, [Next]_vars
  PROVE  BudgetInv'
<1> USE TurnAssumption
<1>1. ASSUME UNCHANGED <<step, total, asyncs>>, pc' # "batch" \/ (pc' = pc /\ calls' = calls)
      PROVE  BudgetInv'
  BY <1>1 DEF BudgetInv, WithinBudgets
<1>2. CASE RefuseTurn \/ Observe \/ PrepareContext \/ Resume \/ PersistTerminalHistory
           \/ SendTurnCompletion \/ GenerateFails
  <2>1. UNCHANGED <<step, total, asyncs>>
    BY <1>2 DEF RefuseTurn, Observe, PrepareContext, Resume, PersistTerminalHistory,
                SendTurnCompletion, GenerateFails
  <2>2. pc' # "batch"
    BY <1>2 DEF RefuseTurn, Observe, PrepareContext, Resume, PersistTerminalHistory,
                SendTurnCompletion, GenerateFails, StoppedOr, CompleteTurn, FailTurn, Ending
  <2>3. QED
    BY <1>1, <2>1, <2>2
<1>3. CASE BeginStep
  <2>1. UNCHANGED <<total, asyncs>> /\ pc' # "batch"
    BY <1>3 DEF BeginStep, StoppedOr, CompleteTurn, FailTurn, CancelTurn, Ending
  <2>2. step' = step \/ (step # MaxSteps /\ step' = step + 1)
    BY <1>3 DEF BeginStep, OutOfSteps
  <2>3. QED
    BY <2>1, <2>2 DEF BudgetInv, WithinBudgets
<1>4. ASSUME NEW d \in Decisions, RefuseDecision(d) \/ Settle(d)
      PROVE  BudgetInv'
  <2>1. UNCHANGED <<step, total, asyncs>> /\ pc' # "batch"
    BY <1>4 DEF RefuseDecision, Settle, CompleteTurn, FailTurn, Ending
  <2>2. QED
    BY <1>1, <2>1
<1>5. ASSUME NEW d \in Decisions, Counted(d)
      PROVE  /\ d.calls \in Seq(Call) /\ d.calls # <<>>
             /\ total' \in Nat /\ total' <= MaxToolCallsPerTurn
  <2>1. d.calls \in Seq(Call) /\ Len(d.calls) \in Nat
    BY LenProperties DEF Call
  <2>2. total' = total + Len(d.calls) /\ ~(total + Len(d.calls) > MaxToolCallsPerTurn)
        /\ d.calls # <<>>
    BY <1>5 DEF Counted, Unacceptable
  <2>3. QED
    BY <2>1, <2>2 DEF BudgetInv
<1>6. ASSUME NEW d \in Decisions, ReuseCallId(d) \/ RefuseBatch(d) \/ RefusedBatchFails(d)
      PROVE  BudgetInv'
  <2>1. UNCHANGED <<step, asyncs>> /\ pc' # "batch" /\ Counted(d)
    BY <1>6 DEF ReuseCallId, RefuseBatch, RefusedBatchFails, StoppedOr, CompleteTurn, FailTurn, Ending
  <2>2. QED
    BY <1>5, <2>1 DEF BudgetInv, WithinBudgets
<1>7. ASSUME NEW d \in Decisions, StartBatch(d)
      PROVE  BudgetInv'
  <2>1. UNCHANGED <<step, asyncs>> /\ Counted(d) /\ calls' = d.calls
    BY <1>7 DEF StartBatch, BeginBatch
  <2>2. ASSUME d.calls[1].tool \in Async
        PROVE  asyncs < MaxAsyncActionsPerTurn
    <3>1. ~Refused(Screened(d))
      BY <1>7 DEF StartBatch
    <3>2. ~(asyncs >= MaxAsyncActionsPerTurn)
      BY <1>5, <2>1, <2>2, <3>1, AdmittedWithinBudget DEF Screened
    <3>3. QED
      BY <3>2 DEF BudgetInv
  <2>3. QED
    BY <1>5, <2>1, <2>2 DEF BudgetInv, WithinBudgets
<1>8. CASE RunBatch \/ CancelsSent
  <2>1. pc' = pc /\ calls' = calls /\ UNCHANGED <<step, total, asyncs>>
    BY <1>8 DEF RunBatch, CancelsSent, turnVars, RefuseAction, Submit, Accepted, Answer, GiveUp,
                CancelSent, Report, Receive, NextGroup
  <2>2. QED
    BY <1>1, <2>1
<1>9. CASE BatchFails
  <2>1. (FailTurn \/ CancelTurn) /\ UNCHANGED <<step, total, asyncs>>
    BY <1>9 DEF BatchFails
  <2>2. QED
    BY <1>1, <2>1, FailTurnEnds
<1>10. CASE BatchEnds
  <2>1. pc = "batch" /\ pc' # "batch" /\ UNCHANGED <<step, total>>
    BY <1>10 DEF BatchEnds, StoppedOr, AfterBatch, CompleteTurn, FailTurn, Ending
  <2>2. asyncs' = asyncs \/ asyncs' = asyncs + (IF AsyncStarted THEN 1 ELSE 0)
    BY <1>10 DEF BatchEnds
  <2>3. QED
    BY <2>1, <2>2 DEF BudgetInv, WithinBudgets, AsyncStarted
<1>11. CASE Expire \/ CloseEnvironment \/ UNCHANGED vars
  <2>1. pc' = pc /\ calls' = calls /\ UNCHANGED <<step, total, asyncs>>
    BY <1>11 DEF Expire, CloseEnvironment, vars, turnVars, batchVars
  <2>2. QED
    BY <1>1, <2>1
<1>12. QED
  BY <1>2, <1>3, <1>4, <1>6, <1>7, <1>8, <1>9, <1>10, <1>11 DEF Next, Step, Sends, Respond

\* Every turn stays within max_steps, max_tool_calls_per_turn and
\* max_async_actions_per_turn, although the asynchronous budget is checked by
\* preflight and counted only when the batch has returned.
THEOREM TurnWithinBudgets == Spec => []WithinBudgets
<1>1. Init => BudgetInv
  BY TurnAssumption DEF Init, BudgetInv, WithinBudgets
<1>2. BudgetInv /\ [Next]_vars => BudgetInv'
  BY BudgetInvNext
<1>3. BudgetInv => WithinBudgets
  BY DEF BudgetInv
<1>4. QED
  BY <1>1, <1>2, <1>3, PTL DEF Spec

-----------------------------------------------------------------------------
(* A model request.  Extremes, and functions defined by recursion.          *)

LEMMA MinIsLeast ==
  ASSUME NEW T \in SUBSET Nat, T # {}
  PROVE  Min(T) \in T /\ \A y \in T : Min(T) <= y
<1>1. \E x \in T : \A y \in T : x <= y
  BY LeastIndex
<1>2. QED
  BY <1>1 DEF Min

LEMMA MaxIsGreatest ==
  ASSUME NEW n \in Nat, NEW T \in SUBSET (0 .. n), T # {}
  PROVE  Max(T) \in T /\ \A y \in T : y <= Max(T)
<1> DEFINE U == {n - y : y \in T}
<1>1. U \in SUBSET Nat /\ U # {}
  <2>1. \A y \in T : n - y \in Nat
    OBVIOUS
  <2>2. QED
    BY <2>1
<1>2. PICK u \in U : \A v \in U : u <= v
  <2> HIDE DEF U
  <2>1. QED
    BY <1>1, LeastIndex
<1>3. PICK x \in T : u = n - x
  OBVIOUS
<1>4. ASSUME NEW y \in T
      PROVE  x >= y
  <2>1. n - y \in U
    OBVIOUS
  <2>2. n - x <= n - y
    BY <1>2, <1>3, <2>1
  <2>3. QED
    BY <2>2
<1>5. Max(T) \in T /\ \A y \in T : Max(T) >= y
  BY <1>4 DEF Max
<1>6. \A y \in T : y \in Int
  OBVIOUS
<1>7. QED
  BY <1>5, <1>6

\* The steps of a recursion over 0 .. N in S, and what solves it from b.
Steps(S, N) == [S \X (1 .. N) -> S]

Solution(f, b, H, N) == f[0] = b /\ \A k \in 1 .. N : f[k] = H[<<f[k - 1], k>>]

\* A recursion over 0 .. N has a solution.
LEMMA RecursionExists ==
  ASSUME NEW N \in Nat, NEW S, NEW b \in S, NEW H \in Steps(S, N)
  PROVE  \E f \in [0 .. N -> S] : Solution(f, b, H, N)
<1> DEFINE Solves(f, n) == f[0] = b /\ \A k \in 1 .. n : f[k] = H[<<f[k - 1], k>>]
           Bad == {n \in 0 .. N : ~ \E f \in [0 .. n -> S] : Solves(f, n)}
<1>1. ASSUME Bad # {} PROVE FALSE
  <2>1. PICK m \in Bad : \A y \in Bad : m <= y
    <3>1. Bad \in SUBSET Nat
      OBVIOUS
    <3> HIDE DEF Bad
    <3>2. QED
      BY <1>1, <3>1, LeastIndex
  <2>2. m \in 0 .. N /\ ~ \E f \in [0 .. m -> S] : Solves(f, m)
    OBVIOUS
  <2>3. CASE m = 0
    <3> DEFINE f == [n \in 0 .. 0 |-> b]
    <3>1. f \in [0 .. m -> S] /\ Solves(f, m)
      BY <2>3
    <3>2. QED
      BY <2>2, <3>1
  <2>4. CASE m # 0
    <3>1. m - 1 \in 0 .. N /\ m - 1 \notin Bad
      <4>1. m - 1 \in 0 .. N /\ ~(m <= m - 1)
        BY <2>2, <2>4
      <4> HIDE DEF Bad
      <4>2. QED
        BY <2>1, <4>1
    <3>2. PICK f \in [0 .. m - 1 -> S] : Solves(f, m - 1)
      BY <3>1
    <3> DEFINE g == [n \in 0 .. m |-> IF n = m THEN H[<<f[m - 1], m>>] ELSE f[n]]
    <3>3. f[m - 1] \in S /\ m \in 1 .. N
      BY <2>2, <2>4
    <3>4. H[<<f[m - 1], m>>] \in S
      BY <3>3 DEF Steps
    <3>5. g \in [0 .. m -> S]
      <4>1. \A n \in 0 .. m : n # m => n \in 0 .. m - 1
        BY <2>2
      <4>2. QED
        BY <3>4, <4>1
    <3>6. Solves(g, m)
      <4>1. g[0] = b
        BY <2>2, <2>4, <3>2
      <4>2. ASSUME NEW k \in 1 .. m PROVE g[k] = H[<<g[k - 1], k>>]
        <5>1. k - 1 \in 0 .. m /\ k - 1 # m /\ k \in 0 .. m
          BY <2>2
        <5>2. g[k - 1] = f[k - 1]
          BY <5>1
        <5>3. CASE k = m
          BY <5>1, <5>2, <5>3
        <5>4. CASE k # m
          <6>1. k \in 1 .. m - 1
            BY <2>2, <5>4
          <6>2. g[k] = f[k] /\ f[k] = H[<<f[k - 1], k>>]
            BY <3>2, <5>1, <5>4, <6>1
          <6>3. QED
            BY <5>2, <6>2
        <5>5. QED
          BY <5>3, <5>4
      <4>3. QED
        BY <4>1, <4>2
    <3> HIDE DEF g
    <3>7. QED
      BY <2>2, <3>5, <3>6
  <2>5. QED
    BY <2>3, <2>4
<1>2. N \in 0 .. N /\ N \notin Bad
  <2> HIDE DEF Bad
  <2>1. QED
    BY <1>1
<1>3. \E f \in [0 .. N -> S] : Solves(f, N)
  BY <1>2
<1>4. QED
  BY <1>3 DEF Solution

\* Two solutions agree.
Together(f, g, N) ==
    f[0] = g[0] /\ \A k \in 1 .. N : f[k - 1] = g[k - 1] => f[k] = g[k]

LEMMA RecursionUnique ==
  ASSUME NEW N \in Nat, NEW f, NEW g, Together(f, g, N)
  PROVE  \A k \in 0 .. N : f[k] = g[k]
<1> DEFINE Bad == {n \in 0 .. N : f[n] # g[n]}
<1>1. ASSUME Bad # {} PROVE FALSE
  <2>1. PICK m \in Bad : \A y \in Bad : m <= y
    <3>1. Bad \in SUBSET Nat
      OBVIOUS
    <3> HIDE DEF Bad
    <3>2. QED
      BY <1>1, <3>1, LeastIndex
  <2>2. m \in 0 .. N /\ f[m] # g[m]
    OBVIOUS
  <2>3. m \in 1 .. N /\ m - 1 \in 0 .. N /\ ~(m <= m - 1)
    BY <2>2 DEF Together
  <2>4. m - 1 \notin Bad
    <3> HIDE DEF Bad
    <3>1. QED
      BY <2>1, <2>3
  <2>5. f[m - 1] = g[m - 1]
    BY <2>3, <2>4
  <2>6. QED
    BY <2>2, <2>3, <2>5 DEF Together
<1>2. QED
  BY <1>1

\* Sums is the recursion it is written as.
LEMMA SumsStep ==
  ASSUME NEW s \in Seq(Nat)
  PROVE  /\ Sums(s) \in [0 .. Len(s) -> Nat]
         /\ Sums(s)[0] = 0
         /\ \A n \in 1 .. Len(s) : Sums(s)[n] = Sums(s)[n - 1] + s[n]
<1> DEFINE N == Len(s)
           H == [p \in Nat \X (1 .. N) |-> p[1] + s[p[2]]]
<1>1. N \in Nat /\ \A k \in 1 .. N : s[k] \in Nat
  BY LenProperties
<1>2. H \in Steps(Nat, N)
  BY <1>1 DEF Steps
<1>3. PICK f \in [0 .. N -> Nat] : f[0] = 0 /\ \A k \in 1 .. N : f[k] = H[<<f[k - 1], k>>]
  <2>1. \E f \in [0 .. N -> Nat] : Solution(f, 0, H, N)
    <3> HIDE DEF H, N
    <3>1. QED
      BY <1>1, <1>2, RecursionExists
  <2>2. QED
    BY <2>1 DEF Solution
<1>4. \A k \in 1 .. N : f[k] = f[k - 1] + s[k]
  <2>1. ASSUME NEW k \in 1 .. N PROVE f[k] = f[k - 1] + s[k]
    <3>1. f[k - 1] \in Nat
      <4>1. k - 1 \in 0 .. N
        BY <1>1
      <4>2. QED
        BY <4>1
    <3>2. H[<<f[k - 1], k>>] = f[k - 1] + s[k]
      BY <3>1
    <3>3. QED
      BY <1>3, <3>2
  <2>2. QED
    BY <2>1
<1>5. f = [n \in 0 .. N |-> IF n = 0 THEN 0 ELSE f[n - 1] + s[n]]
  <2>1. \A n \in 0 .. N : n # 0 => n \in 1 .. N
    BY <1>1
  <2>2. \A n \in 0 .. N : f[n] = IF n = 0 THEN 0 ELSE f[n - 1] + s[n]
    BY <1>3, <1>4, <2>1
  <2>3. QED
    BY <2>2
<1> DEFINE g == Sums(s)
<1>6. g = [n \in 0 .. N |-> IF n = 0 THEN 0 ELSE g[n - 1] + s[n]]
  BY <1>5 DEF Sums
<1> HIDE DEF g, N
<1>7. g[0] = 0 /\ \A k \in 1 .. N : g[k] = g[k - 1] + s[k]
  <2>1. 0 \in 0 .. N /\ \A k \in 1 .. N : k \in 0 .. N /\ k # 0
    BY <1>1
  <2>2. QED
    BY <1>6, <2>1
<1>8. \A k \in 0 .. N : g[k] = f[k]
  <2>1. \A k \in 1 .. N : g[k - 1] = f[k - 1] => g[k] = f[k]
    BY <1>4, <1>7
  <2>2. g[0] = f[0]
    BY <1>3, <1>7
  <2>3. Together(g, f, N)
    BY <2>1, <2>2 DEF Together
  <2>4. QED
    BY <1>1, <2>3, RecursionUnique
<1>9. g \in [0 .. N -> Nat]
  <2>1. DOMAIN g = 0 .. N
    BY <1>6
  <2>2. g = f
    BY <1>6, <1>8, <2>1
  <2>3. QED
    BY <2>2
<1>10. QED
  BY <1>7, <1>9 DEF g, N

LEMMA TotalType ==
  ASSUME NEW s \in Seq(Nat)
  PROVE  Total(s) \in Nat
<1>1. Sums(s) \in [0 .. Len(s) -> Nat] /\ Len(s) \in 0 .. Len(s)
  BY SumsStep, LenProperties
<1>2. QED
  BY <1>1 DEF Total

LEMMA TotalEmpty == Total(<< >>) = 0
<1>1. << >> \in Seq(Nat) /\ Len(<< >>) = 0
  BY EmptySeq
<1>2. Sums(<< >>)[0] = 0
  BY <1>1, SumsStep
<1>3. QED
  BY <1>1, <1>2 DEF Total

LEMMA TotalAppend ==
  ASSUME NEW s \in Seq(Nat), NEW x \in Nat
  PROVE  Total(Append(s, x)) = Total(s) + x
<1> DEFINE t == Append(s, x)
           N == Len(s)
           f == Sums(s)
           g == Sums(t)
<1>1. /\ t \in Seq(Nat) /\ Len(t) = N + 1 /\ N \in Nat
      /\ \A k \in 1 .. N : t[k] = s[k]
      /\ t[N + 1] = x
  BY AppendProperties, LenProperties
<1> HIDE DEF t
<1>2. f[0] = 0 /\ \A n \in 1 .. N : f[n] = f[n - 1] + s[n]
  BY SumsStep
<1>3. g[0] = 0 /\ \A n \in 1 .. N + 1 : g[n] = g[n - 1] + t[n]
  BY <1>1, SumsStep
<1>4. \A k \in 0 .. N : g[k] = f[k]
  <2> HIDE DEF f, g, N
  <2>1. \A k \in 1 .. N : g[k - 1] = f[k - 1] => g[k] = f[k]
    <3>1. ASSUME NEW k \in 1 .. N, g[k - 1] = f[k - 1] PROVE g[k] = f[k]
      <4>1. k \in 1 .. N + 1
        BY <1>1
      <4>2. g[k] = g[k - 1] + t[k] /\ f[k] = f[k - 1] + s[k] /\ t[k] = s[k]
        BY <1>1, <1>2, <1>3, <4>1
      <4>3. QED
        BY <3>1, <4>2
    <3>2. QED
      BY <3>1
  <2>2. g[0] = f[0]
    BY <1>2, <1>3
  <2>3. Together(g, f, N)
    BY <2>1, <2>2 DEF Together
  <2>4. QED
    BY <1>1, <2>3, RecursionUnique
<1>5. g[N + 1] = g[N] + x /\ g[N] = f[N]
  <2>1. N + 1 \in 1 .. N + 1 /\ N \in 0 .. N /\ (N + 1) - 1 = N
    BY <1>1
  <2> HIDE DEF f, g, N
  <2>2. g[N + 1] = g[(N + 1) - 1] + t[N + 1]
    BY <1>3, <2>1
  <2>3. g[N] = f[N]
    BY <1>4, <2>1
  <2>4. QED
    BY <1>1, <2>1, <2>2, <2>3
<1>6. QED
  BY <1>1, <1>5 DEF Total, t

\* Picking from s with T, the pairs of what was taken and what is taken next:
\* all that is picked is in s and was taken.
Pickings(E, s, T) ==
    {u \in Seq(E) : \A j \in 1 .. Len(u) :
       \E k \in 1 .. Len(s), v \in Seq(E) : u[j] = s[k] /\ <<v, s[k]>> \in T}

LEMMA PickExists ==
  ASSUME NEW E, NEW s \in Seq(E), NEW T
  PROVE  \E f \in [0 .. Len(s) -> Pickings(E, s, T)] :
           /\ f[0] = << >>
           /\ \A k \in 1 .. Len(s) :
                f[k] = IF <<f[k - 1], s[k]>> \in T THEN Append(f[k - 1], s[k]) ELSE f[k - 1]
<1> DEFINE N == Len(s)
           S == Pickings(E, s, T)
           H == [p \in S \X (1 .. N) |->
                   IF <<p[1], s[p[2]]>> \in T THEN Append(p[1], s[p[2]]) ELSE p[1]]
<1>1. N \in Nat /\ \A k \in 1 .. N : s[k] \in E
  BY LenProperties
<1>2. << >> \in S
  BY EmptySeq DEF Pickings
<1>3. ASSUME NEW u \in S, NEW k \in 1 .. N, <<u, s[k]>> \in T
      PROVE  Append(u, s[k]) \in S
  <2>1. u \in Seq(E) /\ s[k] \in E
    BY <1>1 DEF Pickings
  <2>2. /\ Append(u, s[k]) \in Seq(E) /\ Len(Append(u, s[k])) = Len(u) + 1 /\ Len(u) \in Nat
        /\ \A i \in 1 .. Len(u) : Append(u, s[k])[i] = u[i]
        /\ Append(u, s[k])[Len(u) + 1] = s[k]
    BY <2>1, AppendProperties, LenProperties
  <2> DEFINE w == Append(u, s[k])
  <2>3. ASSUME NEW j \in 1 .. Len(w)
        PROVE  \E m \in 1 .. N, v \in Seq(E) : w[j] = s[m] /\ <<v, s[m]>> \in T
    <3>1. CASE j = Len(u) + 1
      BY <1>3, <2>1, <2>2, <3>1
    <3>2. CASE j # Len(u) + 1
      <4>1. j \in 1 .. Len(u)
        BY <2>2, <3>2
      <4>2. w[j] = u[j]
        BY <2>2, <4>1
      <4>3. \E m \in 1 .. N, v \in Seq(E) : u[j] = s[m] /\ <<v, s[m]>> \in T
        BY <4>1 DEF Pickings
      <4>4. QED
        BY <4>2, <4>3
    <3>3. QED
      BY <3>1, <3>2
  <2>4. QED
    BY <2>2, <2>3 DEF Pickings
<1> HIDE DEF S
<1>4. H \in Steps(S, N)
  <2>1. \A p \in S \X (1 .. N) : p[1] \in S /\ p[2] \in 1 .. N
    OBVIOUS
  <2>2. QED
    BY <1>3, <2>1 DEF Steps
<1>5. PICK f \in [0 .. N -> S] : Solution(f, << >>, H, N)
  <2> HIDE DEF H, N
  <2>1. QED
    BY <1>1, <1>2, <1>4, RecursionExists
<1>6. ASSUME NEW k \in 1 .. N
      PROVE  f[k] = IF <<f[k - 1], s[k]>> \in T THEN Append(f[k - 1], s[k]) ELSE f[k - 1]
  <2>1. f[k - 1] \in S
    <3>1. k - 1 \in 0 .. N
      BY <1>1
    <3>2. QED
      BY <3>1
  <2>2. H[<<f[k - 1], k>>] = IF <<f[k - 1], s[k]>> \in T THEN Append(f[k - 1], s[k]) ELSE f[k - 1]
    BY <2>1
  <2>3. f[k] = H[<<f[k - 1], k>>]
    BY <1>5 DEF Solution
  <2>4. QED
    BY <2>2, <2>3
<1>7. f[0] = << >>
  BY <1>5 DEF Solution
<1>8. QED
  BY <1>6, <1>7 DEF S

-----------------------------------------------------------------------------
(* The sections of a request.                                               *)

SourceType == [ id : Nat, own : BOOLEAN, visible : BOOLEAN, kind : STRING ]
ExperienceType == [ id : Nat, own : BOOLEAN, visible : BOOLEAN, focus : BOOLEAN, size : Nat ]
MatchType == [ id : Nat, own : BOOLEAN, visible : BOOLEAN, span : SUBSET { 1, 2 } ]

\* Every pick is one of this session's past.
OwnPick(s, u) == \A j \in 1 .. Len(u) :
                   \E k \in 1 .. Len(s) : u[j] = s[k] /\ s[k].own /\ s[k].visible

LEMMA CandidatesOwn ==
  ASSUME NEW i, InputOK(i)
  PROVE  Candidates(i) \in Seq(SourceType) /\ OwnPick(i.sources, Candidates(i))
<1> DEFINE s == i.sources
           N == Len(s)
           covered == IF BoundHistorySummary(i) > 0 THEN i.summary.covers ELSE {}
           T == {p \in Seq(SourceType) \X SourceType :
                   p[2].own /\ p[2].visible /\ p[2].kind = "turn" /\ p[2].id \notin covered}
<1>1. s \in Seq(SourceType) /\ N \in Nat /\ \A k \in 1 .. N : s[k] \in SourceType
  BY LenProperties DEF InputOK, SourceType
<1>2. PICK f \in [0 .. N -> Pickings(SourceType, s, T)] :
        /\ f[0] = << >>
        /\ \A k \in 1 .. N :
             f[k] = IF <<f[k - 1], s[k]>> \in T THEN Append(f[k - 1], s[k]) ELSE f[k - 1]
  <2> HIDE DEF s, T
  <2>1. QED
    BY <1>1, PickExists
<1> DEFINE Taken(x) == x.own /\ x.visible /\ x.kind = "turn" /\ x.id \notin covered
           Body(g, n) == IF n = 0 THEN << >>
                         ELSE IF Taken(s[n]) THEN Append(g[n - 1], s[n]) ELSE g[n - 1]
           g == CHOOSE h : h = [n \in 0 .. N |-> Body(h, n)]
<1>3. \A n \in 0 .. N : f[n] \in Seq(SourceType)
  BY DEF Pickings
<1>4. ASSUME NEW n \in 0 .. N
      PROVE  f[n] = Body(f, n)
  <2>1. CASE n = 0
    BY <1>2, <2>1
  <2>2. CASE n # 0
    <3>1. n \in 1 .. N /\ n - 1 \in 0 .. N
      BY <1>1, <2>2
    <3>2. <<f[n - 1], s[n]>> \in T <=> Taken(s[n])
      <4>1. f[n - 1] \in Seq(SourceType) /\ s[n] \in SourceType
        BY <1>1, <1>3, <3>1
      <4> HIDE DEF covered, s, N
      <4>2. QED
        BY <4>1
    <3> HIDE DEF T, Taken
    <3>3. QED
      BY <1>2, <2>2, <3>1, <3>2
  <2>3. QED
    BY <2>1, <2>2
<1>5. f = [n \in 0 .. N |-> Body(f, n)]
  <2> HIDE DEF Body, T
  <2>1. QED
    BY <1>2, <1>4
<1>6. g = [n \in 0 .. N |-> Body(g, n)]
  <2> HIDE DEF Body
  <2>1. QED
    BY <1>5
<1>7. Candidates(i) = g[N]
  BY DEF Candidates, Picked
<1>8. \A k \in 0 .. N : g[k] = f[k]
  <2> HIDE DEF g, Taken, N, s
  <2>1. g[0] = f[0]
    BY <1>1, <1>5, <1>6
  <2>2. ASSUME NEW k \in 1 .. N, g[k - 1] = f[k - 1] PROVE g[k] = f[k]
    <3>1. k \in 0 .. N
      BY <1>1
    <3>2. g[k] = Body(g, k) /\ f[k] = Body(f, k)
      <4> HIDE DEF Body
      <4>1. QED
        BY <1>4, <1>6, <3>1
    <3>3. QED
      BY <2>2, <3>2
  <2>3. Together(g, f, N)
    BY <2>1, <2>2 DEF Together
  <2>4. QED
    BY <1>1, <2>3, RecursionUnique
<1>9. Candidates(i) \in Pickings(SourceType, s, T)
  <2> HIDE DEF g, T, s
  <2>1. QED
    BY <1>1, <1>2, <1>7, <1>8
<1>10. QED
  <2> DEFINE u == Candidates(i)
  <2>1. u \in Seq(SourceType)
    BY <1>9 DEF Pickings
  <2>2. ASSUME NEW j \in 1 .. Len(u)
        PROVE  \E k \in 1 .. Len(s) : u[j] = s[k] /\ s[k].own /\ s[k].visible
    <3>1. PICK k \in 1 .. Len(s), v \in Seq(SourceType) : u[j] = s[k] /\ <<v, s[k]>> \in T
      BY <1>9 DEF Pickings
    <3>2. s[k].own /\ s[k].visible
      BY <3>1
    <3>3. QED
      BY <3>1, <3>2
  <2> HIDE DEF u
  <2>3. QED
    BY <2>1, <2>2 DEF OwnPick, u

LEMMA ExperiencesOwn ==
  ASSUME NEW i, InputOK(i)
  PROVE  ProjectRecentExperiences(i) \in Seq(ExperienceType) /\ OwnPick(i.experiences, ProjectRecentExperiences(i))
<1> DEFINE s == i.experiences
           N == Len(s)
           Taken(units, e) ==
             /\ e.own /\ e.visible /\ e.focus /\ Len(units) < MaxExperiences
             /\ \A n \in DOMAIN units : units[n].id # e.id
             /\ Total([ n \in DOMAIN units |-> units[n].size ]) + e.size <= i.budget.experiences
           T == {p \in Seq(ExperienceType) \X ExperienceType : Taken(p[1], p[2])}
<1>1. s \in Seq(ExperienceType) /\ N \in Nat /\ \A k \in 1 .. N : s[k] \in ExperienceType
  BY LenProperties DEF InputOK, ExperienceType
<1>2. PICK f \in [0 .. N -> Pickings(ExperienceType, s, T)] :
        /\ f[0] = << >>
        /\ \A k \in 1 .. N :
             f[k] = IF <<f[k - 1], s[k]>> \in T THEN Append(f[k - 1], s[k]) ELSE f[k - 1]
  <2> HIDE DEF s, T
  <2>1. QED
    BY <1>1, PickExists
<1> DEFINE Body(g, n) == IF n = 0 THEN << >>
                         ELSE IF Taken(g[n - 1], s[n]) THEN Append(g[n - 1], s[n]) ELSE g[n - 1]
           g == CHOOSE h : h = [n \in 0 .. N |-> Body(h, n)]
<1>3. \A n \in 0 .. N : f[n] \in Seq(ExperienceType)
  BY DEF Pickings
<1>4. ASSUME NEW n \in 0 .. N
      PROVE  f[n] = Body(f, n)
  <2>1. CASE n = 0
    BY <1>2, <2>1
  <2>2. CASE n # 0
    <3>1. n \in 1 .. N /\ n - 1 \in 0 .. N
      BY <1>1, <2>2
    <3>2. <<f[n - 1], s[n]>> \in T <=> Taken(f[n - 1], s[n])
      <4>1. f[n - 1] \in Seq(ExperienceType) /\ s[n] \in ExperienceType
        BY <1>1, <1>3, <3>1
      <4> HIDE DEF s, N, Taken
      <4>2. QED
        BY <4>1
    <3> HIDE DEF T, Taken
    <3>3. QED
      BY <1>2, <2>2, <3>1, <3>2
  <2>3. QED
    BY <2>1, <2>2
<1>5. f = [n \in 0 .. N |-> Body(f, n)]
  <2> HIDE DEF Body, T
  <2>1. QED
    BY <1>2, <1>4
<1>6. g = [n \in 0 .. N |-> Body(g, n)]
  <2> HIDE DEF Body
  <2>1. QED
    BY <1>5
<1>7. ProjectRecentExperiences(i) = g[N]
  BY DEF ProjectRecentExperiences, Picked
<1>8. \A k \in 0 .. N : g[k] = f[k]
  <2> HIDE DEF g, Taken, N, s
  <2>1. g[0] = f[0]
    BY <1>1, <1>5, <1>6
  <2>2. ASSUME NEW k \in 1 .. N, g[k - 1] = f[k - 1] PROVE g[k] = f[k]
    <3>1. k \in 0 .. N
      BY <1>1
    <3>2. g[k] = Body(g, k) /\ f[k] = Body(f, k)
      <4> HIDE DEF Body
      <4>1. QED
        BY <1>4, <1>6, <3>1
    <3>3. QED
      BY <2>2, <3>2
  <2>3. Together(g, f, N)
    BY <2>1, <2>2 DEF Together
  <2>4. QED
    BY <1>1, <2>3, RecursionUnique
<1>9. ProjectRecentExperiences(i) \in Pickings(ExperienceType, s, T)
  <2> HIDE DEF g, T, s
  <2>1. QED
    BY <1>1, <1>2, <1>7, <1>8
<1>10. QED
  <2> DEFINE u == ProjectRecentExperiences(i)
  <2>1. u \in Seq(ExperienceType)
    BY <1>9 DEF Pickings
  <2>2. ASSUME NEW j \in 1 .. Len(u)
        PROVE  \E k \in 1 .. Len(s) : u[j] = s[k] /\ s[k].own /\ s[k].visible
    <3>1. PICK k \in 1 .. Len(s), v \in Seq(ExperienceType) : u[j] = s[k] /\ <<v, s[k]>> \in T
      BY <1>9 DEF Pickings
    <3>2. s[k].own /\ s[k].visible
      BY <3>1
    <3>3. QED
      BY <3>1, <3>2
  <2> HIDE DEF u
  <2>3. QED
    BY <2>1, <2>2 DEF OwnPick, u

LEMMA NewestSuffix ==
  ASSUME NEW E, NEW s \in Seq(E), NEW fits
  PROVE  /\ NewestWhile(s, fits) \in Seq(E)
         /\ \E k \in 1 .. Len(s) + 1 :
              /\ NewestWhile(s, fits) = SubSeq(s, k, Len(s))
              /\ Len(NewestWhile(s, fits)) = Len(s) - k + 1
              /\ \A j \in 1 .. Len(s) - k + 1 : NewestWhile(s, fits)[j] = s[k + j - 1]
<1> DEFINE N == Len(s)
           T == {n \in 0 .. N : 1 .. n \subseteq fits}
           k == N - Max(T) + 1
<1>1. N \in Nat /\ \A n \in 1 .. N : s[n] \in E
  BY LenProperties
<1>2. T \in SUBSET (0 .. N) /\ T # {}
  <2>1. 0 \in T
    BY <1>1
  <2>2. QED
    BY <2>1
<1>3. Max(T) \in 0 .. N
  <2>1. Max(T) \in T
    <3> HIDE DEF T
    <3>1. QED
      BY <1>1, <1>2, MaxIsGreatest
  <2>2. QED
    BY <1>2, <2>1
<1>4. NewestWhile(s, fits) = SubSeq(s, k, N)
  BY DEF NewestWhile, Newest
<1> HIDE DEF T, N
<1>5. k \in 1 .. N + 1 /\ k \in Int /\ N \in Int
  BY <1>1, <1>3
<1> HIDE DEF k
<1>6. \A n \in k .. N : s[n] \in E
  BY <1>1, <1>5
<1>7. /\ SubSeq(s, k, N) \in Seq(E)
      /\ Len(SubSeq(s, k, N)) = IF k <= N THEN N - k + 1 ELSE 0
      /\ \A i \in 1 .. N - k + 1 : SubSeq(s, k, N)[i] = s[k + i - 1]
  BY <1>5, <1>6, SubSeqProperties
<1>8. Len(SubSeq(s, k, N)) = N - k + 1
  BY <1>1, <1>5, <1>7
<1>9. QED
  BY <1>4, <1>5, <1>7, <1>8 DEF N

\* Suffixes of a sequence of numbers, here of the causal groups.
LEMMA SuffixIs ==
  ASSUME NEW E, NEW s \in Seq(E), NEW k \in 1 .. Len(s) + 1
  PROVE  SubSeq(s, k, Len(s)) \in Suffixes(s)
<1>1. Len(s) \in Nat
  BY LenProperties
<1>2. CASE k \in 1 .. Len(s)
  BY <1>2 DEF Suffixes
<1>3. CASE k = Len(s) + 1
  <2>1. SubSeq(s, k, Len(s)) = << >>
    <3>1. k \in Int /\ Len(s) \in Int /\ Len(s) < k
      BY <1>1, <1>3
    <3>2. QED
      BY <3>1, SubSeqEmpty
  <2>2. QED
    BY <2>1 DEF Suffixes
<1>4. QED
  BY <1>1, <1>2, <1>3

LEMMA TailIsSuffix ==
  ASSUME NEW E, NEW s \in Seq(E), NEW u \in Suffixes(s), u # << >>
  PROVE  Tail(u) \in Suffixes(s)
<1>1. Len(s) \in Nat
  BY LenProperties
<1>2. PICK l \in 1 .. Len(s) : u = SubSeq(s, l, Len(s))
  BY DEF Suffixes
<1>3. Tail(u) = SubSeq(s, l + 1, Len(s))
  <2>1. Len(s) \in l .. Len(s)
    BY <1>1
  <2>2. QED
    BY <1>2, <2>1, HeadTailOfSubSeq
<1>4. l + 1 \in 1 .. Len(s) + 1
  BY <1>1
<1>5. QED
  BY <1>3, <1>4, SuffixIs

LEMMA TrimmedGroups ==
  ASSUME NEW i, InputOK(i)
  PROVE  TrimTranscriptGroups(i) \in Seq(Nat) /\ TrimTranscriptGroups(i) \in Suffixes(i.groups)
<1> DEFINE s == i.groups
           fits == { n \in 1 .. Len(s) : Total(Newest(s, n)) <= i.budget.transcript }
           u == NewestWhile(s, fits)
<1>1. s \in Seq(Nat)
  BY DEF InputOK
<1>2. TrimTranscriptGroups(i) = u
  BY DEF TrimTranscriptGroups
<1> HIDE DEF fits, s
<1>3. u \in Seq(Nat) /\ \E k \in 1 .. Len(s) + 1 : u = SubSeq(s, k, Len(s))
  BY <1>1, NewestSuffix
<1>4. u \in Suffixes(s)
  <2> HIDE DEF u
  <2>1. QED
    BY <1>1, <1>3, SuffixIs
<1>5. QED
  BY <1>2, <1>3, <1>4 DEF s

Unit == [ id : Nat, complete : BOOLEAN ]
HistoryType == [ summary : Nat, sources : Seq(Unit) ]
TaskType == [ progress : Nat, results : Nat, refs : Nat ]
SnippetType == [ id : Nat, pieces : SUBSET { 1, 2 } ]

Projection ==
    [ preferences : Nat, history : HistoryType, experiences : Seq(ExperienceType), memories : Nat,
      groups : Seq(Nat), agent : Nat, game : Nat, task : { Absent } \cup TaskType, event : Nat, facts : Nat,
      observation : Nat, retrieved : Seq(SnippetType), knowledge : Seq(Nat) ]

\* A projection of the input i.
ProjectionOK(i, p) == p \in Projection /\ p.agent <= Len(i.agent) /\ p.game <= Len(i.game)

\* The identities of this session's past in s.
Mine(s) == { s[n].id : n \in { m \in DOMAIN s : s[m].own /\ s[m].visible } }

LEMMA OwnPickIsMine ==
  ASSUME NEW E, NEW s \in Seq(E), NEW u, OwnPick(s, u), NEW j \in 1 .. Len(u)
  PROVE  u[j].id \in Mine(s)
<1>1. PICK k \in 1 .. Len(s) : u[j] = s[k] /\ s[k].own /\ s[k].visible
  BY DEF OwnPick
<1>2. k \in DOMAIN s
  BY LenProperties
<1>3. QED
  BY <1>1, <1>2 DEF Mine

LEMMA LeastType == \A a, b \in Nat : Least(a, b) \in Nat /\ Least(a, b) <= a
  BY DEF Least

LEMMA SummaryType ==
  ASSUME NEW i, InputOK(i)
  PROVE  BoundHistorySummary(i) \in Nat
<1>1. i.budget.summary \in Nat /\ i.budget.history \in Nat
  BY DEF InputOK, Limited
<1>2. \A room \in Nat : Least(room, 1) \in Nat
  BY LeastType
<1>3. Least(i.budget.summary, i.budget.history) \in Nat
  BY <1>1, LeastType
<1>4. i.summary # Absent => i.summary.size \in Nat
  BY DEF InputOK
<1>5. QED
  BY <1>2, <1>3, <1>4 DEF BoundHistorySummary

LEMMA HistoryProjected ==
  ASSUME NEW i, InputOK(i)
  PROVE  /\ ProjectHistory(i) \in HistoryType
         /\ \A j \in 1 .. Len(ProjectHistory(i).sources) :
              ProjectHistory(i).sources[j].id \in Mine(i.sources)
<1> DEFINE candidates == Candidates(i)
           U(n, complete) == [ id |-> candidates[n].id, complete |-> complete ]
           whole == [ n \in DOMAIN candidates |-> U(n, TRUE) ]
           H(sources) == [ summary |-> BoundHistorySummary(i), sources |-> sources ]
           fits == { n \in 1 .. Len(whole) : HistoryTokens(H(Newest(whole, n))) <= i.budget.history }
           kept == NewestWhile(whole, fits)
           cropped == << U(Len(whole), FALSE) >>
           Own(u) == u \in Seq(Unit) /\ \A j \in 1 .. Len(u) : u[j].id \in Mine(i.sources)
<1>1. /\ candidates \in Seq(SourceType) /\ OwnPick(i.sources, candidates)
      /\ i.sources \in Seq(SourceType)
  BY CandidatesOwn DEF InputOK, SourceType
<1>2. /\ Len(candidates) \in Nat /\ DOMAIN candidates = 1 .. Len(candidates)
      /\ \A n \in 1 .. Len(candidates) : candidates[n] \in SourceType
  BY <1>1, LenProperties
<1>3. \A n \in 1 .. Len(candidates) : candidates[n].id \in Mine(i.sources) /\ candidates[n].id \in Nat
  <2>1. ASSUME NEW n \in 1 .. Len(candidates) PROVE candidates[n].id \in Mine(i.sources)
    <3> HIDE DEF candidates
    <3>1. QED
      BY <1>1, OwnPickIsMine
  <2>2. QED
    BY <1>2, <2>1 DEF SourceType
<1> HIDE DEF candidates
<1>4. whole \in Seq(Unit) /\ Len(whole) = Len(candidates)
  BY <1>2, <1>3 DEF Unit
<1>5. Own(whole)
  BY <1>2, <1>3, <1>4
<1>6. Own(kept)
  <2> HIDE DEF whole, fits
  <2>1. kept \in Seq(Unit)
    BY <1>4, NewestSuffix
  <2>2. PICK k \in 1 .. Len(whole) + 1 :
          /\ Len(kept) = Len(whole) - k + 1
          /\ \A j \in 1 .. Len(whole) - k + 1 : kept[j] = whole[k + j - 1]
    BY <1>4, NewestSuffix
  <2> HIDE DEF kept
  <2>3. ASSUME NEW j \in 1 .. Len(kept)
        PROVE  kept[j].id \in Mine(i.sources)
    <3>1. k + j - 1 \in 1 .. Len(whole) /\ j \in 1 .. Len(whole) - k + 1
      BY <1>2, <1>4, <2>2
    <3>2. kept[j] = whole[k + j - 1]
      BY <2>2, <3>1
    <3>3. QED
      BY <1>5, <3>1, <3>2
  <2>4. QED
    BY <2>1, <2>3
<1>7. ASSUME whole # << >>
      PROVE  Own(cropped)
  <2>1. Len(whole) \in 1 .. Len(candidates)
    <3> HIDE DEF whole
    <3>1. QED
      BY <1>2, <1>4, <1>7, EmptySeq
  <2>2. U(Len(whole), FALSE) \in Unit /\ U(Len(whole), FALSE).id \in Mine(i.sources)
    <3> HIDE DEF whole
    <3>1. QED
      BY <1>3, <2>1 DEF Unit
  <2> DEFINE x == U(Len(whole), FALSE)
  <2> HIDE DEF x
  <2>3. << x >> \in Seq(Unit) /\ Len(<< x >>) = 1 /\ << x >>[1] = x
    BY <2>2 DEF x
  <2>4. Own(<< x >>)
    BY <2>2, <2>3 DEF x
  <2>5. QED
    BY <2>4 DEF x
<1>8. ASSUME NEW u, Own(u)
      PROVE  H(u) \in HistoryType /\ H(u).sources = u
  BY <1>8, SummaryType DEF HistoryType
<1>9. \/ ProjectHistory(i) = [ summary |-> 0, sources |-> << >> ]
      \/ ProjectHistory(i) = H(kept)
      \/ whole # << >> /\ ProjectHistory(i) = H(cropped)
  BY DEF ProjectHistory, candidates
<1> HIDE DEF kept, cropped, whole, H
<1>10. CASE ProjectHistory(i) = [ summary |-> 0, sources |-> << >> ]
  <2>1. << >> \in Seq(Unit) /\ Len(<< >>) = 0
    BY EmptySeq
  <2>2. QED
    BY <1>10, <2>1 DEF HistoryType
<1>11. CASE ProjectHistory(i) = H(kept)
  BY <1>6, <1>8, <1>11
<1>12. CASE whole # << >> /\ ProjectHistory(i) = H(cropped)
  BY <1>7, <1>8, <1>12
<1>13. QED
  BY <1>9, <1>10, <1>11, <1>12

-----------------------------------------------------------------------------
(* The required sections.                                                   *)

LEMMA TaskTokensType ==
  ASSUME NEW t \in { Absent } \cup TaskType
  PROVE  TaskTokens(t) \in Nat
  BY DEF TaskTokens, TaskType

LEMMA BoundTaskType ==
  ASSUME NEW i, NEW t \in { Absent } \cup TaskType
  PROVE  BoundTaskContext(i, t) \in { Absent } \cup TaskType
<1> DEFINE Bare(n) == [ progress |-> 0, results |-> n, refs |-> t.refs ]
           enough == { n \in Least(t.results, 1) .. t.results : TaskTokens(Bare(n)) <= i.budget.task }
<1>1. CASE t = Absent \/ TaskTokens(t) <= i.budget.task
  BY <1>1 DEF BoundTaskContext
<1>2. CASE ~(t = Absent \/ TaskTokens(t) <= i.budget.task)
  <2>1. t.results \in Nat /\ t.refs \in Nat /\ Least(t.results, 1) \in Nat
    BY <1>2, LeastType DEF TaskType
  <2>2. CASE enough = {}
    <3>1. BoundTaskContext(i, t) = [ progress |-> 0, results |-> Least(t.results, 1), refs |-> 0 ]
      BY <1>2, <2>2 DEF BoundTaskContext
    <3>2. QED
      BY <2>1, <3>1 DEF TaskType
  <2>3. CASE enough # {}
    <3>1. BoundTaskContext(i, t) = Bare(Max(enough))
      BY <1>2, <2>3 DEF BoundTaskContext
    <3>2. enough \in SUBSET (0 .. t.results)
      BY <2>1
    <3>3. Max(enough) \in 0 .. t.results
      <4> HIDE DEF enough
      <4>1. Max(enough) \in enough
        BY <2>1, <2>3, <3>2, MaxIsGreatest
      <4>2. QED
        BY <3>2, <4>1
    <3>4. QED
      <4> HIDE DEF enough
      <4>1. QED
        BY <2>1, <3>1, <3>3 DEF TaskType
  <2>4. QED
    BY <2>2, <2>3
<1>3. QED
  BY <1>1, <1>2

\* A task that was cropped to the end and is still over its limit stays so.
LEMMA BoundTaskFinal ==
  ASSUME NEW i, i.budget.task \in Nat, NEW t \in { Absent } \cup TaskType,
         TaskTokens(BoundTaskContext(i, t)) > i.budget.task
  PROVE  TaskTokens(BoundTaskContext(i, BoundTaskContext(i, t))) > i.budget.task
<1> DEFINE Bare(x, n) == [ progress |-> 0, results |-> n, refs |-> x.refs ]
           enough(x) == { n \in Least(x.results, 1) .. x.results : TaskTokens(Bare(x, n)) <= i.budget.task }
           u == BoundTaskContext(i, t)
<1>1. t # Absent /\ ~(TaskTokens(t) <= i.budget.task)
  <2>1. TaskTokens(t) \in Nat
    BY TaskTokensType
  <2>2. TaskTokens(Absent) = 0
    BY DEF TaskTokens
  <2>3. QED
    BY <2>1, <2>2 DEF BoundTaskContext
<1>2. t.results \in Nat /\ t.refs \in Nat /\ Least(t.results, 1) \in Nat
  BY <1>1, LeastType DEF TaskType
<1>3. enough(t) = {}
  <2>1. SUFFICES ASSUME enough(t) # {} PROVE FALSE
    OBVIOUS
  <2>2. u = Bare(t, Max(enough(t)))
    BY <1>1, <2>1 DEF BoundTaskContext
  <2>3. Max(enough(t)) \in enough(t)
    <3> DEFINE E == enough(t)
    <3>1. E \in SUBSET (0 .. t.results) /\ E # {}
      BY <1>2, <2>1
    <3> HIDE DEF E
    <3>2. Max(E) \in E
      BY <1>2, <3>1, MaxIsGreatest
    <3>3. QED
      BY <3>2 DEF E
  <2>4. TaskTokens(u) <= i.budget.task
    BY <2>2, <2>3
  <2>5. TaskTokens(u) \in Nat
    BY BoundTaskType, TaskTokensType
  <2>6. QED
    BY <2>4, <2>5
<1>4. u = [ progress |-> 0, results |-> Least(t.results, 1), refs |-> 0 ]
  BY <1>1, <1>3 DEF BoundTaskContext
<1>5. /\ u.results = Least(t.results, 1) /\ u.refs = 0 /\ Least(u.results, 1) = u.results
      /\ u.results \in Nat /\ Bare(u, u.results) = u
  BY <1>2, <1>4 DEF Least
<1> HIDE DEF u
<1>6. TaskTokens(u) > i.budget.task /\ TaskTokens(u) \in Nat
  BY BoundTaskType, TaskTokensType DEF u
<1>7. u # Absent
  <2>1. TaskTokens(Absent) = 0
    BY DEF TaskTokens
  <2>2. QED
    BY <1>6, <2>1
<1>8. enough(u) = {}
  <2>1. ASSUME NEW n \in Least(u.results, 1) .. u.results
        PROVE  ~(TaskTokens(Bare(u, n)) <= i.budget.task)
    <3>1. n = u.results
      BY <1>5
    <3>2. QED
      BY <1>5, <1>6, <3>1
  <2>2. QED
    BY <2>1
<1>9. BoundTaskContext(i, u) = [ progress |-> 0, results |-> Least(u.results, 1), refs |-> 0 ]
  <2>1. ~(u = Absent \/ TaskTokens(u) <= i.budget.task)
    BY <1>6, <1>7
  <2>2. QED
    BY <1>8, <2>1 DEF BoundTaskContext
<1>10. BoundTaskContext(i, u) = u
  BY <1>4, <1>5, <1>9
<1>11. QED
  BY <1>6, <1>10 DEF u

LEMMA PrefixTotal ==
  ASSUME NEW s \in Seq(Nat), NEW n \in 0 .. Len(s)
  PROVE  Total(SubSeq(s, 1, n)) \in Nat
<1>1. Len(s) \in Nat /\ \A k \in 1 .. Len(s) : s[k] \in Nat
  BY LenProperties
<1>2. n \in Int /\ \A k \in 1 .. n : s[k] \in Nat
  BY <1>1
<1>3. SubSeq(s, 1, n) \in Seq(Nat)
  BY <1>2, SubSeqProperties
<1>4. QED
  BY <1>3, TotalType

LEMMA FillType ==
  ASSUME NEW s \in Seq(Nat), NEW room \in Nat
  PROVE  /\ FillDefinitionWithinBudget(s, room) \in 0 .. Len(s)
         /\ Total(SubSeq(s, 1, FillDefinitionWithinBudget(s, room))) <= room
<1> DEFINE T == { n \in 0 .. Len(s) : Total(SubSeq(s, 1, n)) <= room }
<1>1. Len(s) \in Nat
  BY LenProperties
<1>2. 0 \in T
  <2>1. SubSeq(s, 1, 0) = << >>
    <3>1. \A m, n \in Int : n < m => SubSeq(s, m, n) = << >>
      BY SubSeqEmpty
    <3>2. QED
      BY <3>1
  <2> DEFINE Sum(n) == Total(SubSeq(s, 1, n))
  <2>2. Sum(0) = 0
    BY <2>1, TotalEmpty, Zenon
  <2> HIDE DEF Sum
  <2>3. 0 \in 0 .. Len(s) /\ Sum(0) <= room
    BY <1>1, <2>2
  <2>4. QED
    BY <2>3 DEF Sum
<1>3. Max(T) \in T
  <2>1. T \in SUBSET (0 .. Len(s)) /\ T # {}
    BY <1>2
  <2> HIDE DEF T
  <2>2. QED
    BY <1>1, <2>1, MaxIsGreatest
<1>4. QED
  BY <1>3 DEF FillDefinitionWithinBudget

\* What cropping leaves alone.
SameOptional(p, q) ==
    /\ p.preferences = q.preferences /\ p.history = q.history /\ p.experiences = q.experiences
    /\ p.memories = q.memories /\ p.groups = q.groups
    /\ p.retrieved = q.retrieved /\ p.knowledge = q.knowledge

LEMMA DefinitionsBounded ==
  ASSUME NEW i, InputOK(i), NEW p, ProjectionOK(i, p)
  PROVE  /\ ProjectionOK(i, ApplyDefinitionBudget(i, p))
         /\ SameOptional(ApplyDefinitionBudget(i, p), p)
         /\ ApplyDefinitionBudget(i, p).task = p.task
<1> DEFINE agent == FillDefinitionWithinBudget(i.agent, i.budget.definition - 2)
           rest == i.budget.definition - 2 - Total(SubSeq(i.agent, 1, agent))
           game == FillDefinitionWithinBudget(i.game, rest)
<1>1. /\ i.agent \in Seq(Nat) /\ i.game \in Seq(Nat) /\ i.budget.definition \in Nat
      /\ Len(i.agent) \in Nat /\ Len(i.game) \in Nat
  BY LenProperties DEF InputOK, Limited
<1>2. p \in Projection
  BY DEF ProjectionOK
<1> DEFINE Fine(q) == ProjectionOK(i, q) /\ SameOptional(q, p) /\ q.task = p.task
<1>3. ASSUME NEW a \in Nat, NEW b \in Nat, a <= Len(i.agent), b <= Len(i.game)
      PROVE  Fine([ p EXCEPT !.agent = a, !.game = b ])
  BY <1>2, <1>3 DEF Projection, ProjectionOK, SameOptional
<1>4. CASE i.definitions = Absent
  <2>1. ApplyDefinitionBudget(i, p) = p
    BY <1>4 DEF ApplyDefinitionBudget
  <2>2. QED
    BY <2>1 DEF SameOptional
<1>5. CASE i.definitions # Absent /\ i.budget.definition < 2
  <2>1. ApplyDefinitionBudget(i, p) = [ p EXCEPT !.agent = 0, !.game = 0 ]
    BY <1>5 DEF ApplyDefinitionBudget
  <2>2. 0 \in Nat /\ 0 <= Len(i.agent) /\ 0 <= Len(i.game)
    BY <1>1
  <2>3. Fine([ p EXCEPT !.agent = 0, !.game = 0 ])
    BY <1>2, <2>2 DEF Projection, ProjectionOK, SameOptional
  <2> HIDE DEF Fine
  <2>4. Fine(ApplyDefinitionBudget(i, p))
    BY <2>1, <2>3
  <2>5. QED
    BY <2>4 DEF Fine
<1>6. CASE i.definitions # Absent /\ ~(i.budget.definition < 2)
  <2>1. i.budget.definition - 2 \in Nat
    BY <1>1, <1>6
  <2>2. /\ agent \in 0 .. Len(i.agent)
        /\ Total(SubSeq(i.agent, 1, agent)) <= i.budget.definition - 2
    BY <1>1, <2>1, FillType
  <2>3. Total(SubSeq(i.agent, 1, agent)) \in Nat
    <3> HIDE DEF agent
    <3>1. QED
      BY <1>1, <2>2, PrefixTotal
  <2>4. rest \in Nat
    <3> DEFINE x == Total(SubSeq(i.agent, 1, agent))
    <3> HIDE DEF agent, x
    <3>1. x \in Nat /\ x <= i.budget.definition - 2
      BY <2>2, <2>3 DEF x
    <3>2. i.budget.definition - 2 - x \in Nat
      BY <1>1, <3>1
    <3>3. QED
      BY <3>2 DEF x
  <2>5. game \in 0 .. Len(i.game)
    <3> HIDE DEF rest
    <3>1. QED
      BY <1>1, <2>4, FillType
  <2>6. ApplyDefinitionBudget(i, p) = [ p EXCEPT !.agent = agent, !.game = game ]
    BY <1>6 DEF ApplyDefinitionBudget
  <2> HIDE DEF agent, game
  <2>7. agent \in Nat /\ game \in Nat /\ agent <= Len(i.agent) /\ game <= Len(i.game)
    BY <1>1, <2>2, <2>5
  <2>8. Fine([ p EXCEPT !.agent = agent, !.game = game ])
    <3> HIDE DEF Fine
    <3>1. QED
      BY <1>3, <2>7
  <2> HIDE DEF Fine
  <2>9. Fine(ApplyDefinitionBudget(i, p))
    BY <2>6, <2>8
  <2>10. QED
    BY <2>9 DEF Fine
<1>7. QED
  BY <1>4, <1>5, <1>6

LEMMA CropTypes ==
  ASSUME NEW i, NEW body \in Nat, NEW marker \in Nat
  PROVE  CropSection(i, body, marker) \in Nat /\ CropFacts(i, body) \in Nat
  BY LeastType DEF CropSection, CropFacts

LEMMA CroppedSound ==
  ASSUME NEW i, InputOK(i), NEW p, ProjectionOK(i, p)
  PROVE  /\ ProjectionOK(i, Cropped(i, p))
         /\ SameOptional(Cropped(i, p), p)
         /\ Cropped(i, p).task = BoundTaskContext(i, p.task)
<1> DEFINE q == ApplyDefinitionBudget(i, p)
           event == CropSection(i, q.event, 1)
           seen2 == CropSection(i, q.observation, Least(q.observation, 1))
           facts == CropFacts(i, q.facts)
           task == BoundTaskContext(i, q.task)
<1>1. ProjectionOK(i, q) /\ SameOptional(q, p) /\ q.task = p.task
  BY DefinitionsBounded
<1> HIDE DEF q
<1>2. q \in Projection /\ q.event \in Nat /\ q.observation \in Nat /\ q.facts \in Nat
  BY <1>1 DEF ProjectionOK, Projection
<1>3. event \in Nat /\ seen2 \in Nat /\ facts \in Nat
  BY <1>2, CropTypes, LeastType
<1>4. task \in { Absent } \cup TaskType
  BY <1>2, BoundTaskType DEF Projection
<1>5. Cropped(i, p) =
        [ q EXCEPT !.event = event, !.observation = seen2, !.facts = facts, !.task = task ]
  BY <1>2 DEF Cropped, Projection, q
<1> HIDE DEF event, seen2, facts, task
<1>6. LET r == [ q EXCEPT !.event = event, !.observation = seen2, !.facts = facts, !.task = task ]
      IN  ProjectionOK(i, r) /\ SameOptional(r, p) /\ r.task = task
  BY <1>1, <1>2, <1>3, <1>4 DEF ProjectionOK, Projection, SameOptional
<1>7. task = BoundTaskContext(i, p.task)
  BY <1>1 DEF task
<1>8. QED
  BY <1>5, <1>6, <1>7

LEMMA ProjectedSound ==
  ASSUME NEW i, InputOK(i)
  PROVE  /\ ProjectionOK(i, Projected(i))
         /\ Projected(i).history = ProjectHistory(i)
         /\ Projected(i).experiences = ProjectRecentExperiences(i)
         /\ Projected(i).groups = TrimTranscriptGroups(i)
         /\ Projected(i).retrieved = << >> /\ Projected(i).knowledge = << >>
<1>1. /\ ProjectHistory(i) \in HistoryType
      /\ ProjectRecentExperiences(i) \in Seq(ExperienceType)
      /\ TrimTranscriptGroups(i) \in Seq(Nat)
  BY HistoryProjected, ExperiencesOwn, TrimmedGroups
<1>2. ProjectRecentMemories(i) \in Nat
  <2>1. i.memories \in Nat /\ i.budget.records \in Nat /\ i.budget.memory \in Nat
    BY DEF InputOK, Limited
  <2>2. QED
    BY <2>1, LeastType DEF ProjectRecentMemories
<1>3. Len(i.agent) \in Nat /\ Len(i.game) \in Nat /\ i.preferences \in Nat /\ i.body \in Nat
  BY LenProperties DEF InputOK
<1> DEFINE agent == IF i.definitions = Absent THEN 0 ELSE Len(i.agent)
           game == IF i.definitions = Absent THEN 0 ELSE Len(i.game)
           task == IF i.task = Absent THEN Absent
                   ELSE [ progress |-> i.task.progress, results |-> Least(i.task.results, 3),
                          refs |-> i.task.refs ]
           body == IF i.event = Absent THEN 0 ELSE i.body
<1>4. agent \in Nat /\ game \in Nat /\ agent <= Len(i.agent) /\ game <= Len(i.game) /\ body \in Nat
  BY <1>3
<1>5. task \in { Absent } \cup TaskType
  <2>1. CASE i.task = Absent
    BY <2>1
  <2>2. CASE i.task # Absent
    <3>1. i.task.progress \in Nat /\ Least(i.task.results, 3) \in Nat /\ i.task.refs \in Nat
      BY <2>2, LeastType DEF InputOK
    <3>2. QED
      BY <2>2, <3>1 DEF TaskType
  <2>3. QED
    BY <2>1, <2>2
<1>6. << >> \in Seq(SnippetType) /\ << >> \in Seq(Nat)
  BY EmptySeq
<1>7. Projected(i) =
        [ preferences |-> i.preferences, history |-> ProjectHistory(i),
          experiences |-> ProjectRecentExperiences(i), memories |-> ProjectRecentMemories(i),
          groups |-> TrimTranscriptGroups(i), agent |-> agent, game |-> game, task |-> task,
          event |-> body, facts |-> body, observation |-> i.body, retrieved |-> << >>,
          knowledge |-> << >> ]
  BY DEF Projected
<1> HIDE DEF agent, game, task, body
<1>8. QED
  BY <1>1, <1>2, <1>3, <1>4, <1>5, <1>6, <1>7 DEF Projection, ProjectionOK

LEMMA NothingSound ==
  ASSUME NEW i, InputOK(i)
  PROVE  ProjectionOK(i, Nothing)
<1>1. /\ << >> \in Seq(Unit) /\ << >> \in Seq(ExperienceType) /\ << >> \in Seq(Nat)
      /\ << >> \in Seq(SnippetType)
  BY EmptySeq
<1>2. Len(i.agent) \in Nat /\ Len(i.game) \in Nat
  BY LenProperties DEF InputOK
<1>3. [ summary |-> 0, sources |-> << >> ] \in HistoryType
  <2>1. \A u \in Seq(Unit) : [ summary |-> 0, sources |-> u ] \in HistoryType
    BY DEF HistoryType
  <2>2. QED
    BY <1>1, <2>1
<1>4. QED
  BY <1>1, <1>2, <1>3 DEF Nothing, Projection, ProjectionOK

-----------------------------------------------------------------------------
(* What goes first.                                                         *)

LEMMA ShorterDiffers ==
  ASSUME NEW E, NEW s \in Seq(E), s # << >>
  PROVE  /\ Tail(s) \in Seq(E) /\ Tail(s) # s
         /\ Front(s) \in Seq(E) /\ Front(s) # s
         /\ Len(Front(s)) = Len(s) - 1 /\ \A k \in 1 .. Len(Front(s)) : Front(s)[k] = s[k]
<1>1. Len(s) \in Nat /\ Len(s) # 0 /\ \A k \in 1 .. Len(s) : s[k] \in E
  BY EmptySeq, LenProperties
<1>2. Tail(s) \in Seq(E) /\ Len(Tail(s)) = Len(s) - 1
  BY HeadTailProperties
<1>3. /\ SubSeq(s, 1, Len(s) - 1) \in Seq(E)
      /\ Len(SubSeq(s, 1, Len(s) - 1)) = Len(s) - 1
      /\ \A k \in 1 .. Len(s) - 1 : SubSeq(s, 1, Len(s) - 1)[k] = s[k]
  <2> DEFINE n == Len(s) - 1
  <2>1. n \in Nat /\ n \in Int /\ \A k \in 1 .. n : s[k] \in E
    BY <1>1
  <2>2. 1 \in Int
    OBVIOUS
  <2> HIDE DEF n
  <2>3. /\ SubSeq(s, 1, n) \in Seq(E)
        /\ Len(SubSeq(s, 1, n)) = IF 1 <= n THEN n - 1 + 1 ELSE 0
        /\ \A k \in 1 .. n - 1 + 1 : SubSeq(s, 1, n)[k] = s[1 + k - 1]
    BY <2>1, <2>2, SubSeqProperties
  <2>4. Len(SubSeq(s, 1, n)) = n
    BY <2>1, <2>3
  <2>5. \A k \in 1 .. n : SubSeq(s, 1, n)[k] = s[k]
    <3>1. ASSUME NEW k \in 1 .. n PROVE SubSeq(s, 1, n)[k] = s[k]
      <4>1. k \in 1 .. n - 1 + 1 /\ 1 + k - 1 = k
        BY <2>1
      <4>2. QED
        BY <2>3, <4>1
    <3>2. QED
      BY <3>1
  <2>6. QED
    BY <2>3, <2>4, <2>5 DEF n
<1> DEFINE t == Tail(s)
           f == Front(s)
<1>4. t \in Seq(E) /\ Len(t) = Len(s) - 1
  BY <1>2
<1>5. f \in Seq(E) /\ Len(f) = Len(s) - 1 /\ \A k \in 1 .. Len(s) - 1 : f[k] = s[k]
  BY <1>3 DEF Front
<1> HIDE DEF t, f
<1>6. t # s /\ f # s /\ \A k \in 1 .. Len(f) : f[k] = s[k]
  BY <1>1, <1>4, <1>5
<1>7. QED
  BY <1>4, <1>5, <1>6 DEF t, f

LEMMA DropsAre ==
  ASSUME NEW p
  PROVE  /\ DOMAIN Drops(p) = 1 .. 10
         /\ Drops(p)[1] = DropPreferences(p) /\ Drops(p)[2] = DropOldestHistoryDisplay(p)
         /\ Drops(p)[3] = DropExperience(p) /\ Drops(p)[4] = DropOldestTranscriptGroup(p)
         /\ Drops(p)[5] = DropOldestRecentMemory(p) /\ Drops(p)[6] = DropContextFactOptionalFields(p)
         /\ Drops(p)[7] = DropEventPayload(p) /\ Drops(p)[8] = DropObservationOptionalFields(p)
         /\ Drops(p)[9] = DropGameDefinitionOptionalFields(p)
         /\ Drops(p)[10] = DropAgentDefinitionOptionalFields(p)
  BY DEF Drops

LEMMA PartsAre ==
  ASSUME NEW p
  PROVE  /\ DOMAIN Parts(p) = 1 .. 10
         /\ Parts(p)[1] = p.preferences /\ Parts(p)[2] = p.history /\ Parts(p)[3] = p.experiences
         /\ Parts(p)[4] = p.groups /\ Parts(p)[5] = p.memories /\ Parts(p)[6] = p.facts
         /\ Parts(p)[7] = p.event /\ Parts(p)[8] = p.observation /\ Parts(p)[9] = p.game
         /\ Parts(p)[10] = p.agent
  BY DEF Parts

\* q is p after the n-th drop, which touches one part.
Kept(p, q, n) ==
    /\ n # 1 => q.preferences = p.preferences
    /\ n # 2 => q.history = p.history
    /\ n # 3 => q.experiences = p.experiences
    /\ n # 4 => q.groups = p.groups
    /\ n # 5 => q.memories = p.memories
    /\ n # 6 => q.facts = p.facts
    /\ n # 7 => q.event = p.event
    /\ n # 8 => q.observation = p.observation
    /\ n # 9 => q.game = p.game
    /\ n # 10 => q.agent = p.agent
    /\ q.task = p.task /\ q.retrieved = p.retrieved /\ q.knowledge = p.knowledge

\* How the parts that are sequences shrink.
Shrunk(p, q) ==
    /\ \/ q.history.sources = p.history.sources
       \/ p.history.sources # << >> /\ q.history.sources = Tail(p.history.sources)
    /\ \/ q.experiences = p.experiences
       \/ p.experiences # << >> /\ q.experiences = Front(p.experiences)
    /\ \/ q.groups = p.groups
       \/ Len(p.groups) > 1 /\ q.groups = Tail(p.groups)

LEMMA DropKept ==
  ASSUME NEW i, NEW p, ProjectionOK(i, p), Len(i.agent) \in Nat, Len(i.game) \in Nat,
         NEW n \in 1 .. 10
  PROVE  /\ ProjectionOK(i, Drops(p)[n])
         /\ Kept(p, Drops(p)[n], n)
         /\ Shrunk(p, Drops(p)[n])
<1>0. p \in Projection /\ p.agent \in Nat /\ p.game \in Nat
  BY DEF ProjectionOK, Projection
<1> DEFINE Fine(q, m) == ProjectionOK(i, q) /\ Kept(p, q, m) /\ Shrunk(p, q)
<1>1. Fine(DropPreferences(p), 1)
  BY <1>0 DEF DropPreferences, ProjectionOK, Projection, Kept, Shrunk
<1>2. Fine(DropOldestHistoryDisplay(p), 2)
  <2>1. p.history \in HistoryType /\ p.history.sources \in Seq(Unit)
    BY <1>0 DEF Projection, HistoryType
  <2>2. CASE p.history.sources # << >>
    <3> DEFINE t == Tail(p.history.sources)
    <3>1. t \in Seq(Unit)
      BY <2>1, <2>2, ShorterDiffers
    <3>2. DropOldestHistoryDisplay(p) = [ p EXCEPT !.history = [ summary |-> p.history.summary, sources |-> t ] ]
      <4>1. DropOldestHistoryDisplay(p) = [ p EXCEPT !.history = [ p.history EXCEPT !.sources = t ] ]
        BY <2>2 DEF DropOldestHistoryDisplay
      <4>2. [ p.history EXCEPT !.sources = t ] = [ summary |-> p.history.summary, sources |-> t ]
        <5> HIDE DEF t
        <5>1. QED
          BY <2>1 DEF HistoryType
      <4>3. QED
        BY <4>1, <4>2
    <3> DEFINE h == [ summary |-> p.history.summary, sources |-> t ]
    <3>3. h \in HistoryType /\ h.sources = t
      <4> HIDE DEF t
      <4>1. QED
        BY <2>1, <3>1 DEF HistoryType
    <3> HIDE DEF h
    <3>4. Fine([ p EXCEPT !.history = h ], 2)
      BY <1>0, <2>2, <3>3 DEF ProjectionOK, Projection, Kept, Shrunk
    <3> HIDE DEF Fine
    <3>5. QED
      BY <3>2, <3>4 DEF h
  <2>3. CASE p.history.sources = << >>
    <3>1. DropOldestHistoryDisplay(p) = [ p EXCEPT !.history = [ summary |-> 0, sources |-> p.history.sources ] ]
      <4>1. DropOldestHistoryDisplay(p) = [ p EXCEPT !.history = [ p.history EXCEPT !.summary = 0 ] ]
        BY <2>3 DEF DropOldestHistoryDisplay
      <4>2. [ p.history EXCEPT !.summary = 0 ] = [ summary |-> 0, sources |-> p.history.sources ]
        BY <2>1 DEF HistoryType
      <4>3. QED
        BY <4>1, <4>2
    <3> DEFINE h == [ summary |-> 0, sources |-> p.history.sources ]
    <3>2. h \in HistoryType /\ h.sources = p.history.sources
      BY <2>1 DEF HistoryType
    <3> HIDE DEF h
    <3>3. Fine([ p EXCEPT !.history = h ], 2)
      BY <1>0, <3>2 DEF ProjectionOK, Projection, Kept, Shrunk
    <3> HIDE DEF Fine
    <3>4. QED
      BY <3>1, <3>3 DEF h
  <2>4. QED
    BY <2>2, <2>3
<1>3. Fine(DropExperience(p), 3)
  <2>1. p.experiences \in Seq(ExperienceType)
    BY <1>0 DEF Projection
  <2>2. CASE p.experiences = << >>
    BY <1>0, <2>2 DEF DropExperience, ProjectionOK, Kept, Shrunk
  <2>3. CASE p.experiences # << >>
    <3> DEFINE t == Front(p.experiences)
    <3>1. t \in Seq(ExperienceType)
      BY <2>1, <2>3, ShorterDiffers
    <3>2. DropExperience(p) = [ p EXCEPT !.experiences = t ]
      BY <1>0, <2>3 DEF DropExperience, Projection
    <3> HIDE DEF t
    <3>3. [ p EXCEPT !.experiences = t ] \in Projection
      BY <1>0, <3>1 DEF Projection
    <3>4. ProjectionOK(i, [ p EXCEPT !.experiences = t ]) /\ Kept(p, [ p EXCEPT !.experiences = t ], 3)
      BY <1>0, <3>3 DEF ProjectionOK, Projection, Kept
    <3>5. [ p EXCEPT !.experiences = t ].experiences = t
      BY <1>0 DEF Projection
    <3>6. QED
      BY <2>3, <3>2, <3>4, <3>5 DEF Shrunk, Kept, t
  <2>4. QED
    BY <2>2, <2>3
<1>4. Fine(DropOldestTranscriptGroup(p), 4)
  <2>1. p.groups \in Seq(Nat) /\ Len(p.groups) \in Nat
    BY <1>0, LenProperties DEF Projection
  <2>2. CASE Len(p.groups) <= 1
    BY <1>0, <2>2 DEF DropOldestTranscriptGroup, ProjectionOK, Kept, Shrunk
  <2>3. CASE Len(p.groups) > 1
    <3> DEFINE t == Tail(p.groups)
    <3>1. t \in Seq(Nat)
      <4>1. p.groups # << >>
        BY <2>1, <2>3, EmptySeq
      <4>2. QED
        BY <2>1, <4>1, ShorterDiffers
    <3>2. DropOldestTranscriptGroup(p) = [ p EXCEPT !.groups = t ]
      BY <1>0, <2>1, <2>3 DEF DropOldestTranscriptGroup, Projection
    <3> HIDE DEF t
    <3>3. [ p EXCEPT !.groups = t ] \in Projection
      BY <1>0, <3>1 DEF Projection
    <3>4. ProjectionOK(i, [ p EXCEPT !.groups = t ]) /\ Kept(p, [ p EXCEPT !.groups = t ], 4)
      BY <1>0, <3>3 DEF ProjectionOK, Projection, Kept
    <3>5. [ p EXCEPT !.groups = t ].groups = t
      BY <1>0 DEF Projection
    <3>6. QED
      BY <2>3, <3>2, <3>4, <3>5 DEF Shrunk, Kept, t
  <2>4. QED
    BY <2>1, <2>2, <2>3
<1>5. Fine(DropOldestRecentMemory(p), 5)
  <2>1. CASE p.memories = 0
    BY <2>1 DEF DropOldestRecentMemory, ProjectionOK, Kept, Shrunk
  <2>2. CASE p.memories # 0
    <3> DEFINE x == p.memories - 1
    <3>1. x \in Nat
      BY <1>0, <2>2 DEF Projection
    <3>2. DropOldestRecentMemory(p) = [ p EXCEPT !.memories = x ]
      BY <1>0, <2>2 DEF DropOldestRecentMemory, Projection
    <3> HIDE DEF x
    <3>3. Fine([ p EXCEPT !.memories = x ], 5)
      BY <1>0, <3>1 DEF ProjectionOK, Projection, Kept, Shrunk
    <3> HIDE DEF Fine
    <3>4. QED
      BY <3>2, <3>3
  <2>3. QED
    BY <2>1, <2>2
<1>6. Fine(DropContextFactOptionalFields(p), 6)
  <2>1. CASE p.facts = 0
    BY <2>1 DEF DropContextFactOptionalFields, ProjectionOK, Kept, Shrunk
  <2>2. CASE p.facts # 0
    <3> DEFINE x == p.facts - 1
    <3>1. x \in Nat
      BY <1>0, <2>2 DEF Projection
    <3>2. DropContextFactOptionalFields(p) = [ p EXCEPT !.facts = x ]
      BY <1>0, <2>2 DEF DropContextFactOptionalFields, Projection
    <3> HIDE DEF x
    <3>3. Fine([ p EXCEPT !.facts = x ], 6)
      BY <1>0, <3>1 DEF ProjectionOK, Projection, Kept, Shrunk
    <3> HIDE DEF Fine
    <3>4. QED
      BY <3>2, <3>3
  <2>3. QED
    BY <2>1, <2>2
<1>7. Fine(DropEventPayload(p), 7)
  BY <1>0 DEF DropEventPayload, ProjectionOK, Projection, Kept, Shrunk
<1>8. Fine(DropObservationOptionalFields(p), 8)
  BY <1>0 DEF DropObservationOptionalFields, ProjectionOK, Projection, Kept, Shrunk
<1>9. Fine(DropGameDefinitionOptionalFields(p), 9)
  <2>1. DropGameDefinitionOptionalFields(p) = [ p EXCEPT !.game = 0 ]
    BY DEF DropGameDefinitionOptionalFields
  <2>2. [ p EXCEPT !.game = 0 ] \in Projection
    BY <1>0 DEF Projection
  <2>3. 0 <= Len(i.game) /\ p.agent <= Len(i.agent) /\ p.game <= Len(i.game)
    BY DEF ProjectionOK
  <2>4. QED
    BY <1>0, <2>1, <2>2, <2>3 DEF ProjectionOK, Projection, Kept, Shrunk
<1>10. Fine(DropAgentDefinitionOptionalFields(p), 10)
  <2>1. DropAgentDefinitionOptionalFields(p) = [ p EXCEPT !.agent = 0 ]
    BY DEF DropAgentDefinitionOptionalFields
  <2>2. [ p EXCEPT !.agent = 0 ] \in Projection
    BY <1>0 DEF Projection
  <2>3. 0 <= Len(i.agent) /\ p.agent <= Len(i.agent) /\ p.game <= Len(i.game)
    BY DEF ProjectionOK
  <2>4. QED
    BY <1>0, <2>1, <2>2, <2>3 DEF ProjectionOK, Projection, Kept, Shrunk
<1> HIDE DEF Fine
<1>11. Fine(Drops(p)[n], n)
  <2>1. CASE n = 1
    BY <1>1, <2>1, DropsAre
  <2>2. CASE n = 2
    BY <1>2, <2>2, DropsAre
  <2>3. CASE n = 3
    BY <1>3, <2>3, DropsAre
  <2>4. CASE n = 4
    BY <1>4, <2>4, DropsAre
  <2>5. CASE n = 5
    BY <1>5, <2>5, DropsAre
  <2>6. CASE n = 6
    BY <1>6, <2>6, DropsAre
  <2>7. CASE n = 7
    BY <1>7, <2>7, DropsAre
  <2>8. CASE n = 8
    BY <1>8, <2>8, DropsAre
  <2>9. CASE n = 9
    BY <1>9, <2>9, DropsAre
  <2>10. CASE n = 10
    BY <1>10, <2>10, DropsAre
  <2>11. QED
    BY <2>1, <2>2, <2>3, <2>4, <2>5, <2>6, <2>7, <2>8, <2>9, <2>10
<1>12. QED
  BY <1>11 DEF Fine

\* Which drops still change something.
LEMMA EffectiveIs ==
  ASSUME NEW p \in Projection
  PROVE  /\ Effective(p) \subseteq 1 .. 10
         /\ 1 \in Effective(p) <=> p.preferences # 0
         /\ 2 \in Effective(p) <=> p.history.sources # << >> \/ p.history.summary # 0
         /\ 3 \in Effective(p) <=> p.experiences # << >>
         /\ 4 \in Effective(p) <=> ~(Len(p.groups) <= 1)
         /\ 5 \in Effective(p) <=> p.memories # 0
         /\ 6 \in Effective(p) <=> p.facts # 0
         /\ 7 \in Effective(p) <=> p.event # 0
         /\ 8 \in Effective(p) <=> p.observation # 0
         /\ 9 \in Effective(p) <=> p.game # 0
         /\ 10 \in Effective(p) <=> p.agent # 0
<1>1. DropPreferences(p) # p <=> p.preferences # 0
  BY DEF DropPreferences, Projection
<1>2. DropOldestHistoryDisplay(p) # p <=> p.history.sources # << >> \/ p.history.summary # 0
  <2>1. p.history \in HistoryType /\ p.history.sources \in Seq(Unit)
    BY DEF Projection, HistoryType
  <2>2. CASE p.history.sources # << >>
    <3> DEFINE t == Tail(p.history.sources)
    <3>1. t # p.history.sources
      BY <2>1, <2>2, ShorterDiffers
    <3>2. DropOldestHistoryDisplay(p).history.sources = t
      BY <2>1, <2>2 DEF DropOldestHistoryDisplay, Projection, HistoryType
    <3> HIDE DEF t
    <3>3. DropOldestHistoryDisplay(p) # p
      BY <3>1, <3>2
    <3>4. QED
      BY <2>2, <3>3
  <2>3. CASE p.history.sources = << >>
    <3>1. DropOldestHistoryDisplay(p) = [ p EXCEPT !.history = [ summary |-> 0, sources |-> p.history.sources ] ]
      <4>1. DropOldestHistoryDisplay(p) = [ p EXCEPT !.history = [ p.history EXCEPT !.summary = 0 ] ]
        BY <2>3 DEF DropOldestHistoryDisplay
      <4>2. [ p.history EXCEPT !.summary = 0 ] = [ summary |-> 0, sources |-> p.history.sources ]
        BY <2>1 DEF HistoryType
      <4>3. QED
        BY <4>1, <4>2
    <3>2. [ p EXCEPT !.history = [ summary |-> 0, sources |-> p.history.sources ] ].history.summary = 0
      BY DEF Projection
    <3>3. p.history.summary = 0 =>
            p.history = [ summary |-> 0, sources |-> p.history.sources ]
      BY <2>1 DEF HistoryType
    <3>4. \A h : p.history = h => [ p EXCEPT !.history = h ] = p
      BY DEF Projection
    <3>5. QED
      BY <2>3, <3>1, <3>2, <3>3, <3>4
  <2>4. QED
    BY <2>2, <2>3
<1>3. DropExperience(p) # p <=> p.experiences # << >>
  <2>1. p.experiences \in Seq(ExperienceType)
    BY DEF Projection
  <2>2. CASE p.experiences # << >>
    <3> DEFINE t == Front(p.experiences)
    <3>1. t # p.experiences
      BY <2>1, <2>2, ShorterDiffers
    <3>2. DropExperience(p) = [ p EXCEPT !.experiences = t ]
      BY <2>2 DEF DropExperience, Projection
    <3> HIDE DEF t
    <3>3. [ p EXCEPT !.experiences = t ].experiences = t
      BY DEF Projection
    <3>4. DropExperience(p) # p
      BY <3>1, <3>2, <3>3
    <3>5. QED
      BY <2>2, <3>4
  <2>3. QED
    BY <2>2 DEF DropExperience
<1>4. DropOldestTranscriptGroup(p) # p <=> ~(Len(p.groups) <= 1)
  <2>1. p.groups \in Seq(Nat) /\ Len(p.groups) \in Nat
    BY LenProperties DEF Projection
  <2>2. CASE ~(Len(p.groups) <= 1)
    <3> DEFINE t == Tail(p.groups)
    <3>1. t # p.groups
      <4>1. p.groups # << >>
        BY <2>1, <2>2, EmptySeq
      <4>2. QED
        BY <2>1, <4>1, ShorterDiffers
    <3>2. DropOldestTranscriptGroup(p) = [ p EXCEPT !.groups = t ]
      BY <2>2 DEF DropOldestTranscriptGroup, Projection
    <3> HIDE DEF t
    <3>3. [ p EXCEPT !.groups = t ].groups = t
      BY DEF Projection
    <3>4. DropOldestTranscriptGroup(p) # p
      BY <3>1, <3>2, <3>3
    <3>5. QED
      BY <2>2, <3>4
  <2>3. QED
    BY <2>2 DEF DropOldestTranscriptGroup
<1>5. DropOldestRecentMemory(p) # p <=> p.memories # 0
  BY DEF DropOldestRecentMemory, Projection
<1>6. DropContextFactOptionalFields(p) # p <=> p.facts # 0
  BY DEF DropContextFactOptionalFields, Projection
<1>7. DropEventPayload(p) # p <=> p.event # 0
  BY DEF DropEventPayload, Projection
<1>8. DropObservationOptionalFields(p) # p <=> p.observation # 0
  BY DEF DropObservationOptionalFields, Projection
<1>9. DropGameDefinitionOptionalFields(p) # p <=> p.game # 0
  BY DEF DropGameDefinitionOptionalFields, Projection
<1>10. DropAgentDefinitionOptionalFields(p) # p <=> p.agent # 0
  BY DEF DropAgentDefinitionOptionalFields, Projection
<1>11. \A n : n \in Effective(p) <=> n \in 1 .. 10 /\ Drops(p)[n] # p
  BY DropsAre DEF Effective
<1>12. 1 \in Effective(p) <=> p.preferences # 0
  BY <1>1, <1>11, DropsAre
<1>13. 2 \in Effective(p) <=> p.history.sources # << >> \/ p.history.summary # 0
  BY <1>2, <1>11, DropsAre
<1>14. 3 \in Effective(p) <=> p.experiences # << >>
  BY <1>3, <1>11, DropsAre
<1>15. 4 \in Effective(p) <=> ~(Len(p.groups) <= 1)
  BY <1>4, <1>11, DropsAre
<1>16. 5 \in Effective(p) <=> p.memories # 0
  BY <1>5, <1>11, DropsAre
<1>17. 6 \in Effective(p) <=> p.facts # 0
  BY <1>6, <1>11, DropsAre
<1>18. 7 \in Effective(p) <=> p.event # 0
  BY <1>7, <1>11, DropsAre
<1>19. 8 \in Effective(p) <=> p.observation # 0
  BY <1>8, <1>11, DropsAre
<1>20. 9 \in Effective(p) <=> p.game # 0
  BY <1>9, <1>11, DropsAre
<1>21. 10 \in Effective(p) <=> p.agent # 0
  BY <1>10, <1>11, DropsAre
<1>22. QED
  BY <1>11, <1>12, <1>13, <1>14, <1>15, <1>16, <1>17, <1>18, <1>19, <1>20, <1>21

-----------------------------------------------------------------------------
(* The size of a request.                                                   *)

LEMMA PiecesCount ==
  ASSUME NEW w \in SUBSET { 1, 2 }
  PROVE  Cardinality(w) \in Nat
<1>1. IsFiniteSet({ 1, 2 })
  <2>1. { 1, 2 } = { 1 } \cup { 2 }
    OBVIOUS
  <2>2. \A x : IsFiniteSet({ x })
    BY FS_Singleton
  <2>3. \A S, x : IsFiniteSet(S) => IsFiniteSet(S \cup { x })
    BY FS_AddElement, Zenon
  <2>4. IsFiniteSet({ 1 } \cup { 2 })
    BY <2>2, <2>3, Zenon
  <2>5. QED
    BY <2>1, <2>4, Zenon
<1>2. IsFiniteSet(w)
  BY <1>1, FS_Subset
<1>3. QED
  BY <1>2, FS_CardinalityType

\* The sizes of the snippets r.
Counts(r) == [ n \in DOMAIN r |-> Cardinality(r[n].pieces) ]

LEMMA CountsType ==
  ASSUME NEW r \in Seq(SnippetType)
  PROVE  Counts(r) \in Seq(Nat) /\ Len(Counts(r)) = Len(r)
<1>1. Len(r) \in Nat /\ DOMAIN r = 1 .. Len(r) /\ \A n \in 1 .. Len(r) : r[n] \in SnippetType
  BY LenProperties
<1>2. \A n \in 1 .. Len(r) : Cardinality(r[n].pieces) \in Nat
  BY <1>1, PiecesCount DEF SnippetType
<1>3. Counts(r) = [ n \in 1 .. Len(r) |-> Cardinality(r[n].pieces) ]
  BY <1>1 DEF Counts
<1>4. QED
  BY <1>1, <1>2, <1>3

LEMMA CountsAppend ==
  ASSUME NEW r \in Seq(SnippetType), NEW x \in SnippetType
  PROVE  /\ Total(Counts(Append(r, x))) = Total(Counts(r)) + Cardinality(x.pieces)
         /\ Total(Counts(r)) \in Nat /\ Cardinality(x.pieces) \in Nat
<1> DEFINE t == Append(r, x)
           c == Cardinality(x.pieces)
           N == Len(r)
<1>1. /\ t \in Seq(SnippetType) /\ Len(t) = N + 1 /\ N \in Nat
      /\ (\A k \in 1 .. N : t[k] = r[k]) /\ t[N + 1] = x
      /\ DOMAIN r = 1 .. N
  BY AppendProperties, LenProperties
<1> HIDE DEF t
<1>2. DOMAIN t = 1 .. N + 1
  BY <1>1, LenProperties
<1>3. c \in Nat
  BY PiecesCount DEF SnippetType
<1>4. /\ Counts(r) \in Seq(Nat) /\ Len(Counts(r)) = N
      /\ Counts(t) \in Seq(Nat) /\ Len(Counts(t)) = N + 1
  BY <1>1, CountsType
<1>5. /\ \A k \in 1 .. N : Counts(r)[k] = Cardinality(r[k].pieces)
      /\ \A k \in 1 .. N + 1 : Counts(t)[k] = Cardinality(t[k].pieces)
  BY <1>1, <1>2 DEF Counts
<1> DEFINE a == Counts(r)
           b == Counts(t)
           d == Append(a, c)
<1>6. b = d
  <2>1. /\ d \in Seq(Nat) /\ Len(d) = N + 1
        /\ (\A k \in 1 .. N : d[k] = a[k]) /\ d[N + 1] = c
    <3> HIDE DEF c, a
    <3>1. a \in Seq(Nat) /\ Len(a) = N
      BY <1>4 DEF a
    <3>2. QED
      BY <1>3, <3>1, AppendProperties
  <2>2. ASSUME NEW k \in 1 .. N + 1 PROVE b[k] = d[k]
    <3>1. CASE k = N + 1
      <4>1. b[k] = Cardinality(t[N + 1].pieces)
        BY <1>5, <3>1
      <4> HIDE DEF b, d, c
      <4>2. QED
        BY <1>1, <2>1, <3>1, <4>1 DEF c
    <3>2. CASE k # N + 1
      <4>1. k \in 1 .. N
        BY <1>1, <3>2
      <4>2. b[k] = Cardinality(t[k].pieces) /\ a[k] = Cardinality(r[k].pieces)
        BY <1>5, <4>1
      <4> HIDE DEF b, d, a
      <4>3. QED
        BY <1>1, <2>1, <4>1, <4>2
    <3>3. QED
      BY <3>1, <3>2
  <2> HIDE DEF b, d, a, c
  <2>3. b \in Seq(Nat) /\ Len(b) = N + 1
    BY <1>4 DEF b
  <2>4. QED
    BY <2>1, <2>2, <2>3, SeqEqual
<1>7. Total(d) = Total(a) + c
  <2> HIDE DEF c, a
  <2>1. a \in Seq(Nat)
    BY <1>4 DEF a
  <2>2. QED
    BY <1>3, <2>1, TotalAppend
<1>8. QED
  BY <1>3, <1>4, <1>6, <1>7, TotalType DEF t

LEMMA UnitsType ==
  ASSUME NEW h \in HistoryType
  PROVE  HistoryTokens(h) \in Nat
<1> DEFINE s == h.sources
           t == [ n \in DOMAIN s |-> UnitTokens(s[n]) ]
<1>1. h.summary \in Nat /\ s \in Seq(Unit)
  BY DEF HistoryType
<1>2. Len(s) \in Nat /\ DOMAIN s = 1 .. Len(s)
  BY <1>1, LenProperties
<1>3. t \in Seq(Nat)
  <2>1. t = [ n \in 1 .. Len(s) |-> UnitTokens(s[n]) ]
    BY <1>2
  <2>2. \A n \in 1 .. Len(s) : UnitTokens(s[n]) \in Nat
    BY DEF UnitTokens
  <2>3. QED
    BY <1>2, <2>1, <2>2
<1>4. Total(t) \in Nat
  <2> HIDE DEF t
  <2>1. QED
    BY <1>3, TotalType
<1>5. QED
  BY <1>1, <1>4 DEF HistoryTokens

LEMMA SizesType ==
  ASSUME NEW s \in Seq(ExperienceType)
  PROVE  Total([ n \in DOMAIN s |-> s[n].size ]) \in Nat
<1> DEFINE t == [ n \in DOMAIN s |-> s[n].size ]
<1>1. Len(s) \in Nat /\ DOMAIN s = 1 .. Len(s) /\ \A n \in 1 .. Len(s) : s[n] \in ExperienceType
  BY LenProperties
<1>2. t = [ n \in 1 .. Len(s) |-> s[n].size ] /\ \A n \in 1 .. Len(s) : s[n].size \in Nat
  BY <1>1 DEF ExperienceType
<1>3. t \in Seq(Nat)
  BY <1>1, <1>2
<1> HIDE DEF t
<1>4. Total(t) \in Nat
  BY <1>3, TotalType
<1>5. QED
  BY <1>4 DEF t

\* All of the user message but what is retrieved.
Rest(i, p) ==
    p.preferences + HistoryTokens(p.history) + p.memories + TaskTokens(p.task) + DefinitionTokens(i, p)
      + 3 * i.shell + p.event + p.facts + p.observation
      + Introduced(Total([ n \in DOMAIN p.experiences |-> p.experiences[n].size ]))

LEMMA IntroducedType == \A n \in Nat : Introduced(n) \in Nat
  BY DEF Introduced

LEMMA IntroducedGrows == \A m, n \in Nat : m <= n => Introduced(m) <= Introduced(n)
  BY DEF Introduced

LEMMA RestType ==
  ASSUME NEW i, InputOK(i), NEW p, ProjectionOK(i, p)
  PROVE  Rest(i, p) \in Nat
<1>1. /\ p.preferences \in Nat /\ p.history \in HistoryType /\ p.memories \in Nat
      /\ p.task \in { Absent } \cup TaskType /\ p.event \in Nat /\ p.facts \in Nat
      /\ p.observation \in Nat /\ p.experiences \in Seq(ExperienceType)
      /\ p.agent \in Nat /\ p.game \in Nat
  BY DEF ProjectionOK, Projection
<1>2. HistoryTokens(p.history) \in Nat /\ TaskTokens(p.task) \in Nat
  BY <1>1, UnitsType, TaskTokensType
<1>3. DefinitionTokens(i, p) \in Nat
  <2>1. /\ i.agent \in Seq(Nat) /\ i.game \in Seq(Nat)
        /\ Len(i.agent) \in Nat /\ Len(i.game) \in Nat
    <3>1. i.agent \in Seq(Nat) /\ i.game \in Seq(Nat)
      BY DEF InputOK
    <3>2. QED
      BY <3>1, LenProperties
  <2>2. p.agent \in 0 .. Len(i.agent) /\ p.game \in 0 .. Len(i.game)
    BY <1>1, <2>1 DEF ProjectionOK
  <2>3. Total(SubSeq(i.agent, 1, p.agent)) \in Nat /\ Total(SubSeq(i.game, 1, p.game)) \in Nat
    BY <2>1, <2>2, PrefixTotal
  <2>4. QED
    BY <2>3 DEF DefinitionTokens
<1>4. Introduced(Total([ n \in DOMAIN p.experiences |-> p.experiences[n].size ])) \in Nat
  BY <1>1, SizesType, IntroducedType
<1>5. 3 * i.shell \in Nat
  <2>1. \A n \in Nat : 3 * n \in Nat
    OBVIOUS
  <2>2. i.shell \in Nat
    BY DEF InputOK
  <2>3. QED
    BY <2>1, <2>2
<1> DEFINE a == HistoryTokens(p.history)
           b == TaskTokens(p.task)
           c == DefinitionTokens(i, p)
           d == Introduced(Total([ n \in DOMAIN p.experiences |-> p.experiences[n].size ]))
           e == 3 * i.shell
<1>6. Rest(i, p) = p.preferences + a + p.memories + b + c + e + p.event + p.facts + p.observation + d
  BY DEF Rest
<1> HIDE DEF a, b, c, d, e
<1>7. a \in Nat /\ b \in Nat /\ c \in Nat /\ d \in Nat /\ e \in Nat
  BY <1>2, <1>3, <1>4, <1>5 DEF a, b, c, d, e
<1> DEFINE x == p.preferences
           y == p.memories
           z == p.event
           v == p.facts
           w == p.observation
<1>8. x \in Nat /\ y \in Nat /\ z \in Nat /\ v \in Nat /\ w \in Nat
  BY <1>1
<1>9. Rest(i, p) = x + a + y + b + c + e + z + v + w + d
  BY <1>6
<1> HIDE DEF x, y, z, v, w
<1>10. QED
  BY <1>7, <1>8, <1>9

\* Two projections that differ in what is retrieved.
Beside(p, q) ==
    /\ p.preferences = q.preferences /\ p.history = q.history /\ p.experiences = q.experiences
    /\ p.memories = q.memories /\ p.groups = q.groups /\ p.agent = q.agent /\ p.game = q.game
    /\ p.task = q.task /\ p.event = q.event /\ p.facts = q.facts /\ p.observation = q.observation
    /\ p.knowledge = q.knowledge

LEMMA RestBeside ==
  ASSUME NEW i, NEW p, NEW q, Beside(p, q)
  PROVE  Rest(i, p) = Rest(i, q)
<1>1. DefinitionTokens(i, p) = DefinitionTokens(i, q)
  BY DEF Beside, DefinitionTokens
<1>2. [ n \in DOMAIN p.experiences |-> p.experiences[n].size ] =
      [ n \in DOMAIN q.experiences |-> q.experiences[n].size ]
  BY DEF Beside
<1>3. QED
  BY <1>1, <1>2 DEF Beside, Rest

LEMMA TokensSplit ==
  ASSUME NEW i, NEW p
  PROVE  /\ UserMessageTokens(i, p) =
              Rest(i, p) + Introduced(SnippetTokens(p)) + Introduced(Len(p.knowledge))
         /\ SnippetTokens(p) = Total(Counts(p.retrieved))
  BY DEF UserMessageTokens, Rest, SnippetTokens, Counts

LEMMA SnippetTokensType ==
  ASSUME NEW p \in Projection
  PROVE  SnippetTokens(p) \in Nat
<1>1. p.retrieved \in Seq(SnippetType)
  BY DEF Projection
<1>2. Counts(p.retrieved) \in Seq(Nat)
  BY <1>1, CountsType
<1>3. QED
  BY <1>2, TotalType, TokensSplit

\* What fits with more snippets fits with fewer.
LEMMA FitsWithFewer ==
  ASSUME NEW i, InputOK(i), NEW p, ProjectionOK(i, p), NEW q, ProjectionOK(i, q),
         Beside(p, q), SnippetTokens(p) <= SnippetTokens(q), SnippetFits(i, q)
  PROVE  SnippetFits(i, p)
<1> DEFINE a == SnippetTokens(p)
           b == SnippetTokens(q)
           r == Rest(i, p)
           k == Introduced(Len(p.knowledge))
           g == Total(p.groups)
           up == UserMessageTokens(i, p)
           uq == UserMessageTokens(i, q)
<1>1. a \in Nat /\ b \in Nat
  BY SnippetTokensType DEF ProjectionOK
<1>2. r \in Nat /\ r = Rest(i, q)
  BY RestType, RestBeside
<1>3. p.knowledge = q.knowledge /\ p.groups = q.groups /\ p.groups \in Seq(Nat) /\ p.knowledge \in Seq(Nat)
  BY DEF Beside, ProjectionOK, Projection
<1>4. k \in Nat /\ g \in Nat
  BY <1>3, LenProperties, TotalType, IntroducedType
<1>5. up = r + Introduced(a) + k /\ uq = r + Introduced(b) + k
  BY <1>2, <1>3, TokensSplit
<1>6. Introduced(a) \in Nat /\ Introduced(b) \in Nat /\ Introduced(a) <= Introduced(b)
  BY <1>1, IntroducedType, IntroducedGrows
<1>7. up \in Nat /\ uq \in Nat /\ up <= uq
  <2> HIDE DEF a, b, r, k, up, uq
  <2>1. QED
    BY <1>2, <1>4, <1>5, <1>6
<1>8. /\ i.system \in Nat /\ i.budget.user \in Nat /\ i.budget.request \in Nat
      /\ i.budget.retrieval \in Nat
  BY DEF InputOK, Limited
<1>9. /\ b <= i.budget.retrieval /\ i.system <= i.budget.system /\ uq <= i.budget.user
      /\ i.system + uq + g <= i.budget.request
  BY <1>3 DEF SnippetFits, FitsRequestBudget, TotalTokens
<1>10. TotalTokens(i, p) = i.system + up + g
  BY DEF TotalTokens
<1>11. /\ a <= i.budget.retrieval /\ up <= i.budget.user /\ i.system + up + g <= i.budget.request
  <2>1. a <= b
    OBVIOUS
  <2> DEFINE y == i.system
             l == i.budget.retrieval
             m == i.budget.user
             n == i.budget.request
  <2>2. y \in Nat /\ l \in Nat /\ m \in Nat /\ n \in Nat
    BY <1>8
  <2>3. b <= l /\ uq <= m /\ y + uq + g <= n
    BY <1>9
  <2> HIDE DEF a, b, g, up, uq, y, l, m, n
  <2>4. a <= l
    BY <1>1, <2>1, <2>2, <2>3
  <2>5. up <= m /\ y + up + g <= n
    BY <1>4, <1>7, <2>2, <2>3
  <2>6. QED
    BY <2>4, <2>5 DEF l, m, n, y
<1>12. QED
  BY <1>9, <1>10, <1>11 DEF SnippetFits, FitsRequestBudget

LEMMA WithSnippetSound ==
  ASSUME NEW i, NEW p, ProjectionOK(i, p), NEW id \in Nat, NEW w \in SUBSET { 1, 2 }
  PROVE  /\ ProjectionOK(i, WithSnippet(p, id, w))
         /\ WithSnippet(p, id, w).retrieved = Append(p.retrieved, [ id |-> id, pieces |-> w ])
         /\ Beside(WithSnippet(p, id, w), p)
         /\ SnippetTokens(WithSnippet(p, id, w)) = SnippetTokens(p) + Cardinality(w)
         /\ Cardinality(w) \in Nat
<1> DEFINE x == [ id |-> id, pieces |-> w ]
           t == Append(p.retrieved, x)
           q == [ p EXCEPT !.retrieved = t ]
<1>1. p \in Projection /\ p.retrieved \in Seq(SnippetType) /\ x \in SnippetType /\ x.pieces = w
  BY DEF ProjectionOK, Projection, SnippetType
<1>2. WithSnippet(p, id, w) = q
  BY DEF WithSnippet
<1>3. /\ t \in Seq(SnippetType)
      /\ Total(Counts(t)) = Total(Counts(p.retrieved)) + Cardinality(w)
      /\ Cardinality(w) \in Nat
  <2> HIDE DEF x
  <2>1. QED
    BY <1>1, AppendProperties, CountsAppend
<1> HIDE DEF t
<1>4. q.retrieved = t /\ Beside(q, p) /\ ProjectionOK(i, q)
  BY <1>1, <1>3 DEF ProjectionOK, Projection, Beside
<1>5. SnippetTokens(q) = Total(Counts(t)) /\ SnippetTokens(p) = Total(Counts(p.retrieved))
  BY <1>4, TokensSplit
<1> HIDE DEF q
<1>6. QED
  BY <1>2, <1>3, <1>4, <1>5 DEF t

\* Without its knowledge, as before the knowledge was added.
LEMMA UnlearnedSound ==
  ASSUME NEW i, NEW p, ProjectionOK(i, p)
  PROVE  /\ ProjectionOK(i, [ p EXCEPT !.knowledge = << >> ])
         /\ [ p EXCEPT !.knowledge = << >> ].retrieved = p.retrieved
         /\ SnippetTokens([ p EXCEPT !.knowledge = << >> ]) = SnippetTokens(p)
<1> DEFINE q == [ p EXCEPT !.knowledge = << >> ]
<1>1. << >> \in Seq(Nat)
  BY EmptySeq
<1>2. ProjectionOK(i, q) /\ q.retrieved = p.retrieved
  BY <1>1 DEF ProjectionOK, Projection
<1> HIDE DEF q
<1>3. SnippetTokens(q) = SnippetTokens(p)
  BY <1>2, TokensSplit
<1>4. QED
  BY <1>2, <1>3 DEF q

\* A match is in the request, or there was no room for it.
Found(i, p, match) ==
    \/ ~match.own \/ ~match.visible
    \/ \E m \in DOMAIN p.experiences : p.experiences[m].id = match.id
    \/ match.span \cap (VisiblePieces(p.history, match.id) \cup Snippets(p, match.id)) # {}
    \/ Len(p.retrieved) = SnippetLimit
    \/ \A w \in match.span : ~SnippetFits(i, WithSnippet([ p EXCEPT !.knowledge = << >> ], match.id, { w }))

LEMMA SnippetsGrow ==
  ASSUME NEW i, NEW p, ProjectionOK(i, p), NEW id \in Nat, NEW w \in SUBSET { 1, 2 }, NEW k
  PROVE  /\ Snippets(p, k) \subseteq Snippets(WithSnippet(p, id, w), k)
         /\ w \subseteq Snippets(WithSnippet(p, id, w), id)
<1> DEFINE x == [ id |-> id, pieces |-> w ]
           r == p.retrieved
           t == Append(r, x)
           q == WithSnippet(p, id, w)
<1>1. r \in Seq(SnippetType) /\ x \in SnippetType /\ x.pieces = w /\ x.id = id
  BY DEF ProjectionOK, Projection, SnippetType
<1> HIDE DEF x
<1>2. /\ t \in Seq(SnippetType) /\ Len(t) = Len(r) + 1 /\ Len(r) \in Nat
      /\ (\A n \in 1 .. Len(r) : t[n] = r[n]) /\ t[Len(r) + 1] = x
      /\ DOMAIN r = 1 .. Len(r)
  BY <1>1, AppendProperties, LenProperties
<1>3. q.retrieved = t
  BY WithSnippetSound DEF x
<1> HIDE DEF t, q
<1>4. DOMAIN t = 1 .. Len(r) + 1
  BY <1>2, LenProperties
<1>5. ASSUME NEW y \in Snippets(p, k) PROVE y \in Snippets(q, k)
  <2>1. PICK n \in DOMAIN r : r[n].id = k /\ y \in r[n].pieces
    BY DEF Snippets
  <2>2. n \in DOMAIN t /\ t[n] = r[n]
    BY <1>2, <1>4
  <2>3. QED
    BY <1>3, <2>1, <2>2 DEF Snippets
<1>6. ASSUME NEW y \in w PROVE y \in Snippets(q, id)
  <2>1. Len(r) + 1 \in DOMAIN t
    BY <1>2, <1>4
  <2>2. QED
    BY <1>1, <1>2, <1>3, <2>1 DEF Snippets
<1>7. QED
  BY <1>5, <1>6 DEF q

\* And it stays so when another snippet is added.
LEMMA FoundGrows ==
  ASSUME NEW i, InputOK(i), NEW p, ProjectionOK(i, p), NEW id \in Nat, NEW w \in SUBSET { 1, 2 },
         NEW match \in MatchType, Found(i, p, match), Len(p.retrieved) # SnippetLimit
  PROVE  Found(i, WithSnippet(p, id, w), match)
<1> DEFINE q == WithSnippet(p, id, w)
<1>1. /\ ProjectionOK(i, q) /\ Beside(q, p)
      /\ SnippetTokens(q) = SnippetTokens(p) + Cardinality(w) /\ Cardinality(w) \in Nat
  BY WithSnippetSound
<1>2. Snippets(p, match.id) \subseteq Snippets(q, match.id)
  BY SnippetsGrow
<1> HIDE DEF q
<1>3. CASE ~match.own \/ ~match.visible
  BY <1>3 DEF Found, q
<1>4. CASE \E m \in DOMAIN p.experiences : p.experiences[m].id = match.id
  <2>1. q.experiences = p.experiences
    BY <1>1 DEF Beside
  <2>2. \E m \in DOMAIN q.experiences : q.experiences[m].id = match.id
    BY <1>4, <2>1
  <2>3. QED
    BY <2>2 DEF Found, q
<1>5. CASE match.span \cap (VisiblePieces(p.history, match.id) \cup Snippets(p, match.id)) # {}
  <2>1. q.history = p.history
    BY <1>1 DEF Beside
  <2>2. match.span \cap (VisiblePieces(q.history, match.id) \cup Snippets(q, match.id)) # {}
    BY <1>2, <1>5, <2>1
  <2>3. QED
    BY <2>2 DEF Found, q
<1>6. CASE \A v \in match.span : ~SnippetFits(i, WithSnippet([ p EXCEPT !.knowledge = << >> ], match.id, { v }))
  <2> DEFINE a == [ p EXCEPT !.knowledge = << >> ]
             b == [ q EXCEPT !.knowledge = << >> ]
  <2>1. ASSUME NEW v \in match.span, SnippetFits(i, WithSnippet(b, match.id, { v }))
        PROVE  FALSE
    <3>1. match.id \in Nat /\ { v } \in SUBSET { 1, 2 }
      BY DEF MatchType
    <3>2. ProjectionOK(i, a) /\ SnippetTokens(a) = SnippetTokens(p)
      BY UnlearnedSound
    <3>3. ProjectionOK(i, b) /\ SnippetTokens(b) = SnippetTokens(q)
      BY <1>1, UnlearnedSound
    <3>4. Beside(a, b)
      <4>1. p \in Projection /\ q \in Projection
        BY <1>1 DEF ProjectionOK
      <4>2. QED
        BY <1>1, <4>1 DEF Beside, Projection
    <3> HIDE DEF a, b
    <3> DEFINE c == WithSnippet(a, match.id, { v })
               d == WithSnippet(b, match.id, { v })
    <3>5. /\ ProjectionOK(i, c) /\ Beside(c, a)
          /\ SnippetTokens(c) = SnippetTokens(a) + Cardinality({ v }) /\ Cardinality({ v }) \in Nat
      BY <3>1, <3>2, WithSnippetSound
    <3>6. /\ ProjectionOK(i, d) /\ Beside(d, b)
          /\ SnippetTokens(d) = SnippetTokens(b) + Cardinality({ v })
      BY <3>1, <3>3, WithSnippetSound
    <3>7. SnippetFits(i, d)
      BY <2>1
    <3>8. ~SnippetFits(i, c)
      BY <1>6 DEF a
    <3> HIDE DEF c, d
    <3>9. Beside(c, d)
      BY <3>4, <3>5, <3>6 DEF Beside
    <3>10. SnippetTokens(c) <= SnippetTokens(d)
      <4>1. SnippetTokens(p) \in Nat
        BY SnippetTokensType DEF ProjectionOK
      <4>2. QED
        BY <1>1, <3>2, <3>3, <3>5, <3>6, <4>1
    <3>11. QED
      BY <3>5, <3>6, <3>7, <3>8, <3>9, <3>10, FitsWithFewer
  <2>2. QED
    BY <2>1 DEF Found, q
<1>7. QED
  BY <1>3, <1>4, <1>5, <1>6 DEF Found

-----------------------------------------------------------------------------
(* The inductive invariant of a build.                                      *)

Going == { "trim", "retrieve", "knowledge", "built" }

\* Where Build is, and what it has not begun yet.
StageSound ==
    /\ stage \in { "start", "sections", "failed" } \cup Going
    /\ stage = "start" => shown = Nothing
    /\ stage \in { "start", "sections", "trim" } => cursor = 1
    /\ stage = "sections" => shown = Projected(input)
    /\ stage \in { "start", "sections", "trim", "failed" } => shown.retrieved = << >>
    /\ stage \in { "start", "sections", "trim", "failed", "retrieve" } => shown.knowledge = << >>

\* What the search found and Build has looked at.
LookedAt ==
    /\ Len(shown.retrieved) <= SnippetLimit
    /\ stage = "retrieve" =>
         \A n \in 1 .. Len(input.matches) : n < cursor => Found(input, shown, input.matches[n])
    /\ stage \in { "knowledge", "built" } /\ input.snapshotOwn =>
         \A n \in 1 .. Len(input.matches) : Found(input, shown, input.matches[n])

BuildInv ==
    /\ input \in Inputs /\ cursor \in Nat \ { 0 }
    /\ ProjectionOK(input, shown)
    /\ StageSound
    /\ LookedAt
    /\ FitsOrMinimal
    /\ NewestGroupKept
    /\ DroppedInOrder
    /\ OwnPastOnly
    /\ ShownOnce

LEMMA InputSound ==
  ASSUME ContextConstants, input \in Inputs
  PROVE  InputOK(input) /\ SnippetLimit \in Nat
  BY DEF ContextConstants

LEMMA KeptParts ==
  ASSUME NEW p, NEW q, NEW n, Kept(p, q, n), NEW m \in 1 .. 10, m # n
  PROVE  Parts(q)[m] = Parts(p)[m]
<1>1. CASE m = 1
  BY <1>1, PartsAre DEF Kept
<1>2. CASE m = 2
  BY <1>2, PartsAre DEF Kept
<1>3. CASE m = 3
  BY <1>3, PartsAre DEF Kept
<1>4. CASE m = 4
  BY <1>4, PartsAre DEF Kept
<1>5. CASE m = 5
  BY <1>5, PartsAre DEF Kept
<1>6. CASE m = 6
  BY <1>6, PartsAre DEF Kept
<1>7. CASE m = 7
  BY <1>7, PartsAre DEF Kept
<1>8. CASE m = 8
  BY <1>8, PartsAre DEF Kept
<1>9. CASE m = 9
  BY <1>9, PartsAre DEF Kept
<1>10. CASE m = 10
  BY <1>10, PartsAre DEF Kept
<1>11. QED
  BY <1>1, <1>2, <1>3, <1>4, <1>5, <1>6, <1>7, <1>8, <1>9, <1>10

\* Whether a drop changes something depends on its part alone.
LEMMA EffectiveLocal ==
  ASSUME NEW p \in Projection, NEW q \in Projection, NEW m \in 1 .. 10, Parts(p)[m] = Parts(q)[m]
  PROVE  m \in Effective(p) <=> m \in Effective(q)
<1>1. CASE m = 1
  BY <1>1, PartsAre, EffectiveIs
<1>2. CASE m = 2
  BY <1>2, PartsAre, EffectiveIs
<1>3. CASE m = 3
  BY <1>3, PartsAre, EffectiveIs
<1>4. CASE m = 4
  BY <1>4, PartsAre, EffectiveIs
<1>5. CASE m = 5
  BY <1>5, PartsAre, EffectiveIs
<1>6. CASE m = 6
  BY <1>6, PartsAre, EffectiveIs
<1>7. CASE m = 7
  BY <1>7, PartsAre, EffectiveIs
<1>8. CASE m = 8
  BY <1>8, PartsAre, EffectiveIs
<1>9. CASE m = 9
  BY <1>9, PartsAre, EffectiveIs
<1>10. CASE m = 10
  BY <1>10, PartsAre, EffectiveIs
<1>11. QED
  BY <1>1, <1>2, <1>3, <1>4, <1>5, <1>6, <1>7, <1>8, <1>9, <1>10

\* DroppedInOrder of a projection p that was r at first.
InOrder(p, r) ==
    \A n \in 1 .. 10 : Parts(p)[n] # Parts(r)[n] => \A m \in 1 .. n - 1 : m \notin Effective(p)

LEMMA InOrderIs ==
  DroppedInOrder <=> (stage \in Going => InOrder(shown, Cropped(input, Projected(input))))
<1>1. DOMAIN Parts(shown) = 1 .. 10
  BY PartsAre
<1>2. QED
  BY <1>1 DEF DroppedInOrder, InOrder, Going

LEMMA InOrderIsNext ==
  DroppedInOrder' <=> (stage' \in Going => InOrder(shown', Cropped(input', Projected(input'))))
<1>1. DOMAIN Parts(shown') = 1 .. 10
  BY PartsAre
<1>2. QED
  BY <1>1 DEF DroppedInOrder, InOrder, Going

LEMMA FirstDropInOrder ==
  ASSUME NEW p \in Projection, NEW q \in Projection, NEW r, NEW e \in Effective(p),
         \A m \in Effective(p) : e <= m, Kept(p, q, e), InOrder(p, r)
  PROVE  InOrder(q, r)
<1>1. e \in 1 .. 10
  BY EffectiveIs
<1>2. SUFFICES ASSUME NEW n \in 1 .. 10, Parts(q)[n] # Parts(r)[n], NEW m \in 1 .. n - 1
               PROVE  m \notin Effective(q)
  BY DEF InOrder
<1>3. m \in 1 .. 10 /\ m < n
  OBVIOUS
<1>4. m # e /\ m \notin Effective(p)
  <2>1. CASE n = e
    BY <1>1, <1>3, <2>1
  <2>2. CASE n # e
    <3>1. Parts(p)[n] # Parts(r)[n]
      BY <1>2, <2>2, KeptParts
    <3>2. \A k \in 1 .. n - 1 : k \notin Effective(p)
      BY <3>1 DEF InOrder
    <3>3. QED
      BY <3>2
  <2>3. QED
    BY <2>1, <2>2
<1>5. Parts(q)[m] = Parts(p)[m]
  BY <1>3, <1>4, KeptParts
<1>6. QED
  BY <1>3, <1>4, <1>5, EffectiveLocal

LEMMA SamePartsInOrder ==
  ASSUME NEW p \in Projection, NEW q \in Projection, NEW r,
         \A m \in 1 .. 10 : Parts(q)[m] = Parts(p)[m], InOrder(p, r)
  PROVE  InOrder(q, r)
<1>1. SUFFICES ASSUME NEW n \in 1 .. 10, Parts(q)[n] # Parts(r)[n], NEW m \in 1 .. n - 1
               PROVE  m \notin Effective(q)
  BY DEF InOrder
<1>2. m \in 1 .. 10
  OBVIOUS
<1>3. Parts(p)[n] # Parts(r)[n]
  BY <1>1
<1>4. m \notin Effective(p)
  BY <1>3 DEF InOrder
<1>5. QED
  BY <1>2, <1>4, EffectiveLocal

\* Two projections that differ in what is retrieved and known.
SameParts(p, q) ==
    /\ p.preferences = q.preferences /\ p.history = q.history /\ p.experiences = q.experiences
    /\ p.memories = q.memories /\ p.groups = q.groups /\ p.agent = q.agent /\ p.game = q.game
    /\ p.event = q.event /\ p.facts = q.facts /\ p.observation = q.observation

LEMMA SamePartsAre ==
  ASSUME NEW p, NEW q, SameParts(q, p), NEW m \in 1 .. 10
  PROVE  Parts(q)[m] = Parts(p)[m]
<1>1. CASE m = 1
  BY <1>1, PartsAre DEF SameParts
<1>2. CASE m = 2
  BY <1>2, PartsAre DEF SameParts
<1>3. CASE m = 3
  BY <1>3, PartsAre DEF SameParts
<1>4. CASE m = 4
  BY <1>4, PartsAre DEF SameParts
<1>5. CASE m = 5
  BY <1>5, PartsAre DEF SameParts
<1>6. CASE m = 6
  BY <1>6, PartsAre DEF SameParts
<1>7. CASE m = 7
  BY <1>7, PartsAre DEF SameParts
<1>8. CASE m = 8
  BY <1>8, PartsAre DEF SameParts
<1>9. CASE m = 9
  BY <1>9, PartsAre DEF SameParts
<1>10. CASE m = 10
  BY <1>10, PartsAre DEF SameParts
<1>11. QED
  BY <1>1, <1>2, <1>3, <1>4, <1>5, <1>6, <1>7, <1>8, <1>9, <1>10

\* Text that is not of this session's past is in neither section of u.
OwnSections(i, p) ==
    /\ \A n \in 1 .. Len(p.history.sources) : p.history.sources[n].id \in Mine(i.sources)
    /\ \A n \in 1 .. Len(p.experiences) : p.experiences[n].id \in Mine(i.experiences)

OwnSnippets(i, p) ==
    \A n \in 1 .. Len(p.retrieved) : p.retrieved[n].id \in Mine(i.matches)

LEMMA OwnPastIs ==
  ASSUME shown \in Projection
  PROVE  OwnPastOnly <=> OwnSections(input, shown) /\ OwnSnippets(input, shown)
<1>1. /\ shown.history.sources \in Seq(Unit) /\ shown.experiences \in Seq(ExperienceType)
      /\ shown.retrieved \in Seq(SnippetType)
  BY DEF Projection, HistoryType
<1>2. /\ DOMAIN shown.history.sources = 1 .. Len(shown.history.sources)
      /\ DOMAIN shown.experiences = 1 .. Len(shown.experiences)
      /\ DOMAIN shown.retrieved = 1 .. Len(shown.retrieved)
  BY <1>1, LenProperties
<1>3. QED
  BY <1>2 DEF OwnPastOnly, OwnSections, OwnSnippets, Mine

LEMMA OwnPastIsNext ==
  ASSUME shown' \in Projection
  PROVE  OwnPastOnly' <=> OwnSections(input', shown') /\ OwnSnippets(input', shown')
<1>1. /\ shown'.history.sources \in Seq(Unit) /\ shown'.experiences \in Seq(ExperienceType)
      /\ shown'.retrieved \in Seq(SnippetType)
  BY DEF Projection, HistoryType
<1>2. /\ DOMAIN shown'.history.sources = 1 .. Len(shown'.history.sources)
      /\ DOMAIN shown'.experiences = 1 .. Len(shown'.experiences)
      /\ DOMAIN shown'.retrieved = 1 .. Len(shown'.retrieved)
  BY <1>1, LenProperties
<1>3. QED
  BY <1>2 DEF OwnPastOnly, OwnSections, OwnSnippets, Mine

LEMMA OwnShrinks ==
  ASSUME NEW i, NEW p \in Projection, NEW q, OwnSections(i, p), Shrunk(p, q)
  PROVE  OwnSections(i, q)
<1> DEFINE s == p.history.sources
           t == q.history.sources
           d == p.experiences
           e == q.experiences
<1>1. s \in Seq(Unit) /\ Len(s) \in Nat /\ d \in Seq(ExperienceType) /\ Len(d) \in Nat
  BY LenProperties DEF Projection, HistoryType
<1>2. \A n \in 1 .. Len(t) : t[n].id \in Mine(i.sources)
  <2>1. CASE t = s
    BY <2>1 DEF OwnSections
  <2>2. CASE s # << >> /\ t = Tail(s)
    <3>1. Len(t) = Len(s) - 1 /\ \A n \in 1 .. Len(t) : t[n] = s[n + 1]
      <4> HIDE DEF s, t
      <4>1. QED
        BY <1>1, <2>2, HeadTailProperties
    <3>2. ASSUME NEW n \in 1 .. Len(t) PROVE t[n].id \in Mine(i.sources)
      <4>1. n + 1 \in 1 .. Len(s) /\ t[n] = s[n + 1]
        BY <1>1, <3>1
      <4>2. QED
        BY <4>1 DEF OwnSections
    <3>3. QED
      BY <3>2
  <2>3. QED
    BY <2>1, <2>2 DEF Shrunk
<1>3. \A n \in 1 .. Len(e) : e[n].id \in Mine(i.experiences)
  <2>1. CASE e = d
    BY <2>1 DEF OwnSections
  <2>2. CASE d # << >> /\ e = Front(d)
    <3>1. Len(e) = Len(d) - 1 /\ \A n \in 1 .. Len(e) : e[n] = d[n]
      <4> HIDE DEF d, e
      <4>1. QED
        BY <1>1, <2>2, ShorterDiffers
    <3>2. ASSUME NEW n \in 1 .. Len(e) PROVE e[n].id \in Mine(i.experiences)
      <4>1. n \in 1 .. Len(d) /\ e[n] = d[n]
        BY <1>1, <3>1
      <4>2. QED
        BY <4>1 DEF OwnSections
    <3>3. QED
      BY <3>2
  <2>3. QED
    BY <2>1, <2>2 DEF Shrunk
<1>4. QED
  BY <1>2, <1>3 DEF OwnSections

LEMMA NothingRetrieved ==
  ASSUME shown.retrieved = << >>
  PROVE  ShownOnce
  BY DEF ShownOnce

-----------------------------------------------------------------------------
(* The steps of a build.                                                    *)

LEMMA BuildInitInv ==
  ASSUME ContextConstants, BuildInit
  PROVE  BuildInv
<1>1. stage = "start" /\ input \in Inputs /\ shown = Nothing /\ cursor = 1
  BY DEF BuildInit
<1>2. InputOK(input) /\ SnippetLimit \in Nat
  BY <1>1, InputSound
<1>3. ProjectionOK(input, shown) /\ shown \in Projection
  BY <1>1, <1>2, NothingSound DEF ProjectionOK
<1>4. /\ shown.retrieved = << >> /\ shown.knowledge = << >>
      /\ shown.history.sources = << >> /\ shown.experiences = << >>
  BY <1>1 DEF Nothing
<1>5. StageSound
  BY <1>1, <1>4 DEF StageSound, Going
<1>6. LookedAt
  BY <1>1, <1>2, <1>4 DEF LookedAt
<1>7. FitsOrMinimal /\ NewestGroupKept /\ DroppedInOrder
  BY <1>1 DEF FitsOrMinimal, NewestGroupKept, DroppedInOrder
<1>8. OwnPastOnly
  BY <1>3, <1>4, OwnPastIs DEF OwnSections, OwnSnippets
<1>9. ShownOnce
  BY <1>4, NothingRetrieved
<1>10. QED
  BY <1>1, <1>3, <1>5, <1>6, <1>7, <1>8, <1>9 DEF BuildInv

LEMMA ValidateInv ==
  ASSUME BuildInv, Validate
  PROVE  BuildInv'
<1>1. /\ stage = "start" /\ stage' = "failed" /\ ~ValidInput(input)
      /\ input' = input /\ shown' = shown /\ cursor' = cursor
  BY DEF Validate
<1>2. StageSound'
  BY <1>1 DEF BuildInv, StageSound
<1>3. LookedAt'
  BY <1>1 DEF BuildInv, LookedAt
<1>4. FitsOrMinimal' /\ NewestGroupKept' /\ DroppedInOrder'
  BY <1>1 DEF FitsOrMinimal, NewestGroupKept, DroppedInOrder
<1>5. OwnPastOnly' /\ ShownOnce'
  BY <1>1 DEF BuildInv, OwnPastOnly, ShownOnce
<1>6. QED
  BY <1>1, <1>2, <1>3, <1>4, <1>5 DEF BuildInv

LEMMA ProjectInv ==
  ASSUME ContextConstants, BuildInv, Project
  PROVE  BuildInv'
<1>1. stage = "start" /\ input' = input /\ cursor' = cursor
  BY DEF Project
<1>2. input \in Inputs /\ cursor \in Nat \ { 0 } /\ cursor = 1 /\ shown.retrieved = << >> /\ shown.knowledge = << >>
  BY <1>1 DEF BuildInv, StageSound
<1>3. InputOK(input) /\ SnippetLimit \in Nat
  BY <1>2, InputSound
<1>4. CASE TranscriptFails(input)
  <2>1. stage' = "failed" /\ shown' = shown
    BY <1>4 DEF Project
  <2>2. StageSound' /\ LookedAt'
    BY <1>1, <1>2, <2>1 DEF BuildInv, StageSound, LookedAt
  <2>3. FitsOrMinimal' /\ NewestGroupKept' /\ DroppedInOrder'
    BY <1>1, <1>4, <2>1 DEF FitsOrMinimal, NewestGroupKept, DroppedInOrder
  <2>4. OwnPastOnly' /\ ShownOnce'
    BY <1>1, <2>1 DEF BuildInv, OwnPastOnly, ShownOnce
  <2>5. QED
    BY <1>1, <2>1, <2>2, <2>3, <2>4 DEF BuildInv
<1>5. CASE ~TranscriptFails(input)
  <2>1. stage' = "sections" /\ shown' = Projected(input)
    BY <1>5 DEF Project
  <2>2. /\ ProjectionOK(input', shown')
        /\ shown'.history = ProjectHistory(input)
        /\ shown'.experiences = ProjectRecentExperiences(input)
        /\ shown'.groups = TrimTranscriptGroups(input)
        /\ shown'.retrieved = << >> /\ shown'.knowledge = << >>
    BY <1>1, <1>3, <2>1, ProjectedSound
  <2>3. StageSound'
    BY <1>1, <1>2, <2>1, <2>2 DEF StageSound
  <2>4. LookedAt'
    BY <1>3, <2>1, <2>2 DEF LookedAt
  <2>5. FitsOrMinimal' /\ DroppedInOrder'
    BY <2>1 DEF FitsOrMinimal, DroppedInOrder
  <2>6. NewestGroupKept'
    <3>1. shown'.groups \in Suffixes(input'.groups)
      BY <1>1, <1>3, <2>2, TrimmedGroups
    <3>2. input'.groups # << >> => shown'.groups # << >>
      BY <1>1, <1>5, <2>2 DEF TranscriptFails
    <3>3. QED
      BY <3>1, <3>2 DEF NewestGroupKept
  <2>7. OwnPastOnly'
    <3>1. \A n \in 1 .. Len(shown'.history.sources) : shown'.history.sources[n].id \in Mine(input.sources)
      BY <1>3, <2>2, HistoryProjected
    <3>2. \A n \in 1 .. Len(shown'.experiences) : shown'.experiences[n].id \in Mine(input.experiences)
      <4> DEFINE u == ProjectRecentExperiences(input)
      <4>1. OwnPick(input.experiences, u)
        BY <1>3, ExperiencesOwn
      <4>2. input.experiences \in Seq(ExperienceType)
        BY <1>3 DEF InputOK, ExperienceType
      <4> HIDE DEF u
      <4>3. \A n \in 1 .. Len(u) : u[n].id \in Mine(input.experiences)
        BY <4>1, <4>2, OwnPickIsMine
      <4>4. QED
        BY <2>2, <4>3 DEF u
    <3>3. OwnSections(input', shown')
      BY <1>1, <3>1, <3>2 DEF OwnSections
    <3>4. OwnSnippets(input', shown')
      BY <2>2 DEF OwnSnippets
    <3>5. shown' \in Projection
      BY <2>2 DEF ProjectionOK
    <3>6. QED
      BY <3>3, <3>4, <3>5, OwnPastIsNext
  <2>8. ShownOnce'
    BY <2>2 DEF ShownOnce
  <2>9. QED
    BY <1>1, <1>2, <2>2, <2>3, <2>4, <2>5, <2>6, <2>7, <2>8 DEF BuildInv
<1>6. QED
  BY <1>4, <1>5

LEMMA SectionsInv ==
  ASSUME ContextConstants, BuildInv, ApplySectionBudgets
  PROVE  BuildInv'
<1>1. /\ stage = "sections" /\ input' = input /\ cursor' = cursor
      /\ shown' = Cropped(input, shown)
      /\ stage' = IF SectionFails(input, shown) THEN "failed" ELSE "trim"
  BY DEF ApplySectionBudgets
<1>2. /\ input \in Inputs /\ cursor \in Nat \ { 0 } /\ cursor = 1 /\ shown = Projected(input)
      /\ shown.retrieved = << >> /\ shown.knowledge = << >>
      /\ ProjectionOK(input, shown) /\ shown \in Projection
  BY <1>1 DEF BuildInv, StageSound, ProjectionOK
<1>3. InputOK(input) /\ SnippetLimit \in Nat
  BY <1>2, InputSound
<1>4. /\ ProjectionOK(input', shown') /\ shown' \in Projection
      /\ SameOptional(shown', shown)
      /\ shown'.task = BoundTaskContext(input, shown.task)
  BY <1>1, <1>2, <1>3, CroppedSound DEF ProjectionOK
<1>5. shown'.retrieved = << >> /\ shown'.knowledge = << >> /\ shown'.groups = shown.groups
  BY <1>2, <1>4 DEF SameOptional
<1>6. StageSound'
  BY <1>1, <1>2, <1>5 DEF StageSound, Going
<1>7. LookedAt'
  BY <1>1, <1>3, <1>5 DEF LookedAt
<1>8. FitsOrMinimal'
  <2>1. CASE SectionFails(input, shown)
    <3>1. SectionFails(input', shown')
      <4>1. CASE \/ input.shell > input.budget.section
                 \/ input.definitions # Absent /\ input.budget.definition < 2
        BY <1>1, <4>1 DEF SectionFails
      <4>2. CASE TaskTokens(BoundTaskContext(input, shown.task)) > input.budget.task
        <5>1. input.budget.task \in Nat /\ shown.task \in { Absent } \cup TaskType
          BY <1>2, <1>3 DEF InputOK, Limited, Projection
        <5>2. TaskTokens(BoundTaskContext(input, BoundTaskContext(input, shown.task))) > input.budget.task
          BY <4>2, <5>1, BoundTaskFinal
        <5>3. QED
          BY <1>1, <1>4, <5>2 DEF SectionFails
      <4>3. QED
        BY <2>1, <4>1, <4>2 DEF SectionFails
    <3>2. QED
      BY <1>1, <2>1, <3>1 DEF FitsOrMinimal
  <2>2. CASE ~SectionFails(input, shown)
    BY <1>1, <2>2 DEF FitsOrMinimal
  <2>3. QED
    BY <2>1, <2>2
<1>9. NewestGroupKept'
  BY <1>1, <1>5 DEF BuildInv, NewestGroupKept
<1>10. DroppedInOrder'
  <2>1. InOrder(shown', Cropped(input', Projected(input')))
    BY <1>1, <1>2 DEF InOrder
  <2>2. QED
    BY <2>1, InOrderIsNext
<1>11. OwnPastOnly'
  <2>1. OwnSections(input, shown)
    BY <1>2, OwnPastIs DEF BuildInv
  <2>2. OwnSections(input', shown')
    BY <1>1, <1>4, <2>1 DEF OwnSections, SameOptional
  <2>3. OwnSnippets(input', shown')
    BY <1>5 DEF OwnSnippets
  <2>4. QED
    BY <1>4, <2>2, <2>3, OwnPastIsNext
<1>12. ShownOnce'
  BY <1>5 DEF ShownOnce
<1>13. QED
  BY <1>1, <1>2, <1>4, <1>6, <1>7, <1>8, <1>9, <1>10, <1>11, <1>12 DEF BuildInv

LEMMA EnforceInv ==
  ASSUME ContextConstants, BuildInv, EnforceGlobalRequestBudget
  PROVE  BuildInv'
<1>1. stage = "trim" /\ input' = input /\ cursor' = cursor
  BY DEF EnforceGlobalRequestBudget
<1>2. /\ input \in Inputs /\ cursor \in Nat \ { 0 } /\ cursor = 1
      /\ shown.retrieved = << >> /\ shown.knowledge = << >>
      /\ ProjectionOK(input, shown) /\ shown \in Projection
  BY <1>1 DEF BuildInv, StageSound, ProjectionOK
<1>3. InputOK(input) /\ SnippetLimit \in Nat
  BY <1>2, InputSound
<1>4. InOrder(shown, Cropped(input, Projected(input)))
  BY <1>1, InOrderIs DEF BuildInv, Going
<1>5. CASE FitsRequestBudget(input, shown)
  <2>1. stage' = "retrieve" /\ shown' = shown
    BY <1>5 DEF EnforceGlobalRequestBudget
  <2>2. StageSound'
    BY <1>1, <1>2, <2>1 DEF StageSound, Going
  <2>3. LookedAt'
    <3>1. \A n \in 1 .. Len(input.matches) : ~(n < cursor)
      BY <1>2
    <3>2. QED
      BY <1>1, <1>2, <1>3, <2>1, <3>1 DEF LookedAt
  <2>4. FitsOrMinimal'
    BY <1>1, <1>5, <2>1 DEF FitsOrMinimal
  <2>5. NewestGroupKept'
    BY <1>1, <2>1 DEF BuildInv, NewestGroupKept
  <2>6. DroppedInOrder'
    BY <1>1, <1>4, <2>1, InOrderIsNext
  <2>7. OwnPastOnly' /\ ShownOnce'
    BY <1>1, <2>1 DEF BuildInv, OwnPastOnly, ShownOnce
  <2>8. QED
    BY <1>1, <2>1, <2>2, <2>3, <2>4, <2>5, <2>6, <2>7 DEF BuildInv
<1>6. CASE ~FitsRequestBudget(input, shown) /\ Effective(shown) = {}
  <2>1. stage' = "failed" /\ shown' = shown
    BY <1>6 DEF EnforceGlobalRequestBudget
  <2>2. StageSound' /\ LookedAt'
    BY <1>1, <1>2, <1>3, <2>1 DEF StageSound, LookedAt
  <2>3. FitsOrMinimal' /\ NewestGroupKept' /\ DroppedInOrder'
    BY <1>1, <1>6, <2>1 DEF FitsOrMinimal, NewestGroupKept, DroppedInOrder
  <2>4. OwnPastOnly' /\ ShownOnce'
    BY <1>1, <2>1 DEF BuildInv, OwnPastOnly, ShownOnce
  <2>5. QED
    BY <1>1, <2>1, <2>2, <2>3, <2>4 DEF BuildInv
<1>7. CASE ~FitsRequestBudget(input, shown) /\ Effective(shown) # {}
  <2> DEFINE e == Min(Effective(shown))
  <2>1. stage' = stage /\ shown' = Drops(shown)[e]
    BY <1>7 DEF EnforceGlobalRequestBudget
  <2>2. e \in Effective(shown) /\ \A m \in Effective(shown) : e <= m
    <3>1. Effective(shown) \in SUBSET Nat
      <4>1. Effective(shown) \subseteq 1 .. 10
        BY <1>2, EffectiveIs
      <4>2. QED
        BY <4>1
    <3>2. QED
      BY <1>7, <3>1, MinIsLeast
  <2> HIDE DEF e
  <2>3. e \in 1 .. 10
    BY <1>2, <2>2, EffectiveIs
  <2>4. /\ ProjectionOK(input', shown') /\ shown' \in Projection
        /\ Kept(shown, shown', e) /\ Shrunk(shown, shown')
    <3>1. Len(input.agent) \in Nat /\ Len(input.game) \in Nat
      BY <1>3, LenProperties DEF InputOK
    <3>2. QED
      BY <1>1, <1>2, <2>1, <2>3, <3>1, DropKept DEF ProjectionOK
  <2>5. shown'.retrieved = << >> /\ shown'.knowledge = << >>
    BY <1>2, <2>4 DEF Kept
  <2>6. StageSound' /\ LookedAt'
    BY <1>1, <1>2, <1>3, <2>1, <2>5 DEF StageSound, LookedAt, Going
  <2>7. FitsOrMinimal'
    BY <1>1, <2>1 DEF FitsOrMinimal
  <2>8. NewestGroupKept'
    <3>1. input.groups \in Seq(Nat) /\ shown.groups \in Seq(Nat)
      BY <1>2, <1>3 DEF InputOK, Projection
    <3>2. shown.groups \in Suffixes(input.groups) /\ (input.groups # << >> => shown.groups # << >>)
      BY <1>1 DEF BuildInv, NewestGroupKept
    <3>3. CASE shown'.groups = shown.groups
      BY <1>1, <3>2, <3>3 DEF NewestGroupKept
    <3>4. CASE Len(shown.groups) > 1 /\ shown'.groups = Tail(shown.groups)
      <4>1. shown.groups # << >> /\ Len(shown.groups) \in Nat
        BY <3>1, <3>4, EmptySeq, LenProperties
      <4>2. Tail(shown.groups) \in Suffixes(input.groups)
        BY <3>1, <3>2, <4>1, TailIsSuffix
      <4> DEFINE t == Tail(shown.groups)
                 a == Len(shown.groups)
                 b == Len(t)
      <4>3. b = a - 1
        BY <3>1, <4>1, HeadTailProperties
      <4>4. a \in Nat /\ a > 1
        BY <3>4, <4>1
      <4> HIDE DEF t, a, b
      <4>5. b # 0
        BY <4>3, <4>4
      <4>6. Len(t) # 0
        BY <4>5 DEF b
      <4>7. t # << >>
        BY <4>6, EmptySeq
      <4>8. QED
        BY <1>1, <3>4, <4>2, <4>7 DEF NewestGroupKept, t
    <3>5. QED
      BY <2>4, <3>3, <3>4 DEF Shrunk
  <2>9. DroppedInOrder'
    <3>1. InOrder(shown', Cropped(input', Projected(input')))
      BY <1>1, <1>2, <1>4, <2>2, <2>4, FirstDropInOrder
    <3>2. QED
      BY <3>1, InOrderIsNext
  <2>10. OwnPastOnly'
    <3>1. OwnSections(input, shown)
      BY <1>2, OwnPastIs DEF BuildInv
    <3>2. OwnSections(input', shown')
      BY <1>1, <1>2, <2>4, <3>1, OwnShrinks
    <3>3. OwnSnippets(input', shown')
      BY <2>5 DEF OwnSnippets
    <3>4. QED
      BY <2>4, <3>2, <3>3, OwnPastIsNext
  <2>11. ShownOnce'
    BY <2>5 DEF ShownOnce
  <2>12. QED
    BY <1>1, <1>2, <2>4, <2>6, <2>7, <2>8, <2>9, <2>10, <2>11 DEF BuildInv
<1>8. QED
  BY <1>5, <1>6, <1>7

\* ShownOnce of the projection p.
Once(p) ==
    \A n \in DOMAIN p.retrieved :
      LET s == p.retrieved[n]
      IN  /\ s.pieces \cap VisiblePieces(p.history, s.id) = {}
          /\ \A m \in DOMAIN p.retrieved \ { n } :
               p.retrieved[m].id = s.id => p.retrieved[m].pieces \cap s.pieces = {}
          /\ \A m \in DOMAIN p.experiences : p.experiences[m].id # s.id

\* What a match adds is this session's past, and in no section of p.
LEMMA SpansSubtracted ==
  ASSUME NEW p, NEW match, NEW w \in SUBSET SubtractRetrievalSpans(match, p), w # {}
  PROVE  /\ match.own /\ match.visible
         /\ \A n \in DOMAIN p.experiences : p.experiences[n].id # match.id
         /\ w \subseteq match.span
         /\ w \cap VisiblePieces(p.history, match.id) = {}
         /\ w \cap Snippets(p, match.id) = {}
<1>1. SubtractRetrievalSpans(match, p) # {}
  OBVIOUS
<1>2. /\ match.own /\ match.visible
      /\ ~ \E n \in DOMAIN p.experiences : p.experiences[n].id = match.id
  BY <1>1 DEF SubtractRetrievalSpans
<1>3. SubtractRetrievalSpans(match, p) =
        (match.span \ VisiblePieces(p.history, match.id)) \ Snippets(p, match.id)
  BY <1>2 DEF SubtractRetrievalSpans
<1>4. QED
  BY <1>2, <1>3

\* A snippet of text that is shown nowhere leaves every piece shown once.
LEMMA SnippetShownOnce ==
  ASSUME NEW i, NEW p, ProjectionOK(i, p), Once(p), NEW match \in MatchType,
         NEW w \in SUBSET SubtractRetrievalSpans(match, p), w # {}
  PROVE  Once(WithSnippet(p, match.id, w))
<1> DEFINE x == [ id |-> match.id, pieces |-> w ]
           r == p.retrieved
           t == Append(r, x)
           q == WithSnippet(p, match.id, w)
<1>1. /\ w \subseteq match.span /\ match.id \in Nat /\ match.span \in SUBSET { 1, 2 }
      /\ \A n \in DOMAIN p.experiences : p.experiences[n].id # match.id
      /\ w \cap VisiblePieces(p.history, match.id) = {}
      /\ w \cap Snippets(p, match.id) = {}
  BY SpansSubtracted DEF MatchType
<1>2. w \in SUBSET { 1, 2 }
  BY <1>1
<1>3. r \in Seq(SnippetType) /\ x \in SnippetType /\ x.pieces = w /\ x.id = match.id
  BY <1>1, <1>2 DEF ProjectionOK, Projection, SnippetType
<1>4. q.retrieved = t /\ q.history = p.history /\ q.experiences = p.experiences
  BY <1>1, <1>2, WithSnippetSound DEF Beside
<1> HIDE DEF x, q
<1>5. /\ t \in Seq(SnippetType) /\ Len(t) = Len(r) + 1 /\ Len(r) \in Nat
      /\ (\A n \in 1 .. Len(r) : t[n] = r[n]) /\ t[Len(r) + 1] = x
      /\ DOMAIN r = 1 .. Len(r)
  BY <1>3, AppendProperties, LenProperties
<1> HIDE DEF t
<1>6. DOMAIN t = 1 .. Len(r) + 1
  BY <1>5, LenProperties
<1>7. \A n \in DOMAIN t : (n \in DOMAIN r /\ t[n] = r[n]) \/ (n = Len(r) + 1 /\ t[n] = x)
  BY <1>5, <1>6
<1>8. \A n \in DOMAIN r : r[n].id = match.id => r[n].pieces \cap w = {}
  <2>1. ASSUME NEW n \in DOMAIN r, r[n].id = match.id PROVE r[n].pieces \subseteq Snippets(p, match.id)
    BY <2>1 DEF Snippets
  <2>2. QED
    BY <1>1, <2>1
<1>9. ASSUME NEW n \in DOMAIN t
      PROVE  /\ t[n].pieces \cap VisiblePieces(p.history, t[n].id) = {}
             /\ \A m \in DOMAIN t \ { n } : t[m].id = t[n].id => t[m].pieces \cap t[n].pieces = {}
             /\ \A m \in DOMAIN p.experiences : p.experiences[m].id # t[n].id
  <2>1. CASE n \in DOMAIN r /\ t[n] = r[n]
    <3>1. /\ r[n].pieces \cap VisiblePieces(p.history, r[n].id) = {}
          /\ \A m \in DOMAIN r \ { n } : r[m].id = r[n].id => r[m].pieces \cap r[n].pieces = {}
          /\ \A m \in DOMAIN p.experiences : p.experiences[m].id # r[n].id
      BY <2>1 DEF Once
    <3>2. ASSUME NEW m \in DOMAIN t \ { n }, t[m].id = t[n].id
          PROVE  t[m].pieces \cap t[n].pieces = {}
      <4>1. CASE m \in DOMAIN r /\ t[m] = r[m]
        BY <2>1, <3>1, <3>2, <4>1
      <4>2. CASE t[m] = x
        BY <1>3, <1>8, <2>1, <3>2, <4>2
      <4>3. QED
        BY <1>7, <4>1, <4>2
    <3>3. QED
      BY <2>1, <3>1, <3>2
  <2>2. CASE n = Len(r) + 1 /\ t[n] = x
    <3>1. ASSUME NEW m \in DOMAIN t \ { n }, t[m].id = t[n].id
          PROVE  t[m].pieces \cap t[n].pieces = {}
      <4>1. m \in DOMAIN r /\ t[m] = r[m]
        BY <1>7, <2>2
      <4>2. QED
        BY <1>3, <1>8, <2>2, <3>1, <4>1
    <3>2. QED
      BY <1>1, <1>3, <2>2, <3>1
  <2>3. QED
    BY <1>7, <2>1, <2>2
<1>10. Once(q)
  BY <1>4, <1>9 DEF Once
<1>11. QED
  BY <1>10 DEF q

\* A snippet that is admitted is new text that fits.
LEMMA AdmittedFits ==
  ASSUME NEW i, NEW match, NEW p, NEW w \in Admitted(i, match, p), SnippetLimit \in Nat,
         Len(p.retrieved) \in Nat
  PROVE  /\ w \in SUBSET SubtractRetrievalSpans(match, p) /\ w # {}
         /\ SnippetFits(i, WithSnippet(p, match.id, w))
         /\ Len(p.retrieved) < SnippetLimit
<1> DEFINE pieces == SubtractRetrievalSpans(match, p)
           parts == { v \in SUBSET pieces : v # {} /\ SnippetFits(i, WithSnippet(p, match.id, v)) }
<1>1. ~(Len(p.retrieved) >= SnippetLimit) /\ w \in parts
  BY DEF Admitted
<1>2. QED
  BY <1>1

\* A match of which no part is admitted is shown already, or has no room.
LEMMA NoneAdmitted ==
  ASSUME NEW i, NEW match, NEW p \in Projection, Admitted(i, match, p) = {}, p.knowledge = << >>,
         SnippetLimit \in Nat, Len(p.retrieved) \in Nat, Len(p.retrieved) <= SnippetLimit
  PROVE  Found(i, p, match)
<1> DEFINE pieces == SubtractRetrievalSpans(match, p)
           parts == { v \in SUBSET pieces : v # {} /\ SnippetFits(i, WithSnippet(p, match.id, v)) }
<1>1. CASE Len(p.retrieved) >= SnippetLimit
  BY <1>1 DEF Found
<1>2. CASE ~(Len(p.retrieved) >= SnippetLimit)
  <2>1. parts = {}
    BY <1>2 DEF Admitted
  <2>2. CASE \/ ~match.own \/ ~match.visible
             \/ \E n \in DOMAIN p.experiences : p.experiences[n].id = match.id
    BY <2>2 DEF Found
  <2>3. CASE ~(\/ ~match.own \/ ~match.visible
               \/ \E n \in DOMAIN p.experiences : p.experiences[n].id = match.id)
    <3>1. pieces = (match.span \ VisiblePieces(p.history, match.id)) \ Snippets(p, match.id)
      BY <2>3 DEF SubtractRetrievalSpans
    <3>2. [ p EXCEPT !.knowledge = << >> ] = p
      BY DEF Projection
    <3> HIDE DEF pieces
    <3>3. CASE match.span \cap (VisiblePieces(p.history, match.id) \cup Snippets(p, match.id)) = {}
      <4>1. \A v \in match.span : v \in pieces
        BY <3>1, <3>3
      <4>2. \A v \in match.span : ~SnippetFits(i, WithSnippet(p, match.id, { v }))
        BY <2>1, <4>1
      <4>3. QED
        BY <3>2, <4>2 DEF Found
    <3>4. QED
      BY <3>3 DEF Found
  <2>4. QED
    BY <2>2, <2>3
<1>3. QED
  BY <1>1, <1>2

LEMMA RetrieveInv ==
  ASSUME ContextConstants, BuildInv, ProjectRetrievedHistory
  PROVE  BuildInv'
<1>1. stage = "retrieve" /\ input' = input
  BY DEF ProjectRetrievedHistory
<1>2. /\ input \in Inputs /\ cursor \in Nat \ { 0 } /\ shown.knowledge = << >>
      /\ ProjectionOK(input, shown) /\ shown \in Projection
      /\ FitsRequestBudget(input, shown)
      /\ Len(shown.retrieved) <= SnippetLimit
      /\ \A n \in 1 .. Len(input.matches) : n < cursor => Found(input, shown, input.matches[n])
  BY <1>1 DEF BuildInv, StageSound, ProjectionOK, LookedAt, FitsOrMinimal
<1>3. InputOK(input) /\ SnippetLimit \in Nat
  BY <1>2, InputSound
<1>4. /\ input.matches \in Seq(MatchType) /\ Len(input.matches) \in Nat
      /\ DOMAIN input.matches = 1 .. Len(input.matches)
  <2>1. input.matches \in Seq(MatchType)
    BY <1>3 DEF InputOK, MatchType
  <2>2. QED
    BY <2>1, LenProperties
<1>5. shown.retrieved \in Seq(SnippetType) /\ Len(shown.retrieved) \in Nat
  <2>1. shown.retrieved \in Seq(SnippetType)
    BY <1>2 DEF Projection
  <2>2. QED
    BY <2>1, LenProperties
<1>6. CASE cursor > Len(input.matches) \/ ~input.snapshotOwn
  <2>1. stage' = "knowledge" /\ cursor' = 1 /\ shown' = shown
    BY <1>6 DEF ProjectRetrievedHistory
  <2>2. StageSound'
    BY <1>1, <2>1 DEF StageSound, Going
  <2>3. LookedAt'
    <3>1. input.snapshotOwn => \A n \in 1 .. Len(input.matches) : Found(input, shown, input.matches[n])
      BY <1>2, <1>4, <1>6
    <3>2. QED
      BY <1>1, <1>2, <2>1, <3>1 DEF LookedAt
  <2>4. FitsOrMinimal'
    BY <1>1, <1>2, <2>1 DEF FitsOrMinimal
  <2>5. NewestGroupKept'
    BY <1>1, <2>1 DEF BuildInv, NewestGroupKept
  <2>6. DroppedInOrder'
    BY <1>1, <2>1 DEF BuildInv, DroppedInOrder
  <2>7. OwnPastOnly' /\ ShownOnce'
    BY <1>1, <2>1 DEF BuildInv, OwnPastOnly, ShownOnce
  <2>8. QED
    BY <1>1, <1>2, <2>1, <2>2, <2>3, <2>4, <2>5, <2>6, <2>7 DEF BuildInv
<1>7. CASE ~(cursor > Len(input.matches) \/ ~input.snapshotOwn)
  <2> DEFINE match == input.matches[cursor]
  <2>1. /\ cursor' = cursor + 1 /\ stage' = stage
        /\ IF Admitted(input, match, shown) = {} THEN shown' = shown
           ELSE \E w \in Admitted(input, match, shown) : shown' = WithSnippet(shown, match.id, w)
    BY <1>7 DEF ProjectRetrievedHistory
  <2>2. cursor > 0
    BY <1>2
  <2>3. cursor \in 1 .. Len(input.matches) /\ match \in MatchType
    BY <1>2, <1>4, <1>7, <2>2, ElementOfSeq
  <2>4. ASSUME \A n \in 1 .. Len(input.matches) : n < cursor => Found(input, shown', input.matches[n]),
               Found(input, shown', match), NEW n \in 1 .. Len(input.matches), n < cursor'
        PROVE  Found(input', shown', input'.matches[n])
    <3>1. n < cursor \/ n = cursor
      BY <1>2, <2>1, <2>4
    <3>2. QED
      BY <1>1, <2>4, <3>1
  <2> HIDE DEF match
  <2>5. CASE Admitted(input, match, shown) = {}
    <3>1. shown' = shown
      BY <2>1, <2>5
    <3>2. Found(input, shown', match)
      BY <1>2, <1>3, <1>5, <2>5, <3>1, NoneAdmitted
    <3>3. LookedAt'
      <4>1. \A n \in 1 .. Len(input.matches) : n < cursor' => Found(input', shown', input'.matches[n])
        BY <1>2, <2>4, <3>1, <3>2
      <4>2. QED
        BY <1>1, <1>2, <2>1, <3>1, <4>1 DEF LookedAt
    <3>4. StageSound'
      BY <1>1, <1>2, <2>1, <3>1 DEF StageSound, Going
    <3>5. FitsOrMinimal' /\ NewestGroupKept'
      BY <1>1, <1>2, <2>1, <3>1 DEF BuildInv, FitsOrMinimal, NewestGroupKept
    <3>6. DroppedInOrder'
      BY <1>1, <2>1, <3>1 DEF BuildInv, DroppedInOrder
    <3>7. OwnPastOnly' /\ ShownOnce'
      BY <1>1, <3>1 DEF BuildInv, OwnPastOnly, ShownOnce
    <3>8. cursor' \in Nat \ { 0 }
      BY <1>2, <2>1
    <3>9. QED
      BY <1>1, <1>2, <3>1, <3>3, <3>4, <3>5, <3>6, <3>7, <3>8 DEF BuildInv
  <2>6. CASE Admitted(input, match, shown) # {}
    <3>1. PICK w \in Admitted(input, match, shown) : shown' = WithSnippet(shown, match.id, w)
      BY <2>1, <2>6
    <3>2. /\ w \in SUBSET SubtractRetrievalSpans(match, shown) /\ w # {}
          /\ SnippetFits(input, shown')
          /\ Len(shown.retrieved) < SnippetLimit
      BY <1>3, <1>5, <3>1, AdmittedFits
    <3>3. match.own /\ match.visible /\ w \subseteq match.span
      BY <3>2, SpansSubtracted
    <3>4. match.id \in Nat /\ w \in SUBSET { 1, 2 }
      BY <2>3, <3>3 DEF MatchType
    <3>5. /\ ProjectionOK(input, shown') /\ shown' \in Projection
          /\ shown'.retrieved = Append(shown.retrieved, [ id |-> match.id, pieces |-> w ])
          /\ Beside(shown', shown)
      <4>1. /\ ProjectionOK(input, shown')
            /\ shown'.retrieved = Append(shown.retrieved, [ id |-> match.id, pieces |-> w ])
            /\ Beside(shown', shown)
        BY <1>2, <3>1, <3>4, WithSnippetSound
      <4>2. QED
        BY <4>1 DEF ProjectionOK
    <3>6. FitsRequestBudget(input, shown')
      BY <3>2 DEF SnippetFits
    <3>7. shown'.knowledge = << >> /\ shown'.groups = shown.groups
      BY <1>2, <3>5 DEF Beside
    <3>8. StageSound'
      BY <1>1, <2>1, <3>7 DEF StageSound, Going
    <3>9. LookedAt'
      <4>1. Len(shown.retrieved) # SnippetLimit
        BY <1>3, <1>5, <3>2
      <4>2. Len(shown'.retrieved) <= SnippetLimit
        <5> DEFINE x == [ id |-> match.id, pieces |-> w ]
        <5>1. x \in SnippetType
          BY <3>4 DEF SnippetType
        <5> HIDE DEF x
        <5>2. shown'.retrieved = Append(shown.retrieved, x)
          BY <3>5 DEF x
        <5>3. Len(Append(shown.retrieved, x)) = Len(shown.retrieved) + 1
          BY <1>5, <5>1, AppendProperties
        <5>4. QED
          BY <1>3, <1>5, <3>2, <5>2, <5>3
      <4>3. \A n \in 1 .. Len(input.matches) : input.matches[n] \in MatchType
        BY <1>4, ElementOfSeq
      <4>4. \A n \in 1 .. Len(input.matches) : n < cursor => Found(input, shown', input.matches[n])
        BY <1>2, <1>3, <3>1, <3>4, <4>1, <4>3, FoundGrows
      <4>5. Found(input, shown', match)
        <5>1. w \subseteq Snippets(shown', match.id)
          BY <1>2, <3>1, <3>4, SnippetsGrow
        <5>2. match.span \cap (VisiblePieces(shown'.history, match.id) \cup Snippets(shown', match.id)) # {}
          BY <3>2, <3>3, <5>1
        <5>3. QED
          BY <5>2 DEF Found
      <4>6. \A n \in 1 .. Len(input.matches) : n < cursor' => Found(input', shown', input'.matches[n])
        BY <2>4, <4>4, <4>5
      <4>7. QED
        BY <1>1, <2>1, <4>2, <4>6 DEF LookedAt
    <3>10. FitsOrMinimal'
      BY <1>1, <2>1, <3>6 DEF FitsOrMinimal
    <3>11. NewestGroupKept'
      BY <1>1, <2>1, <3>7 DEF BuildInv, NewestGroupKept
    <3>12. DroppedInOrder'
      <4>1. InOrder(shown, Cropped(input, Projected(input)))
        BY <1>1, InOrderIs DEF BuildInv, Going
      <4>2. SameParts(shown', shown)
        BY <3>5 DEF Beside, SameParts
      <4>3. \A m \in 1 .. 10 : Parts(shown')[m] = Parts(shown)[m]
        BY <4>2, SamePartsAre
      <4>4. InOrder(shown', Cropped(input', Projected(input')))
        BY <1>1, <1>2, <3>5, <4>1, <4>3, SamePartsInOrder
      <4>5. QED
        BY <4>4, InOrderIsNext
    <3>13. OwnPastOnly'
      <4>1. OwnSections(input, shown) /\ OwnSnippets(input, shown)
        BY <1>2, OwnPastIs DEF BuildInv
      <4>2. OwnSections(input', shown')
        BY <1>1, <3>5, <4>1 DEF OwnSections, Beside
      <4>3. match.id \in Mine(input.matches)
        BY <1>4, <2>3, <3>3 DEF Mine, match
      <4>4. OwnSnippets(input', shown')
        <5> DEFINE x == [ id |-> match.id, pieces |-> w ]
                   r == shown.retrieved
                   t == Append(r, x)
        <5>1. x \in SnippetType /\ x.id = match.id
          BY <3>4 DEF SnippetType
        <5> HIDE DEF x
        <5>2. /\ Len(t) = Len(r) + 1 /\ (\A n \in 1 .. Len(r) : t[n] = r[n]) /\ t[Len(r) + 1] = x
          BY <1>5, <5>1, AppendProperties
        <5>3. \A n \in 1 .. Len(r) : r[n].id \in Mine(input.matches)
          BY <4>1 DEF OwnSnippets
        <5>4. shown'.retrieved = t
          BY <3>5 DEF x
        <5>5. Len(r) \in Nat
          BY <1>5
        <5> HIDE DEF t, r
        <5>6. \A n \in 1 .. Len(t) : n \in 1 .. Len(r) \/ n = Len(r) + 1
          BY <5>2, <5>5
        <5>7. \A n \in 1 .. Len(t) : t[n].id \in Mine(input.matches)
          BY <4>3, <5>1, <5>2, <5>3, <5>6
        <5>8. QED
          BY <1>1, <5>4, <5>7 DEF OwnSnippets
      <4>5. QED
        BY <3>5, <4>2, <4>4, OwnPastIsNext
    <3>14. ShownOnce'
      <4>1. Once(shown)
        BY DEF BuildInv, ShownOnce, Once
      <4>2. Once(shown')
        BY <1>2, <2>3, <3>1, <3>2, <4>1, SnippetShownOnce
      <4>3. QED
        BY <4>2 DEF ShownOnce, Once
    <3>15. cursor' \in Nat \ { 0 }
      BY <1>2, <2>1
    <3>16. QED
      BY <1>1, <1>2, <3>5, <3>8, <3>9, <3>10, <3>11, <3>12, <3>13, <3>14, <3>15 DEF BuildInv
  <2>7. QED
    BY <2>5, <2>6
<1>8. QED
  BY <1>6, <1>7

LEMMA KnowledgeInv ==
  ASSUME ContextConstants, BuildInv, ProjectKnowledge
  PROVE  BuildInv'
<1>1. stage = "knowledge" /\ input' = input
  BY DEF ProjectKnowledge
<1>2. /\ input \in Inputs /\ cursor \in Nat \ { 0 }
      /\ ProjectionOK(input, shown) /\ shown \in Projection
      /\ FitsRequestBudget(input, shown)
      /\ Len(shown.retrieved) <= SnippetLimit
      /\ input.snapshotOwn => \A n \in 1 .. Len(input.matches) : Found(input, shown, input.matches[n])
  BY <1>1 DEF BuildInv, ProjectionOK, LookedAt, FitsOrMinimal
<1>3. InputOK(input) /\ SnippetLimit \in Nat
  BY <1>2, InputSound
<1>4. ASSUME shown' = shown, stage' \in { "knowledge", "built" }, cursor' \in Nat \ { 0 }
      PROVE  BuildInv'
  <2>1. StageSound'
    BY <1>4 DEF StageSound, Going
  <2>2. LookedAt'
    BY <1>1, <1>2, <1>4 DEF LookedAt
  <2>3. FitsOrMinimal'
    BY <1>1, <1>2, <1>4 DEF FitsOrMinimal
  <2>4. NewestGroupKept'
    BY <1>1, <1>4 DEF BuildInv, NewestGroupKept
  <2>5. DroppedInOrder'
    BY <1>1, <1>4 DEF BuildInv, DroppedInOrder
  <2>6. OwnPastOnly' /\ ShownOnce'
    BY <1>1, <1>4 DEF BuildInv, OwnPastOnly, ShownOnce
  <2>7. QED
    BY <1>1, <1>2, <1>4, <2>1, <2>2, <2>3, <2>4, <2>5, <2>6 DEF BuildInv
<1>5. CASE cursor > Len(input.knowledge) \/ ~input.knowledgeOwn \/ Len(shown.knowledge) >= AutomaticLimit
  <2>1. stage' = "built" /\ shown' = shown /\ cursor' = cursor
    BY <1>5 DEF ProjectKnowledge
  <2>2. QED
    BY <1>2, <1>4, <2>1
<1>6. CASE ~(cursor > Len(input.knowledge) \/ ~input.knowledgeOwn \/ Len(shown.knowledge) >= AutomaticLimit)
  <2> DEFINE entry == input.knowledge[cursor]
             more == [ shown EXCEPT !.knowledge = Append(@, entry) ]
  <2>1. /\ stage' = stage /\ cursor' = cursor + 1
        /\ shown' = shown \/ (shown' = more /\ FitsRequestBudget(input, more))
    BY <1>6 DEF ProjectKnowledge
  <2>2. cursor' \in Nat \ { 0 }
    BY <1>2, <2>1
  <2>3. CASE shown' = shown
    BY <1>1, <1>4, <2>1, <2>2, <2>3
  <2>4. CASE shown' = more /\ FitsRequestBudget(input, more)
    <3>1. entry \in Nat
      <4>1. input.knowledge \in Seq(Nat) /\ Len(input.knowledge) \in Nat
        BY <1>3, LenProperties DEF InputOK
      <4>2. cursor \in 1 .. Len(input.knowledge)
        BY <1>2, <1>6, <4>1
      <4>3. QED
        BY <4>1, <4>2, ElementOfSeq
    <3> HIDE DEF entry
    <3>2. shown.knowledge \in Seq(Nat)
      BY <1>2 DEF Projection
    <3>3. Append(shown.knowledge, entry) \in Seq(Nat)
      BY <3>1, <3>2, AppendProperties
    <3> DEFINE k == Append(shown.knowledge, entry)
    <3>4. shown' = [ shown EXCEPT !.knowledge = k ]
      BY <2>4
    <3>5. k \in Seq(Nat)
      BY <3>3
    <3> HIDE DEF k, more
    <3>6. shown' \in Projection
      BY <1>2, <3>4, <3>5 DEF Projection
    <3>7. SameParts(shown', shown) /\ shown'.retrieved = shown.retrieved
      BY <1>2, <3>4 DEF Projection, SameParts
    <3>8. [ shown' EXCEPT !.knowledge = << >> ] = [ shown EXCEPT !.knowledge = << >> ]
      BY <1>2, <3>4 DEF Projection
    <3>9. /\ shown'.experiences = shown.experiences /\ shown'.history = shown.history
          /\ shown'.groups = shown.groups /\ shown'.agent = shown.agent /\ shown'.game = shown.game
      BY <3>7 DEF SameParts
    <3>10. ProjectionOK(input', shown')
      BY <1>1, <1>2, <3>6, <3>9 DEF ProjectionOK
    <3>11. StageSound'
      BY <1>1, <2>1 DEF StageSound, Going
    <3>12. \A id : Snippets(shown', id) = Snippets(shown, id)
      BY <3>7 DEF Snippets
    <3>13. ASSUME NEW match, Found(input, shown, match) PROVE Found(input, shown', match)
      <4> DEFINE rest == [ shown EXCEPT !.knowledge = << >> ]
                 next == [ shown' EXCEPT !.knowledge = << >> ]
      <4>1. next = rest
        BY <3>8
      <4>2. Found(input, shown, match) <=>
              \/ ~match.own \/ ~match.visible
              \/ \E m \in DOMAIN shown.experiences : shown.experiences[m].id = match.id
              \/ match.span \cap (VisiblePieces(shown.history, match.id) \cup Snippets(shown, match.id)) # {}
              \/ Len(shown.retrieved) = SnippetLimit
              \/ \A w \in match.span : ~SnippetFits(input, WithSnippet(rest, match.id, { w }))
        BY DEF Found
      <4>3. Found(input, shown', match) <=>
              \/ ~match.own \/ ~match.visible
              \/ \E m \in DOMAIN shown'.experiences : shown'.experiences[m].id = match.id
              \/ match.span \cap (VisiblePieces(shown'.history, match.id) \cup Snippets(shown', match.id)) # {}
              \/ Len(shown'.retrieved) = SnippetLimit
              \/ \A w \in match.span : ~SnippetFits(input, WithSnippet(next, match.id, { w }))
        BY DEF Found
      <4> HIDE DEF rest, next
      <4>4. QED
        BY <3>7, <3>9, <3>12, <3>13, <4>1, <4>2, <4>3
    <3>14. LookedAt'
      BY <1>1, <1>2, <2>1, <3>7, <3>13 DEF LookedAt
    <3>15. FitsOrMinimal'
      BY <1>1, <2>1, <2>4 DEF FitsOrMinimal
    <3>16. NewestGroupKept'
      BY <1>1, <2>1, <3>9 DEF BuildInv, NewestGroupKept
    <3>17. DroppedInOrder'
      <4>1. InOrder(shown, Cropped(input, Projected(input)))
        BY <1>1, InOrderIs DEF BuildInv, Going
      <4>2. \A m \in 1 .. 10 : Parts(shown')[m] = Parts(shown)[m]
        BY <3>7, SamePartsAre
      <4>3. InOrder(shown', Cropped(input', Projected(input')))
        BY <1>1, <1>2, <3>6, <4>1, <4>2, SamePartsInOrder
      <4>4. QED
        BY <4>3, InOrderIsNext
    <3>18. OwnPastOnly' /\ ShownOnce'
      BY <1>1, <3>7, <3>9 DEF BuildInv, OwnPastOnly, ShownOnce
    <3>19. QED
      BY <1>1, <1>2, <2>2, <3>10, <3>11, <3>14, <3>15, <3>16, <3>17, <3>18 DEF BuildInv
  <2>5. QED
    BY <2>1, <2>3, <2>4
<1>7. QED
  BY <1>5, <1>6

LEMMA BuildStepInv ==
  ASSUME ContextConstants, BuildInv, [BuildNext]_buildVars
  PROVE  BuildInv'
<1>1. CASE BuildNext
  BY <1>1, ValidateInv, ProjectInv, SectionsInv, EnforceInv, RetrieveInv, KnowledgeInv DEF BuildNext
<1>2. CASE UNCHANGED buildVars
  BY <1>2 DEF buildVars, BuildInv, StageSound, LookedAt, FitsOrMinimal, NewestGroupKept, DroppedInOrder,
     OwnPastOnly, ShownOnce
<1>3. QED
  BY <1>1, <1>2

LEMMA BuildInvSound ==
  ASSUME ContextConstants, BuildInv
  PROVE  RequestSound
<1>1. DOMAIN input.matches = 1 .. Len(input.matches)
  <2>1. InputOK(input)
    BY InputSound DEF BuildInv
  <2>2. input.matches \in Seq(MatchType)
    BY <2>1 DEF InputOK, MatchType
  <2>3. QED
    BY <2>2, LenProperties
<1>2. stage = "built" /\ input.snapshotOwn =>
        \A n \in DOMAIN input.matches : Found(input, shown, input.matches[n])
  BY <1>1 DEF BuildInv, LookedAt
<1>3. FoundTextShown
  BY <1>2 DEF FoundTextShown, Found
<1>4. QED
  BY <1>3 DEF BuildInv, RequestSound

\* Build: whatever the step of a turn knows and whatever the limits are, the
\* request fits every limit or the build fails for want of room alone; what
\* is left of the transcript ends with the newest exchange; a section is
\* cropped only when all that goes before it is gone; text of another session
\* or of a rewound future is never shown, no piece of text twice, and text the
\* search found is left out only when no piece of it has room.
THEOREM RequestIsSound == BuildSpec => []RequestSound
<1>1. BuildInit => BuildInv
  BY ContextAssumption, BuildInitInv
<1>2. BuildInv /\ [BuildNext]_buildVars => BuildInv'
  BY ContextAssumption, BuildStepInv
<1>3. BuildInv => RequestSound
  BY ContextAssumption, BuildInvSound
<1>4. QED
  BY <1>1, <1>2, <1>3, PTL DEF BuildSpec
=============================================================================
